--------------------------- MODULE ProviderProofs ---------------------------
(***************************************************************************)
(* The execute filter, the thread-safe fixed window and the sliding window *)
(* keep their limits, and the count of the shutdown filter is off by the   *)
(* panics only, for any number of requests and methods and every           *)
(* configuration.                                                          *)
(***************************************************************************)
EXTENDS Provider, FiniteSetTheorems, TLAPS

\* Most steps are first-order, and Zenon is the quickest to find them.
USE ZenonT(3), SMT, Zenon, SMTT(20)

HoldStates == {"pshutdown", "invoke", "response", "decrease"}
RunStates == {"pshutdown", "invoke", "response"}
FreeStates == States \ HoldStates

ExecuteTypeOK ==
  /\ conf \in Confs
  /\ at \in [Requests -> States]
  /\ executeState \in [Targets -> Nat]

\* The execute counters are exact, and so no more run than the limit.
ExecuteInv == ExecuteTypeOK /\ ExecuteExact /\ ExecuteBound

-----------------------------------------------------------------------------
(* Lemmas about the sets that are counted.                                 *)

\* The requests that are counted are finitely many.
LEMMA HoldersFinite ==
  ASSUME NEW t
  PROVE  /\ IsFiniteSet(Holders(t)) /\ Cardinality(Holders(t)) \in Nat
         /\ IsFiniteSet(Executing(t)) /\ Cardinality(Executing(t)) \in Nat
         /\ Cardinality(Executing(t)) <= Cardinality(Holders(t))
PROOF
  <1>1. Holders(t) \subseteq Requests /\ Executing(t) \subseteq Holders(t)
    BY DEF Holders, Executing
  <1>2. IsFiniteSet(Holders(t))  BY <1>1, ProviderAssumption, FS_Subset
  <1>3. IsFiniteSet(Executing(t))  BY <1>1, <1>2, FS_Subset
  <1> QED BY <1>1, <1>2, <1>3, FS_Subset, FS_CardinalityType

\* A method's counter is that of a target, and its limit is a number.
LEMMA CountedType ==
  ASSUME conf \in Confs, NEW m \in Methods
  PROVE  /\ ExecuteTarget(m) \in Targets
         /\ Counted(m) => ExecuteLimit(m) \in Nat
PROOF
  <1>1. conf \in Conf  BY ProviderAssumption
  <1>2. conf.execute \in [Targets -> Param]  BY <1>1 DEF Conf
  <1>3. conf.execute[m] \in Param /\ conf.execute[Service] \in Param
    BY <1>2 DEF Targets
  <1>4. ExecuteLimit(m) \in Int \cup {Invalid}
    BY <1>3, ProviderAssumption DEF ExecuteLimit, LimitConfig, Param
  <1> QED BY <1>4, ProviderAssumption DEF ExecuteTarget, Targets, Counted

\* Methods that share a target share its limit.
LEMMA SameLimit ==
  ASSUME NEW m \in Methods, NEW n \in Methods, ExecuteTarget(m) = ExecuteTarget(n)
  PROVE  ExecuteLimit(m) = ExecuteLimit(n)
PROOF
  <1>1. m # Service /\ n # Service  BY ProviderAssumption
  <1> QED BY <1>1 DEF ExecuteTarget, ExecuteLimit, LimitConfig

-----------------------------------------------------------------------------
(* Steps by what they do to the sets.                                      *)

\* A step that counts nothing and moves no request into or out of the sets.
LEMMA NothingMoves ==
  ASSUME ExecuteInv, UNCHANGED <<conf, executeState>>, at' \in [Requests -> States],
         \A q \in Requests : Counted(MethodOf[q]) =>
            \/ at'[q] = at[q]
            \/ at[q] \in FreeStates /\ at'[q] \in FreeStates
            \/ at[q] \in RunStates /\ at'[q] \in RunStates
  PROVE  ExecuteInv'
PROOF
  <1> USE DEF ExecuteInv
  <1>1. ExecuteTypeOK'  BY DEF ExecuteTypeOK
  <1>2. \A m : /\ Counted(m)' = Counted(m) /\ ExecuteTarget(m)' = ExecuteTarget(m)
               /\ ExecuteLimit(m)' = ExecuteLimit(m)
    BY DEF Counted, ExecuteTarget, ExecuteLimit, LimitConfig
  <1>3. \A q \in Requests : Counted(MethodOf[q]) =>
           /\ at[q] \in HoldStates <=> at'[q] \in HoldStates
           /\ at[q] \in RunStates <=> at'[q] \in RunStates
    BY DEF HoldStates, RunStates, FreeStates
  <1>4. \A t : Holders(t)' = Holders(t) /\ Executing(t)' = Executing(t)
    BY <1>2, <1>3 DEF Holders, Executing, HoldStates, RunStates
  <1>5. ExecuteExact'  BY <1>4 DEF ExecuteExact
  <1>6. ExecuteBound'  BY <1>2, <1>4 DEF ExecuteBound
  <1> QED BY <1>1, <1>5, <1>6

\* A counted request leaves the implementation, and keeps its unit.
LEMMA Leaves ==
  ASSUME ExecuteInv, UNCHANGED <<conf, executeState>>, NEW r \in Requests,
         at[r] \in RunStates, at' = [at EXCEPT ![r] = "decrease"]
  PROVE  ExecuteInv'
PROOF
  <1> USE DEF ExecuteInv
  <1>1. ExecuteTypeOK'  BY DEF ExecuteTypeOK, States
  <1>2. \A m : /\ Counted(m)' = Counted(m) /\ ExecuteTarget(m)' = ExecuteTarget(m)
               /\ ExecuteLimit(m)' = ExecuteLimit(m)
    BY DEF Counted, ExecuteTarget, ExecuteLimit, LimitConfig
  <1>3. \A t : Holders(t)' = Holders(t) /\ Executing(t)' \subseteq Executing(t)
    BY <1>2 DEF Holders, Executing, RunStates, ExecuteTypeOK
  <1>4. ExecuteExact'  BY <1>3 DEF ExecuteExact
  <1>5. ExecuteBound'
    <2> SUFFICES ASSUME NEW m \in Methods, Counted(m)
                 PROVE  Cardinality(Executing(ExecuteTarget(m))') <= ExecuteLimit(m)
      BY <1>2 DEF ExecuteBound
    <2> DEFINE E == Executing(ExecuteTarget(m))
    <2>1. Cardinality(E) <= ExecuteLimit(m)  BY DEF ExecuteBound
    <2>2. ExecuteLimit(m) \in Nat  BY CountedType DEF ExecuteTypeOK
    <2>3. E' \subseteq E  BY <1>2, <1>3
    <2>4. IsFiniteSet(E) /\ Cardinality(E) \in Nat  BY HoldersFinite
    <2>5. Cardinality(E') <= Cardinality(E) /\ Cardinality(E') \in Nat
      BY <2>3, <2>4, FS_Subset, FS_CardinalityType
    <2>6. E' = Executing(ExecuteTarget(m))'  BY <1>2
    <2> QED BY <2>1, <2>2, <2>4, <2>5, <1>2
  <1> QED BY <1>1, <1>4, <1>5

\* increase: the request joins the holders, and runs only below the limit.
LEMMA IncreaseInv ==
  ASSUME ExecuteInv, NEW r \in Requests, Increase(r)
  PROVE  ExecuteInv'
PROOF
  <1> USE DEF ExecuteInv
  <1>0. PICK t \in Targets : t = ExecuteTarget(MethodOf[r])
    BY ProviderAssumption, CountedType DEF ExecuteTypeOK
  <1>1. /\ at[r] = "execute" /\ Counted(MethodOf[r])
        /\ executeState' = [executeState EXCEPT ![t] = @ + 1]
        /\ conf' = conf
    BY <1>0 DEF Increase
  <1>2. PICK p \in {"pshutdown", "decrease"} :
          /\ at' = [at EXCEPT ![r] = p]
          /\ p = "pshutdown" => ~(executeState[t] + 1 > ExecuteLimit(MethodOf[r]))
    BY <1>0 DEF Increase, Go, Finish
  <1>3. MethodOf[r] \in Methods  BY ProviderAssumption
  <1>4. ExecuteLimit(MethodOf[r]) \in Nat
    BY <1>1, <1>3, CountedType DEF ExecuteTypeOK
  <1>5. ExecuteTypeOK'  BY <1>1, <1>2, <1>4 DEF ExecuteTypeOK, States
  <1>6. \A m : /\ Counted(m)' = Counted(m) /\ ExecuteTarget(m)' = ExecuteTarget(m)
               /\ ExecuteLimit(m)' = ExecuteLimit(m)
    BY <1>1 DEF Counted, ExecuteTarget, ExecuteLimit, LimitConfig
  <1>7. \A u : u # t => Holders(u)' = Holders(u) /\ Executing(u)' = Executing(u)
    BY <1>0, <1>1, <1>2, <1>6 DEF Holders, Executing, ExecuteTypeOK
  <1>8. Holders(t)' = Holders(t) \cup {r} /\ r \notin Holders(t)
    BY <1>0, <1>1, <1>2, <1>6 DEF Holders, ExecuteTypeOK
  <1>9. Cardinality(Holders(t)') = Cardinality(Holders(t)) + 1
    BY <1>8, HoldersFinite, FS_AddElement
  <1>10. ExecuteExact'
    <2> SUFFICES ASSUME NEW u \in Targets
                 PROVE  executeState'[u] = Cardinality(Holders(u)')
      BY DEF ExecuteExact
    <2>1. executeState[u] = Cardinality(Holders(u))  BY DEF ExecuteExact
    <2>2. CASE u = t  BY <1>1, <1>9, <2>1, <2>2 DEF ExecuteTypeOK
    <2>3. CASE u # t  BY <1>1, <1>7, <2>1, <2>3 DEF ExecuteTypeOK
    <2> QED BY <2>2, <2>3
  <1>11. \A m \in Methods : (Counted(m) /\ ExecuteTarget(m) = t) =>
           Cardinality(Executing(t)') <= ExecuteLimit(m)
    <2> SUFFICES ASSUME NEW m \in Methods, Counted(m), ExecuteTarget(m) = t
                 PROVE  Cardinality(Executing(t)') <= ExecuteLimit(m)
      OBVIOUS
    <2>1. ExecuteLimit(m) = ExecuteLimit(MethodOf[r])  BY <1>0, <1>3, SameLimit
    <2>2. CASE p = "pshutdown"
      <3>1. Executing(t)' \subseteq Holders(t)'  BY DEF Executing
      <3>2. IsFiniteSet(Holders(t)')  BY <1>8, HoldersFinite, FS_AddElement
      <3>3. Cardinality(Executing(t)') <= Cardinality(Holders(t)')
        BY <3>1, <3>2, FS_Subset
      <3>4. Cardinality(Executing(t)') \in Nat
        BY <3>1, <3>2, FS_Subset, FS_CardinalityType
      <3>5. Cardinality(Holders(t)') = executeState[t] + 1
        BY <1>4, <1>9 DEF ExecuteExact
      <3>6. executeState[t] \in Nat  BY <1>4 DEF ExecuteTypeOK
      <3> QED BY <1>2, <1>4, <2>1, <2>2, <3>3, <3>4, <3>5, <3>6
    <2>3. CASE p = "decrease"
      <3>1. Executing(t)' = Executing(t)
        BY <1>0, <1>1, <1>2, <1>6, <2>3 DEF Holders, Executing, ExecuteTypeOK
      <3> QED BY <3>1 DEF ExecuteBound
    <2> QED BY <2>2, <2>3
  <1>12. ExecuteBound'  BY <1>6, <1>7, <1>11 DEF ExecuteBound
  <1> QED BY <1>5, <1>10, <1>12

\* decrease: the request leaves the holders.
LEMMA DecreaseInv ==
  ASSUME ExecuteInv, NEW r \in Requests, Decrease(r)
  PROVE  ExecuteInv'
PROOF
  <1> USE DEF ExecuteInv
  <1>0. PICK t \in Targets : t = ExecuteTarget(MethodOf[r])
    BY ProviderAssumption, CountedType DEF ExecuteTypeOK
  <1>1. /\ at[r] = "decrease" /\ at' = [at EXCEPT ![r] = "reply"] /\ conf' = conf
        /\ executeState' = IF Counted(MethodOf[r])
                             THEN [executeState EXCEPT ![t] = @ - 1] ELSE executeState
    BY <1>0 DEF Decrease, Go
  <1>2. at' \in [Requests -> States] /\ at'[r] = "reply"
    BY <1>1 DEF ExecuteTypeOK, States
  <1>3. CASE ~Counted(MethodOf[r])
    <2>1. \A q \in Requests : Counted(MethodOf[q]) => at'[q] = at[q]
      BY <1>1, <1>3 DEF ExecuteTypeOK
    <2> QED BY <1>1, <1>2, <1>3, <2>1, NothingMoves
  <1>4. CASE Counted(MethodOf[r])
    <2>1. executeState' = [executeState EXCEPT ![t] = @ - 1]  BY <1>1, <1>4
    <2>3. \A m : /\ Counted(m)' = Counted(m) /\ ExecuteTarget(m)' = ExecuteTarget(m)
                 /\ ExecuteLimit(m)' = ExecuteLimit(m)
      BY <1>1 DEF Counted, ExecuteTarget, ExecuteLimit, LimitConfig
    <2>4. \A u : Executing(u)' = Executing(u) /\ (u # t => Holders(u)' = Holders(u))
      BY <1>0, <1>1, <2>3 DEF Holders, Executing, ExecuteTypeOK
    <2>5. Holders(t)' = Holders(t) \ {r} /\ r \in Holders(t)
      BY <1>0, <1>1, <1>4, <2>3 DEF Holders, ExecuteTypeOK
    <2>6. Cardinality(Holders(t)') = Cardinality(Holders(t)) - 1
      BY <2>5, HoldersFinite, FS_RemoveElement
    <2>7. Cardinality(Holders(t)') \in Nat
      BY <2>5, HoldersFinite, FS_RemoveElement, FS_CardinalityType
    <2>8. executeState[t] = Cardinality(Holders(t))  BY DEF ExecuteExact
    <2>9. executeState' \in [Targets -> Nat]
      BY <2>1, <2>6, <2>7, <2>8 DEF ExecuteTypeOK
    <2>10. ExecuteTypeOK'  BY <1>1, <1>2, <2>9 DEF ExecuteTypeOK
    <2>11. ExecuteExact'
      <3> SUFFICES ASSUME NEW u \in Targets
                   PROVE  executeState'[u] = Cardinality(Holders(u)')
        BY DEF ExecuteExact
      <3>1. executeState[u] = Cardinality(Holders(u))  BY DEF ExecuteExact
      <3>2. CASE u = t  BY <2>1, <2>6, <3>1, <3>2 DEF ExecuteTypeOK
      <3>3. CASE u # t  BY <2>1, <2>4, <3>1, <3>3 DEF ExecuteTypeOK
      <3> QED BY <3>2, <3>3
    <2>12. ExecuteBound'  BY <2>3, <2>4 DEF ExecuteBound
    <2> QED BY <2>10, <2>11, <2>12
  <1> QED BY <1>3, <1>4

\* A request moves outside of the counted part, or within the chain.
LEMMA MovesInv ==
  ASSUME ExecuteInv, UNCHANGED <<conf, executeState>>, NEW r \in Requests, NEW p,
         at' = [at EXCEPT ![r] = p],
         \/ at[r] \in FreeStates /\ p \in FreeStates
         \/ at[r] \in RunStates /\ p \in RunStates
  PROVE  ExecuteInv'
PROOF
  <1>1. p \in States  BY DEF FreeStates, RunStates, States
  <1>2. at' \in [Requests -> States]  BY <1>1 DEF ExecuteInv, ExecuteTypeOK
  <1>3. \A q \in Requests :
           \/ at'[q] = at[q]
           \/ at[q] \in FreeStates /\ at'[q] \in FreeStates
           \/ at[q] \in RunStates /\ at'[q] \in RunStates
    BY DEF ExecuteInv, ExecuteTypeOK
  <1> QED BY <1>2, <1>3, NothingMoves

\* The steps of the server and of the tps filter.
LEMMA TpsExecuteInv ==
  ASSUME ExecuteInv, NEW r \in Requests,
         \/ OnMessage(r) \/ DoHandleRequest(r) \/ Reply(r)
         \/ TpsPass(r) \/ TpsPanic(r) \/ TpsFound(r) \/ TpsCreate(r) \/ TpsStore(r)
         \/ AllowThreadSafe(r) \/ AllowSliding(r)
         \/ FixedRead(r) \/ FixedTimestamp(r) \/ FixedCount(r) \/ FixedAdd(r)
  PROVE  ExecuteInv'
PROOF
  <1>1. UNCHANGED <<conf, executeState>>
    BY DEF OnMessage, DoHandleRequest, Reply, TpsPass, TpsPanic, TpsFound, TpsCreate,
           TpsStore, AllowThreadSafe, AllowSliding, FixedRead, FixedTimestamp,
           FixedCount, FixedAdd
  <1>2. \E p \in FreeStates : at' = [at EXCEPT ![r] = p]
    <2> USE DEF FreeStates, States, HoldStates
    <2>1. CASE OnMessage(r) \/ DoHandleRequest(r) \/ Reply(r)
      BY <2>1 DEF OnMessage, DoHandleRequest, Reply, Go, Finish
    <2>2. CASE TpsPass(r) \/ TpsPanic(r) \/ TpsFound(r) \/ TpsCreate(r) \/ TpsStore(r)
      BY <2>2 DEF TpsPass, TpsPanic, TpsFound, TpsCreate, TpsStore, Go, Finish
    <2>3. CASE AllowThreadSafe(r) \/ AllowSliding(r)
      BY <2>3 DEF AllowThreadSafe, AllowSliding, Answer, Go, Finish
    <2>4. CASE FixedRead(r) \/ FixedTimestamp(r) \/ FixedCount(r) \/ FixedAdd(r)
      BY <2>4 DEF FixedRead, FixedTimestamp, FixedCount, FixedAdd, Answer, Go, Finish
    <2> QED BY <2>1, <2>2, <2>3, <2>4
  <1>3. at[r] \in FreeStates
    BY DEF OnMessage, DoHandleRequest, Reply, TpsPass, TpsPanic, TpsFound, TpsCreate,
           TpsStore, AllowThreadSafe, AllowSliding, FixedRead, FixedTimestamp,
           FixedCount, FixedAdd, FreeStates, States, HoldStates
  <1> QED BY <1>1, <1>2, <1>3, MovesInv

\* The step of a request that the execute filter does not count.
LEMMA UncountedInv ==
  ASSUME ExecuteInv, NEW r \in Requests, ExecuteUncounted(r)
  PROVE  ExecuteInv'
PROOF
  <1>1. UNCHANGED <<conf, executeState>> /\ at[r] = "execute"  BY DEF ExecuteUncounted
  <1>2. CASE at' = [at EXCEPT ![r] = "reply"]
    BY <1>1, <1>2, MovesInv DEF FreeStates, States, HoldStates
  <1>3. CASE at' = [at EXCEPT ![r] = "pshutdown"] /\ ~Counted(MethodOf[r])
    <2>1. at' \in [Requests -> States]
      BY <1>3 DEF ExecuteInv, ExecuteTypeOK, States
    <2>2. \A q \in Requests : Counted(MethodOf[q]) => at'[q] = at[q]
      BY <1>3 DEF ExecuteInv, ExecuteTypeOK
    <2> QED BY <1>1, <2>1, <2>2, NothingMoves
  <1>4. \/ at' = [at EXCEPT ![r] = "reply"]
        \/ at' = [at EXCEPT ![r] = "pshutdown"] /\ ~Counted(MethodOf[r])
    <2>1. MethodOf[r] \in Methods /\ conf \in Confs
      BY ProviderAssumption DEF ExecuteInv, ExecuteTypeOK
    <2>2. CASE ExecuteLimit(MethodOf[r]) = Invalid
      BY <2>2 DEF ExecuteUncounted, Go, Finish
    <2>3. CASE ExecuteLimit(MethodOf[r]) < 0 /\ at' = [at EXCEPT ![r] = "pshutdown"]
      <3>1. ~Counted(MethodOf[r])  BY <2>1, <2>3, CountedType DEF Counted
      <3> QED BY <2>3, <3>1
    <2> QED BY <2>2, <2>3 DEF ExecuteUncounted, Go, Finish
  <1> QED BY <1>2, <1>3, <1>4

\* The steps of pshutdown and of the implementation.
LEMMA ChainInv ==
  ASSUME ExecuteInv, NEW r \in Requests,
         ShutdownInvoke(r) \/ ProxyInvoke(r) \/ OnResponse(r)
  PROVE  ExecuteInv'
PROOF
  <1>1. UNCHANGED <<conf, executeState>> /\ at[r] \in RunStates
    BY DEF ShutdownInvoke, ProxyInvoke, OnResponse, RunStates
  <1>2. \E p \in RunStates \cup {"decrease"} : at' = [at EXCEPT ![r] = p]
    BY DEF ShutdownInvoke, ProxyInvoke, OnResponse, RunStates, Go, Finish
  <1> QED BY <1>1, <1>2, MovesInv, Leaves

\* Init, and every step, as the theorem needs them.
LEMMA ExecuteInit == Init => ExecuteInv
PROOF
  <1> SUFFICES ASSUME Init PROVE ExecuteInv  OBVIOUS
  <1>1. ExecuteTypeOK  BY DEF Init, ExecuteTypeOK, States
  <1>2. \A t : Holders(t) = {} /\ Executing(t) = {}  BY DEF Init, Holders, Executing
  <1>3. Cardinality({}) = 0  BY FS_EmptySet
  <1>4. ExecuteExact  BY <1>2, <1>3 DEF ExecuteExact, Init
  <1>5. ExecuteBound
    BY <1>1, <1>2, <1>3, CountedType DEF ExecuteBound, ExecuteTypeOK
  <1> QED BY <1>1, <1>4, <1>5 DEF ExecuteInv

\* Every step keeps the counters exact.
LEMMA ExecuteStep == ExecuteInv /\ [Next]_vars => ExecuteInv'
PROOF
  <1> SUFFICES ASSUME ExecuteInv, [Next]_vars PROVE ExecuteInv'  OBVIOUS
  <1>1. CASE \E r \in Requests : OnMessage(r) \/ Serve(r) \/ ProxyInvoke(r)
    BY <1>1, TpsExecuteInv, UncountedInv, ChainInv, IncreaseInv, DecreaseInv DEF Serve
  <1>2. CASE UNCHANGED <<conf, at, executeState>>
    BY <1>2, NothingMoves DEF ExecuteInv, ExecuteTypeOK
  <1>3. CASE \/ GracefulShutdownInit \/ Signal \/ BeforeShutdown \/ ExitTimeout \/ Tick
             \/ UNCHANGED vars
    BY <1>2, <1>3
    DEF GracefulShutdownInit, Signal, BeforeShutdown, RegistriesDestroyed, AcceptEnds,
        WaitEnds, Unexport, UnRegister, Stop, Exit, ExitTimeout, Tick, vars, requests
  <1> QED BY <1>1, <1>3 DEF Next

\* The execute filter's counters are exact and its limit holds, whatever the
\* interleaving of requests and shutdown.
THEOREM ExecuteLimitHolds == Spec => [](ExecuteExact /\ ExecuteBound)
PROOF
  <1>1. ExecuteInv => ExecuteExact /\ ExecuteBound  BY DEF ExecuteInv
  <1> QED BY ExecuteInit, ExecuteStep, <1>1, PTL DEF Spec

-----------------------------------------------------------------------------
(* The thread-safe fixed window.                                           *)

\* What tps let through since the window began.
Since(t) == AllowedIn(t, tpsState[t].timestamp, now)

Limit(t) == Rate(t) \in Nat /\ Interval(t) \in Nat

WindowTypeOK ==
  /\ now \in Int
  /\ at \in [Requests -> States \ {"timestamp", "count", "add"}]
  /\ current \in [Requests -> Int \cup {None}]
  /\ allowedAt \in [Requests -> Int \cup {None}]
  /\ tpsState \in [Targets -> Strategy \cup {None}]

\* A goroutine between Create and LoadOrStore, or before IsAllowable.
Underway(r) ==
  /\ at[r] = "store" => current[r] \in Int /\ current[r] <= now /\ Limit(Target(r))
  /\ at[r] = "allow" => tpsState[Target(r)] # None

\* Whoever was let through came before the end of the window.
Passed(r) ==
  allowedAt[r] # None =>
    /\ tpsState[Target(r)] # None /\ allowedAt[r] <= now
    /\ allowedAt[r] <= tpsState[Target(r)].timestamp + Interval(Target(r))

\* The count of a window covers whom it let through.
Window(t) ==
  tpsState[t] # None =>
    /\ Limit(t) /\ tpsState[t].timestamp <= now
    /\ Cardinality(Since(t)) <= tpsState[t].count
    /\ Cardinality(Since(t)) <= Rate(t)

WindowInv ==
  /\ conf \in Confs
  /\ conf.strategy = "threadSafeFixedWindow" =>
       /\ WindowTypeOK
       /\ \A r \in Requests : Underway(r) /\ Passed(r)
       /\ \A t \in Targets : Window(t)

\* A method's rate and interval are those of its target.
LEMMA TargetType ==
  ASSUME NEW r \in Requests
  PROVE  /\ Target(r) \in Targets
         /\ Rate(Target(r)) = Rate(MethodOf[r])
         /\ Interval(Target(r)) = Interval(MethodOf[r])
PROOF
  <1>1. MethodOf[r] \in Methods /\ MethodOf[r] # Service  BY ProviderAssumption
  <1> QED BY <1>1 DEF Target, TpsTarget, Targets, Rate, Interval, LimitConfig

\* A rate and an interval that Create gets are numbers.
LEMMA LimitType ==
  ASSUME conf \in Confs, NEW r \in Requests,
         Limited(MethodOf[r]), Positive(Interval(MethodOf[r]))
  PROVE  Limit(Target(r))
PROOF
  <1> DEFINE m == MethodOf[r]
  <1>1. m \in Methods  BY ProviderAssumption
  <1>2. conf \in Conf  BY ProviderAssumption
  <1>3. conf.rate \in [Targets -> Param] /\ conf.interval \in [Targets -> Param]
    BY <1>2 DEF Conf
  <1>4. /\ conf.rate[m] \in Param /\ conf.rate[Service] \in Param
        /\ conf.interval[m] \in Param /\ conf.interval[Service] \in Param
    BY <1>1, <1>3 DEF Targets
  <1>5. Rate(m) \in Int \cup {Invalid}
    BY <1>4, ProviderAssumption DEF Rate, LimitConfig, Param
  <1>6. Interval(m) \in Int \cup {Invalid}
    BY <1>4, ProviderAssumption DEF Interval, LimitConfig, Param
  <1>7. Rate(m) \in Nat  BY <1>5 DEF Limited
  <1>8. Interval(m) \in Nat  BY <1>6 DEF Positive
  <1> QED BY <1>7, <1>8, TargetType DEF Limit

\* The requests let through in a window are finitely many.
LEMMA AllowedFinite ==
  ASSUME NEW t, NEW b, NEW e
  PROVE  /\ IsFiniteSet(AllowedIn(t, b, e)) /\ Cardinality(AllowedIn(t, b, e)) \in Nat
PROOF
  <1>1. AllowedIn(t, b, e) \subseteq Requests  BY DEF AllowedIn
  <1> QED BY <1>1, ProviderAssumption, FS_Subset, FS_CardinalityType

\* The configuration never changes, and with it no target, rate or interval.
LEMMA SameConf ==
  ASSUME UNCHANGED conf
  PROVE  /\ \A r : Target(r)' = Target(r)
         /\ \A t : /\ Rate(t)' = Rate(t) /\ Interval(t)' = Interval(t)
                   /\ Limit(t)' = Limit(t)
  BY DEF Target, TpsTarget, Rate, Interval, LimitConfig, Limit

\* A step that leaves the strategies alone; the clock may run.
LEMMA QuietStep ==
  ASSUME WindowInv, UNCHANGED <<conf, allowedAt, tpsState>>,
         now' = now \/ now' = now + 1,
         conf.strategy = "threadSafeFixedWindow" =>
           /\ at' \in [Requests -> States \ {"timestamp", "count", "add"}]
           /\ current' \in [Requests -> Int \cup {None}]
           /\ \A r \in Requests : Underway(r)'
  PROVE  WindowInv'
PROOF
  <1> SUFFICES ASSUME conf.strategy = "threadSafeFixedWindow"
               PROVE  /\ WindowTypeOK'
                      /\ \A r \in Requests : Passed(r)'
                      /\ \A t \in Targets : Window(t)'
    BY DEF WindowInv
  <1> USE DEF WindowInv
  <1>1. now' \in Int /\ now <= now'  BY DEF WindowTypeOK
  <1>2. WindowTypeOK'  BY <1>1 DEF WindowTypeOK
  <1>3. ASSUME NEW r \in Requests PROVE Passed(r)'
    <2>1. Passed(r) /\ (allowedAt[r] = None \/ allowedAt[r] \in Int)  BY DEF WindowTypeOK
    <2> QED BY <1>1, <2>1, SameConf DEF Passed, WindowTypeOK
  <1>4. ASSUME NEW t \in Targets PROVE Window(t)'
    <2> SUFFICES ASSUME tpsState[t] # None PROVE Window(t)'  BY DEF Window
    <2>1. Window(t) /\ tpsState[t].timestamp \in Int
      BY DEF WindowTypeOK, Strategy
    <2>2. \A r \in Requests : allowedAt[r] # None =>
             allowedAt[r] \in Int /\ allowedAt[r] <= now /\ allowedAt[r] <= now'
      BY <1>1 DEF WindowTypeOK, Passed
    <2>3. Since(t)' = Since(t)  BY <2>2, SameConf DEF Since, AllowedIn
    <2> QED BY <1>1, <2>1, <2>3, SameConf DEF Window, WindowTypeOK
  <1> QED BY <1>2, <1>3, <1>4

\* A request moves on, and has nothing to do with the strategies.
LEMMA QuietMove ==
  ASSUME WindowInv, UNCHANGED <<now, conf, current, allowedAt, tpsState>>,
         NEW r \in Requests, NEW p \in States \ {"timestamp", "count", "add", "store"},
         p = "allow" => tpsState[Target(r)] # None,
         at' = [at EXCEPT ![r] = p]
  PROVE  WindowInv'
PROOF
  <1>1. ASSUME conf.strategy = "threadSafeFixedWindow"
        PROVE  /\ at' \in [Requests -> States \ {"timestamp", "count", "add"}]
               /\ current' \in [Requests -> Int \cup {None}]
               /\ \A q \in Requests : Underway(q)'
    <2>1. WindowTypeOK /\ \A q \in Requests : Underway(q)  BY <1>1 DEF WindowInv
    <2>2. \A q \in Requests : at'[q] = IF q = r THEN p ELSE at[q]
      BY <2>1 DEF WindowTypeOK
    <2>3. \A q \in Requests : Underway(q)'
      BY <2>1, <2>2, SameConf DEF Underway
    <2> QED BY <2>1, <2>3 DEF WindowTypeOK
  <1> QED BY <1>1, QuietStep

\* A step of the shutdown or of the clock.
LEMMA QuietElse ==
  ASSUME WindowInv, UNCHANGED <<conf, at, current, allowedAt, tpsState>>,
         now' = now \/ now' = now + 1
  PROVE  WindowInv'
PROOF
  <1>1. ASSUME conf.strategy = "threadSafeFixedWindow"
        PROVE  /\ at' \in [Requests -> States \ {"timestamp", "count", "add"}]
               /\ current' \in [Requests -> Int \cup {None}]
               /\ \A q \in Requests : Underway(q)'
    <2>1. WindowTypeOK /\ \A q \in Requests : Underway(q)  BY <1>1 DEF WindowInv
    <2>2. \A q \in Requests : Underway(q)'
      BY <2>1, SameConf DEF Underway, WindowTypeOK
    <2> QED BY <2>1, <2>2 DEF WindowTypeOK
  <1> QED BY <1>1, QuietStep

\* Create: the time of the new strategy is the current one.
LEMMA CreateWindow ==
  ASSUME WindowInv, NEW r \in Requests, TpsCreate(r)
  PROVE  WindowInv'
PROOF
  <1>1. /\ at' = [at EXCEPT ![r] = "store"] /\ current' = [current EXCEPT ![r] = now]
        /\ Limited(MethodOf[r]) /\ Positive(Interval(MethodOf[r]))
        /\ UNCHANGED <<now, conf, allowedAt, tpsState>>
    BY DEF TpsCreate, Go
  <1>2. Limit(Target(r))  BY <1>1, LimitType DEF WindowInv
  <1>3. ASSUME conf.strategy = "threadSafeFixedWindow"
        PROVE  /\ at' \in [Requests -> States \ {"timestamp", "count", "add"}]
               /\ current' \in [Requests -> Int \cup {None}]
               /\ \A q \in Requests : Underway(q)'
    <2>1. WindowTypeOK /\ \A q \in Requests : Underway(q)  BY <1>3 DEF WindowInv
    <2>2. \A q \in Requests : /\ at'[q] = IF q = r THEN "store" ELSE at[q]
                              /\ current'[q] = IF q = r THEN now ELSE current[q]
      BY <1>1, <2>1 DEF WindowTypeOK
    <2>3. Underway(r)'
      BY <1>1, <1>2, <2>1, <2>2, SameConf DEF Underway, WindowTypeOK
    <2>4. \A q \in Requests \ {r} : Underway(q)'
      BY <1>1, <2>1, <2>2, SameConf DEF Underway
    <2>5. /\ at' \in [Requests -> States \ {"timestamp", "count", "add"}]
          /\ current' \in [Requests -> Int \cup {None}]
      BY <1>1, <2>1 DEF WindowTypeOK, States
    <2> QED BY <2>3, <2>4, <2>5
  <1> QED BY <1>1, <1>3, QuietStep

\* LoadOrStore: the first strategy of a target has let nobody through.
LEMMA StoreWindow ==
  ASSUME WindowInv, NEW r \in Requests, TpsStore(r),
         conf.strategy = "threadSafeFixedWindow"
  PROVE  WindowInv'
PROOF
  <1>1. PICK T \in Targets : T = Target(r)  BY TargetType
  <1>2. /\ at[r] = "store" /\ at' = [at EXCEPT ![r] = "allow"]
        /\ current' = [current EXCEPT ![r] = None]
        /\ tpsState' = IF tpsState[T] # None THEN tpsState
                       ELSE [tpsState EXCEPT ![T] = NewStrategy(current[r])]
        /\ UNCHANGED <<now, conf, allowedAt>>
    BY <1>1 DEF TpsStore, Go
  <1>3. /\ WindowTypeOK /\ \A q \in Requests : Underway(q) /\ Passed(q)
        /\ \A t \in Targets : Window(t)
    BY DEF WindowInv
  <1>4. current[r] \in Int /\ current[r] <= now /\ Limit(T)
    BY <1>1, <1>2, <1>3 DEF Underway
  <1>5. NewStrategy(current[r]) \in Strategy /\ NewStrategy(current[r]) # None
    <2>1. <<>> \in Seq(Int)  OBVIOUS
    <2>2. NewStrategy(current[r]) \in Strategy
      BY <1>4, <2>1 DEF NewStrategy, Strategy
    <2> QED BY <2>2, ProviderAssumption
  <1>6. tpsState' \in [Targets -> Strategy \cup {None}] /\ tpsState'[T] # None
    BY <1>2, <1>3, <1>5 DEF WindowTypeOK
  <1>7. \A t \in Targets : tpsState[t] # None => tpsState'[t] = tpsState[t]
    BY <1>2, <1>3 DEF WindowTypeOK
  <1>8. WindowTypeOK'  BY <1>2, <1>3, <1>6 DEF WindowTypeOK, States
  <1>9. ASSUME NEW q \in Requests PROVE Underway(q)' /\ Passed(q)'
    <2>1. Underway(q) /\ Passed(q) /\ Target(q) \in Targets  BY <1>3, TargetType
    <2>2. Target(q)' = Target(q) /\ Interval(Target(q))' = Interval(Target(q))
      BY <1>2, SameConf
    <2>3. Limit(Target(q))' = Limit(Target(q))  BY <1>2, SameConf
    <2>4. Passed(q)'  BY <1>2, <1>7, <2>1, <2>2 DEF Passed
    <2>5. CASE q = r
      <3>1. at'[q] = "allow"  BY <1>2, <1>3, <2>5 DEF WindowTypeOK
      <3> QED BY <1>1, <1>6, <2>2, <2>4, <2>5, <3>1 DEF Underway
    <2>6. CASE q # r
      <3>1. at'[q] = at[q] /\ current'[q] = current[q]
        BY <1>2, <1>3, <2>6 DEF WindowTypeOK
      <3> QED BY <1>2, <1>7, <2>1, <2>2, <2>3, <2>4, <3>1 DEF Underway
    <2> QED BY <2>5, <2>6
  <1>10. ASSUME NEW t \in Targets PROVE Window(t)'
    <2>1. Window(t)  BY <1>3
    <2>2. CASE tpsState[t] # None
      <3>1. Since(t)' = Since(t)
        BY <1>2, <1>7, <2>2, SameConf DEF Since, AllowedIn
      <3> QED BY <1>2, <1>7, <2>1, <2>2, <3>1, SameConf DEF Window
    <2>3. CASE tpsState[t] = None /\ t # T
      BY <1>2, <1>3, <2>3 DEF Window, WindowTypeOK
    <2>4. CASE tpsState[t] = None /\ t = T
      <3>1. tpsState'[T] = NewStrategy(current[r])
        BY <1>2, <1>3, <2>4 DEF WindowTypeOK
      <3>2. tpsState'[T].timestamp = current[r] /\ tpsState'[T].count = 0
        BY <3>1 DEF NewStrategy
      <3>3. \A q \in Requests : Target(q) = T => allowedAt[q] = None
        BY <1>3, <2>4 DEF Passed
      <3>4. Since(T)' = {}  BY <1>2, <3>3, SameConf DEF Since, AllowedIn
      <3>5. Cardinality({}) = 0  BY FS_EmptySet
      <3>6. Rate(T) \in Nat /\ Rate(T)' = Rate(T) /\ Limit(T)'
        BY <1>2, <1>4, SameConf DEF Limit
      <3>7. Window(T)'  BY <1>2, <1>4, <3>2, <3>4, <3>5, <3>6 DEF Window
      <3> QED BY <2>4, <3>7
    <2> QED BY <2>2, <2>3, <2>4
  <1> QED BY <1>2, <1>8, <1>9, <1>10 DEF WindowInv

\* IsAllowable under the mutex: a window that has expired begins anew and
\* holds at most this request; another one counts it.
LEMMA AllowWindow ==
  ASSUME WindowInv, NEW r \in Requests, AllowThreadSafe(r)
  PROVE  WindowInv'
PROOF
  <1>1. PICK T \in Targets : T = Target(r)  BY TargetType
  <1>2. PICK s : s = tpsState[T]  OBVIOUS
  <1>3. PICK w : w = IF Expired(s, MethodOf[r], now)
                       THEN [s EXCEPT !.timestamp = now, !.count = 1]
                       ELSE [s EXCEPT !.count = @ + 1]
    OBVIOUS
  <1>4. /\ at[r] = "allow" /\ conf.strategy = "threadSafeFixedWindow"
        /\ tpsState' = [tpsState EXCEPT ![T] = w]
        /\ UNCHANGED <<now, conf, current>>
    BY <1>1, <1>2, <1>3 DEF AllowThreadSafe, SetState
  <1>5. PICK ok \in BOOLEAN :
          /\ ok <=> w.count <= Rate(MethodOf[r])
          /\ at' = [at EXCEPT ![r] = IF ok THEN "execute" ELSE "reply"]
          /\ allowedAt' = IF ok THEN [allowedAt EXCEPT ![r] = now] ELSE allowedAt
    <2>1. Answer(r, w.count <= Rate(MethodOf[r]), now)
      BY <1>1, <1>2, <1>3 DEF AllowThreadSafe
    <2> QED BY <2>1 DEF Answer, Go, Finish
  <1>6. /\ WindowTypeOK /\ \A q \in Requests : Underway(q) /\ Passed(q)
        /\ \A t \in Targets : Window(t)
    BY <1>4 DEF WindowInv
  <1>7. s \in Strategy /\ s # None
    BY <1>1, <1>2, <1>4, <1>6 DEF Underway, WindowTypeOK
  <1>8. /\ Limit(T) /\ s.timestamp <= now /\ Cardinality(Since(T)) <= s.count
        /\ Cardinality(Since(T)) <= Rate(T)
    BY <1>2, <1>6, <1>7 DEF Window
  <1>9. /\ now \in Int /\ s.timestamp \in Int /\ s.count \in Nat
        /\ Rate(T) \in Nat /\ Interval(T) \in Nat
        /\ Rate(MethodOf[r]) = Rate(T) /\ Interval(MethodOf[r]) = Interval(T)
    BY <1>1, <1>6, <1>7, <1>8, TargetType DEF WindowTypeOK, Strategy, Limit
  <1>10. /\ w \in Strategy /\ w # None
    <2>1. \A n \in Nat : [s EXCEPT !.count = n] \in Strategy  BY <1>7 DEF Strategy
    <2>2. [s EXCEPT !.timestamp = now, !.count = 1] \in Strategy
      BY <1>7, <1>9 DEF Strategy
    <2>3. s.count + 1 \in Nat  BY <1>9
    <2>4. w \in Strategy  BY <1>3, <2>1, <2>2, <2>3
    <2> QED BY <2>4, ProviderAssumption
  <1>11. /\ s.timestamp + Interval(T) < now => w.timestamp = now /\ w.count = 1
         /\ ~(s.timestamp + Interval(T) < now) =>
              w.timestamp = s.timestamp /\ w.count = s.count + 1
    BY <1>3, <1>7, <1>9 DEF Expired, Strategy
  <1>12. /\ tpsState'[T] = w
         /\ \A t \in Targets : t # T => tpsState'[t] = tpsState[t]
    BY <1>4, <1>6 DEF WindowTypeOK
  <1>13. \A q \in Requests : allowedAt'[q] = IF ok /\ q = r THEN now ELSE allowedAt[q]
    BY <1>5, <1>6 DEF WindowTypeOK
  <1>14. WindowTypeOK'
    <2>1. tpsState' \in [Targets -> Strategy \cup {None}]
      BY <1>4, <1>6, <1>10 DEF WindowTypeOK
    <2>2. allowedAt' \in [Requests -> Int \cup {None}]
      BY <1>5, <1>6, <1>9 DEF WindowTypeOK
    <2>3. at' \in [Requests -> States \ {"timestamp", "count", "add"}]
      BY <1>5, <1>6 DEF WindowTypeOK, States
    <2> QED BY <1>4, <1>6, <2>1, <2>2, <2>3 DEF WindowTypeOK
  <1>15. ASSUME NEW q \in Requests PROVE Underway(q)'
    <2>1. Underway(q) /\ Target(q) \in Targets  BY <1>6, TargetType
    <2>2. Target(q)' = Target(q) /\ Limit(Target(q))' = Limit(Target(q))
      BY <1>4, SameConf
    <2>3. tpsState[Target(q)] # None => tpsState'[Target(q)] # None
      BY <1>10, <1>12, <2>1
    <2>4. q = r \/ at'[q] = at[q]  BY <1>5, <1>6 DEF WindowTypeOK
    <2>5. at'[r] \in {"execute", "reply"}  BY <1>5, <1>6 DEF WindowTypeOK
    <2> QED BY <1>4, <2>1, <2>2, <2>3, <2>4, <2>5 DEF Underway
  <1>16. ASSUME NEW q \in Requests PROVE Passed(q)'
    <2>1. Passed(q) /\ Target(q) \in Targets  BY <1>6, TargetType
    <2>2. Target(q)' = Target(q) /\ Interval(Target(q))' = Interval(Target(q))
      BY <1>4, SameConf
    <2>3. allowedAt[q] = None \/ allowedAt[q] \in Int  BY <1>6 DEF WindowTypeOK
    <2>4. CASE Target(q) # T
      <3>1. q # r  BY <1>1, <2>4
      <3>2. allowedAt'[q] = allowedAt[q] /\ tpsState'[Target(q)] = tpsState[Target(q)]
        BY <1>12, <1>13, <2>1, <2>4, <3>1
      <3> QED BY <1>4, <2>1, <2>2, <3>2 DEF Passed
    <2>5. CASE Target(q) = T /\ allowedAt'[q] = now
      <3>1. now <= w.timestamp + Interval(T)  BY <1>9, <1>11
      <3> QED BY <1>4, <1>9, <1>10, <1>12, <2>2, <2>5, <3>1 DEF Passed
    <2>6. CASE Target(q) = T /\ allowedAt'[q] = allowedAt[q]
      <3>1. allowedAt[q] # None =>
              allowedAt[q] <= now /\ allowedAt[q] <= s.timestamp + Interval(T)
        BY <1>2, <2>1, <2>6 DEF Passed
      <3>2. allowedAt[q] # None => allowedAt[q] <= w.timestamp + Interval(T)
        BY <1>9, <1>11, <2>3, <3>1
      <3> QED BY <1>4, <1>10, <1>12, <2>2, <2>6, <3>1, <3>2 DEF Passed
    <2> QED BY <1>13, <2>4, <2>5, <2>6
  <1>17. Window(T)'
    <2>1. \A q \in Requests : allowedAt[q] # None =>
            /\ allowedAt[q] \in Int
            /\ Target(q) = T => allowedAt[q] <= s.timestamp + Interval(T)
      BY <1>2, <1>6 DEF WindowTypeOK, Passed
    <2>2. Since(T)' = {q \in Requests : /\ Target(q) = T /\ allowedAt'[q] # None
                                        /\ w.timestamp <= allowedAt'[q]
                                        /\ allowedAt'[q] <= now}
      BY <1>4, <1>12, SameConf DEF Since, AllowedIn
    <2>3. Since(T) = {q \in Requests : /\ Target(q) = T /\ allowedAt[q] # None
                                       /\ s.timestamp <= allowedAt[q]
                                       /\ allowedAt[q] <= now}
      BY <1>2 DEF Since, AllowedIn
    <2>4. /\ IsFiniteSet(Since(T)) /\ Cardinality(Since(T)) \in Nat
      BY AllowedFinite DEF Since
    <2>5. /\ Cardinality(Since(T)') <= w.count /\ Cardinality(Since(T)') <= Rate(T)
      <3>1. CASE s.timestamp + Interval(T) < now
        <4>1. \A q \in Requests : (allowedAt[q] # None /\ Target(q) = T) =>
                ~(now <= allowedAt[q])
          BY <1>9, <2>1, <3>1
        <4>2. Since(T)' \subseteq IF ok THEN {r} ELSE {}
          BY <1>11, <1>13, <2>2, <3>1, <4>1
        <4>3. IF ok THEN Cardinality(Since(T)') <= 1 ELSE Cardinality(Since(T)') = 0
          <5>1. IsFiniteSet({r}) /\ Cardinality({r}) = 1 /\ Cardinality({}) = 0
            BY FS_Singleton, FS_EmptySet
          <5>2. CASE ok  BY <4>2, <5>1, <5>2, FS_Subset
          <5>3. CASE ~ok
            <6>1. Since(T)' = {}  BY <4>2, <5>3
            <6> QED BY <5>1, <5>3, <6>1
          <5> QED BY <5>2, <5>3
        <4>4. Cardinality(Since(T)') \in Nat
          <5>1. Since(T)' \subseteq Requests  BY <2>2
          <5> QED BY <5>1, ProviderAssumption, FS_Subset, FS_CardinalityType
        <4> QED BY <1>5, <1>9, <1>11, <3>1, <4>3, <4>4
      <3>2. CASE ~(s.timestamp + Interval(T) < now) /\ ok
        <4>1. Since(T)' \subseteq Since(T) \cup {r}
          BY <1>11, <1>13, <2>2, <2>3, <3>2
        <4>2. /\ IsFiniteSet(Since(T) \cup {r})
              /\ Cardinality(Since(T) \cup {r}) <= Cardinality(Since(T)) + 1
              /\ Cardinality(Since(T) \cup {r}) \in Nat
          <5>1. CASE r \in Since(T)
            <6>1. Since(T) \cup {r} = Since(T)  BY <5>1
            <6>2. /\ IsFiniteSet(Since(T) \cup {r})
                  /\ Cardinality(Since(T) \cup {r}) = Cardinality(Since(T))
              BY <2>4, <6>1, Zenon
            <6> QED BY <2>4, <6>2
          <5>2. CASE r \notin Since(T)
            BY <2>4, <5>2, FS_AddElement
          <5> QED BY <5>1, <5>2
        <4>3. /\ Cardinality(Since(T)') <= Cardinality(Since(T) \cup {r})
              /\ Cardinality(Since(T)') \in Nat
          BY <4>1, <4>2, FS_Subset, FS_CardinalityType
        <4> QED BY <1>5, <1>8, <1>9, <1>11, <2>4, <3>2, <4>2, <4>3
      <3>3. CASE ~(s.timestamp + Interval(T) < now) /\ ~ok
        <4>1. Since(T)' = Since(T)  BY <1>11, <1>13, <2>2, <2>3, <3>3
        <4> QED BY <1>8, <1>9, <1>11, <2>4, <3>3, <4>1
      <3> QED BY <3>1, <3>2, <3>3
    <2>6. w.timestamp <= now  BY <1>8, <1>9, <1>11
    <2>7. Limit(T)' /\ Rate(T)' = Rate(T)  BY <1>4, <1>8, SameConf
    <2> QED BY <1>4, <1>12, <2>5, <2>6, <2>7 DEF Window
  <1>18. ASSUME NEW t \in Targets, t # T PROVE Window(t)'
    <2>1. Window(t) /\ tpsState'[t] = tpsState[t]  BY <1>6, <1>12, <1>18
    <2>2. Since(t)' = Since(t)
      BY <1>1, <1>4, <1>13, <1>18, <2>1, SameConf DEF Since, AllowedIn
    <2> QED BY <1>4, <2>1, <2>2, SameConf DEF Window
  <1> QED BY <1>4, <1>6, <1>14, <1>15, <1>16, <1>17, <1>18 DEF WindowInv

-----------------------------------------------------------------------------
\* The initial state satisfies the invariant of the windows.
LEMMA WindowInit == Init => WindowInv
PROOF
  <1> SUFFICES ASSUME Init PROVE WindowInv  OBVIOUS
  <1>1. conf \in Confs  BY DEF Init
  <1>2. WindowTypeOK  BY DEF Init, WindowTypeOK, States
  <1>3. \A r \in Requests : Underway(r) /\ Passed(r)  BY DEF Init, Underway, Passed
  <1>4. \A t \in Targets : Window(t)  BY DEF Init, Window
  <1> QED BY <1>1, <1>2, <1>3, <1>4 DEF WindowInv

\* The steps of a request outside the limit strategy.
LEMMA OtherMoves ==
  ASSUME NEW r \in Requests,
         \/ OnMessage(r) \/ DoHandleRequest(r) \/ Reply(r) \/ ProxyInvoke(r)
         \/ TpsPass(r) \/ TpsPanic(r) \/ TpsFound(r)
         \/ ExecuteUncounted(r) \/ Increase(r) \/ Decrease(r)
         \/ ShutdownInvoke(r) \/ OnResponse(r)
  PROVE  /\ UNCHANGED <<now, conf, current, allowedAt, tpsState>>
         /\ \E p \in States \ {"timestamp", "count", "add", "store"} :
              /\ at' = [at EXCEPT ![r] = p]
              /\ p = "allow" => tpsState[Target(r)] # None
PROOF
  <1> DEFINE Other == States \ {"timestamp", "count", "add", "store", "allow"}
  <1>1. UNCHANGED <<now, conf, current, allowedAt, tpsState>>
    BY DEF OnMessage, DoHandleRequest, Reply, ProxyInvoke, TpsPass, TpsPanic, TpsFound,
           ExecuteUncounted, Increase, Decrease, ShutdownInvoke, OnResponse, tpsVars
  <1>2. \/ \E p \in Other : at' = [at EXCEPT ![r] = p]
        \/ at' = [at EXCEPT ![r] = "allow"] /\ tpsState[Target(r)] # None
    <2> USE DEF States, Go, Finish
    <2>1. CASE OnMessage(r) \/ DoHandleRequest(r) \/ Reply(r) \/ ProxyInvoke(r)
      BY <2>1 DEF OnMessage, DoHandleRequest, Reply, ProxyInvoke
    <2>2. CASE TpsPass(r) \/ TpsPanic(r) \/ TpsFound(r)
      BY <2>2 DEF TpsPass, TpsPanic, TpsFound
    <2>3. CASE ExecuteUncounted(r) \/ Increase(r) \/ Decrease(r)
      BY <2>3 DEF ExecuteUncounted, Increase, Decrease
    <2>4. CASE ShutdownInvoke(r) \/ OnResponse(r)
      BY <2>4 DEF ShutdownInvoke, OnResponse
    <2> QED BY <2>1, <2>2, <2>3, <2>4
  <1>3. "allow" \in States \ {"timestamp", "count", "add", "store"}  BY DEF States
  <1> QED BY <1>1, <1>2, <1>3

\* The steps of a request outside the limit strategy leave the windows alone.
LEMMA OtherWindow ==
  ASSUME WindowInv, NEW r \in Requests,
         \/ OnMessage(r) \/ DoHandleRequest(r) \/ Reply(r) \/ ProxyInvoke(r)
         \/ TpsPass(r) \/ TpsPanic(r) \/ TpsFound(r)
         \/ ExecuteUncounted(r) \/ Increase(r) \/ Decrease(r)
         \/ ShutdownInvoke(r) \/ OnResponse(r)
  PROVE  WindowInv'
  BY OtherMoves, QuietMove

\* The steps of the strategies; those of the others are not taken under the
\* thread-safe fixed window.
LEMMA StrategyWindow ==
  ASSUME WindowInv, NEW r \in Requests,
         \/ TpsStore(r) \/ AllowSliding(r)
         \/ FixedRead(r) \/ FixedTimestamp(r) \/ FixedCount(r) \/ FixedAdd(r)
  PROVE  WindowInv'
PROOF
  <1>1. UNCHANGED conf
    BY DEF TpsStore, AllowSliding, FixedRead, FixedTimestamp, FixedCount, FixedAdd
  <1>2. CASE conf.strategy # "threadSafeFixedWindow"  BY <1>1, <1>2 DEF WindowInv
  <1>3. CASE conf.strategy = "threadSafeFixedWindow"
    <2>1. at[r] \notin {"timestamp", "count", "add"}
      BY <1>3 DEF WindowInv, WindowTypeOK
    <2>2. TpsStore(r)
      BY <1>3, <2>1 DEF AllowSliding, FixedRead, FixedTimestamp, FixedCount, FixedAdd
    <2> QED BY <1>3, <2>2, StoreWindow
  <1> QED BY <1>2, <1>3

\* Every step keeps the invariant of the windows.
LEMMA WindowStep == WindowInv /\ [Next]_vars => WindowInv'
PROOF
  <1> SUFFICES ASSUME WindowInv, [Next]_vars PROVE WindowInv'  OBVIOUS
  <1>1. CASE \E r \in Requests : OnMessage(r) \/ Serve(r) \/ ProxyInvoke(r)
    BY <1>1, OtherWindow, StrategyWindow, CreateWindow, AllowWindow DEF Serve
  <1>2. CASE UNCHANGED <<conf, at, current, allowedAt, tpsState>>
             /\ (now' = now \/ now' = now + 1)
    BY <1>2, QuietElse
  <1>3. CASE \/ GracefulShutdownInit \/ Signal \/ BeforeShutdown \/ ExitTimeout \/ Tick
             \/ UNCHANGED vars
    BY <1>2, <1>3
    DEF GracefulShutdownInit, Signal, BeforeShutdown, RegistriesDestroyed, AcceptEnds,
        WaitEnds, Unexport, UnRegister, Stop, Exit, ExitTimeout, Tick, vars, requests,
        tpsVars
  <1> QED BY <1>1, <1>3 DEF Next

\* The thread-safe fixed window lets at most tps.limit.rate requests through
\* in a window, however many goroutines create and ask the strategy at once.
THEOREM FixedWindowHolds == Spec => []FixedWindowBound
PROOF
  <1>1. WindowInv => FixedWindowBound
    BY DEF WindowInv, Window, Since, FixedWindowBound
  <1> QED BY WindowInit, WindowStep, <1>1, PTL DEF Spec

-----------------------------------------------------------------------------
(* Every strategy: the types, and what a goroutine inside one may rely on. *)

\* Between Load and the answer there is a strategy, and it has a limit.
Busy(r) ==
  /\ at[r] \in {"timestamp", "count", "add"} => conf.strategy = "fixedWindow"
  /\ at[r] \in {"store", "timestamp", "count", "add"} => current[r] \in Int
  /\ at[r] = "store" => Limit(Target(r))
  /\ at[r] \in {"allow", "timestamp", "count", "add"} => tpsState[Target(r)] # None

StrategyTypeOK ==
  /\ now \in Int /\ conf \in Confs /\ at \in [Requests -> States]
  /\ current \in [Requests -> Int \cup {None}]
  /\ allowedAt \in [Requests -> Int \cup {None}]
  /\ tpsState \in [Targets -> Strategy \cup {None}]

StrategyInv ==
  /\ StrategyTypeOK
  /\ \A t \in Targets : tpsState[t] # None => Limit(t)
  /\ \A r \in Requests : Busy(r)

\* There are n numbers from 1 to n.
LEMMA UpTo ==
  ASSUME NEW n \in Nat
  PROVE  IsFiniteSet(1..n) /\ Cardinality(1..n) = n
PROOF
  <1>1. /\ IsFiniteSet(1..n)
        /\ Cardinality(1..n) = IF 1 > n THEN 0 ELSE n - 1 + 1
    BY FS_Interval
  <1> QED BY <1>1

\* What is left of the queue: its end, and what is cut off is out of the window.
LEMMA WithinCuts ==
  ASSUME NEW q \in Seq(Int), NEW b \in Int
  PROVE  \E k \in 0..Len(q) :
            /\ Within(q, b) \in Seq(Int) /\ Len(Within(q, b)) = Len(q) - k
            /\ \A i \in 1..(Len(q) - k) : Within(q, b)[i] = q[i + k]
            /\ \A i \in 1..k : q[i] < b
PROOF
  <1> DEFINE out == {n \in 1..Len(q) : \A i \in 1..n : q[i] < b}
             k == Cardinality(out)
  <1>1. Len(q) \in Nat /\ \A i \in 1..Len(q) : q[i] \in Int  OBVIOUS
  <1>2. IsFiniteSet(1..Len(q)) /\ Cardinality(1..Len(q)) = Len(q)
    BY <1>1, UpTo
  <1>3. IsFiniteSet(out) /\ k <= Len(q) /\ k \in Nat
    BY <1>2, FS_Subset, FS_CardinalityType
  <1>4. ASSUME NEW i \in 1..k, ~(q[i] < b) PROVE FALSE
    <2>1. out \subseteq 1..(i - 1)
      <3> SUFFICES ASSUME NEW n \in out, n > i - 1 PROVE FALSE
        BY <1>1, <1>3
      <3> QED BY <1>3, <1>4
    <2>2. IsFiniteSet(1..(i - 1)) /\ Cardinality(1..(i - 1)) = i - 1
      <3>1. i - 1 \in Nat  BY <1>3
      <3> QED BY <3>1, UpTo
    <2>3. k <= i - 1  BY <2>1, <2>2, FS_Subset
    <2> QED BY <1>3, <2>3
  <1>5. Within(q, b) = SubSeq(q, k + 1, Len(q))  BY DEF Within
  <1> HIDE DEF k
  <1>6. /\ SubSeq(q, k + 1, Len(q)) \in Seq(Int)
        /\ Len(SubSeq(q, k + 1, Len(q))) = Len(q) - k
        /\ \A i \in 1..(Len(q) - k) : SubSeq(q, k + 1, Len(q))[i] = q[i + k]
    BY <1>1, <1>3
  <1>7. k \in 0..Len(q) /\ \A i \in 1..k : q[i] < b  BY <1>1, <1>3, <1>4
  <1> HIDE DEF out
  <1> QED BY <1>5, <1>6, <1>7

\* A request moves on; strategies are made and changed, but never removed.
LEMMA StrategyMove ==
  ASSUME StrategyInv, UNCHANGED <<now, conf>>,
         NEW r \in Requests, NEW p \in States, at' = [at EXCEPT ![r] = p],
         NEW v \in Int \cup {None}, current' = current \/ current' = [current EXCEPT ![r] = v],
         allowedAt' \in [Requests -> Int \cup {None}],
         tpsState' \in [Targets -> Strategy \cup {None}],
         \A t \in Targets : tpsState[t] # None => tpsState'[t] # None,
         \A t \in Targets : tpsState'[t] # None => Limit(t),
         Busy(r)'
  PROVE  StrategyInv'
PROOF
  <1>1. StrategyTypeOK'  BY DEF StrategyInv, StrategyTypeOK
  <1>2. \A t \in Targets : tpsState'[t] # None => Limit(t)'  BY SameConf
  <1>3. ASSUME NEW q \in Requests PROVE Busy(q)'
    <2>1. CASE q = r  BY <2>1
    <2>2. CASE q # r
      <3>1. at'[q] = at[q] /\ current'[q] = current[q]
        BY <2>2 DEF StrategyInv, StrategyTypeOK
      <3>2. Busy(q) /\ Target(q) \in Targets  BY TargetType DEF StrategyInv
      <3>3. Target(q)' = Target(q) /\ Limit(Target(q))' = Limit(Target(q))  BY SameConf
      <3> QED BY <3>1, <3>2, <3>3 DEF Busy
    <2> QED BY <2>1, <2>2
  <1> QED BY <1>1, <1>2, <1>3 DEF StrategyInv

\* A strategy that is there is given other values.
LEMMA StrategySet ==
  ASSUME StrategyInv, NEW r \in Requests, NEW w \in Strategy, SetState(r, w),
         tpsState[Target(r)] # None
  PROVE  /\ tpsState' \in [Targets -> Strategy \cup {None}]
         /\ tpsState'[Target(r)] = w
         /\ \A t \in Targets : tpsState[t] # None => tpsState'[t] # None
         /\ \A t \in Targets : tpsState'[t] # None => Limit(t)
PROOF
  <1>1. Target(r) \in Targets /\ w # None  BY TargetType, ProviderAssumption
  <1>2. tpsState' = [tpsState EXCEPT ![Target(r)] = w]  BY DEF SetState
  <1>3. tpsState \in [Targets -> Strategy \cup {None}]  BY DEF StrategyInv, StrategyTypeOK
  <1> QED BY <1>1, <1>2, <1>3 DEF StrategyInv

\* The answer of a strategy.
LEMMA StrategyAnswer ==
  ASSUME StrategyInv, UNCHANGED <<now, conf>>, NEW r \in Requests, NEW w \in Strategy,
         SetState(r, w), tpsState[Target(r)] # None,
         NEW ok, NEW time \in Int, Answer(r, ok, time),
         current' = current \/ current' = [current EXCEPT ![r] = None]
  PROVE  StrategyInv'
PROOF
  <1>1. PICK p \in {"execute", "reply"} : at' = [at EXCEPT ![r] = p]
    BY DEF Answer, Go, Finish
  <1>2. allowedAt' \in [Requests -> Int \cup {None}]
    <2>1. allowedAt' = allowedAt \/ allowedAt' = [allowedAt EXCEPT ![r] = time]
      BY DEF Answer
    <2> QED BY <2>1 DEF StrategyInv, StrategyTypeOK
  <1>3. at'[r] = p  BY <1>1 DEF StrategyInv, StrategyTypeOK
  <1>4. Busy(r)'  BY <1>1, <1>3 DEF Busy
  <1>5. p \in States /\ None \in Int \cup {None}  BY <1>1 DEF States
  <1> QED BY <1>1, <1>2, <1>4, <1>5, StrategySet, StrategyMove

\* A strategy is created with the time it reads.
LEMMA CreateStrategy ==
  ASSUME StrategyInv, NEW r \in Requests, TpsCreate(r)
  PROVE  StrategyInv'
PROOF
  <1>1. /\ at' = [at EXCEPT ![r] = "store"] /\ current' = [current EXCEPT ![r] = now]
        /\ Limited(MethodOf[r]) /\ Positive(Interval(MethodOf[r]))
        /\ UNCHANGED <<now, conf, allowedAt, tpsState>>
    BY DEF TpsCreate, Go
  <1>2. Limit(Target(r))  BY <1>1, LimitType DEF StrategyInv, StrategyTypeOK
  <1>3. at'[r] = "store" /\ current'[r] = now /\ now \in Int
    BY <1>1 DEF StrategyInv, StrategyTypeOK
  <1>4. Busy(r)'  BY <1>1, <1>2, <1>3, SameConf DEF Busy
  <1>5. "store" \in States /\ now \in Int \cup {None}  BY <1>3 DEF States
  <1>6. /\ allowedAt' \in [Requests -> Int \cup {None}]
        /\ tpsState' \in [Targets -> Strategy \cup {None}]
        /\ \A t \in Targets : tpsState'[t] # None => Limit(t)
    BY <1>1 DEF StrategyInv, StrategyTypeOK
  <1> QED BY <1>1, <1>4, <1>5, <1>6, StrategyMove

\* The first strategy is stored, and a later one dropped.
LEMMA StoreStrategy ==
  ASSUME StrategyInv, NEW r \in Requests, TpsStore(r)
  PROVE  StrategyInv'
PROOF
  <1>1. PICK T \in Targets : T = Target(r)  BY TargetType
  <1>2. /\ at[r] = "store" /\ at' = [at EXCEPT ![r] = "allow"]
        /\ current' = [current EXCEPT ![r] = None]
        /\ tpsState' = IF tpsState[T] # None THEN tpsState
                       ELSE [tpsState EXCEPT ![T] = NewStrategy(current[r])]
        /\ UNCHANGED <<now, conf, allowedAt>>
    BY <1>1 DEF TpsStore, Go
  <1>3. current[r] \in Int /\ Limit(T)  BY <1>1, <1>2 DEF StrategyInv, Busy
  <1>4. NewStrategy(current[r]) \in Strategy /\ NewStrategy(current[r]) # None
    <2>1. <<>> \in Seq(Int)  OBVIOUS
    <2>2. NewStrategy(current[r]) \in Strategy
      BY <1>3, <2>1 DEF NewStrategy, Strategy
    <2> QED BY <2>2, ProviderAssumption
  <1>5. /\ tpsState' \in [Targets -> Strategy \cup {None}] /\ tpsState'[T] # None
        /\ \A t \in Targets : tpsState[t] # None => tpsState'[t] # None
        /\ \A t \in Targets : tpsState'[t] # None => Limit(t)
    BY <1>2, <1>3, <1>4 DEF StrategyInv, StrategyTypeOK
  <1>6. at'[r] = "allow"  BY <1>2 DEF StrategyInv, StrategyTypeOK
  <1>7. Busy(r)'  BY <1>1, <1>2, <1>5, <1>6, SameConf DEF Busy
  <1>8. /\ "allow" \in States /\ None \in Int \cup {None}
        /\ allowedAt' \in [Requests -> Int \cup {None}]
    BY <1>2 DEF States, StrategyInv, StrategyTypeOK
  <1> QED BY <1>2, <1>5, <1>7, <1>8, StrategyMove

\* The strategy of a request that is to ask it.
LEMMA AskedStrategy ==
  ASSUME StrategyInv, NEW r \in Requests,
         at[r] \in {"allow", "timestamp", "count", "add"}
  PROVE  /\ tpsState[Target(r)] # None /\ tpsState[Target(r)] \in Strategy
         /\ Target(r) \in Targets /\ Limit(Target(r)) /\ now \in Int
         /\ Rate(MethodOf[r]) = Rate(Target(r)) /\ Rate(MethodOf[r]) \in Nat
         /\ Interval(MethodOf[r]) = Interval(Target(r)) /\ Interval(MethodOf[r]) \in Nat
PROOF
  <1>1. /\ Target(r) \in Targets /\ Rate(MethodOf[r]) = Rate(Target(r))
        /\ Interval(MethodOf[r]) = Interval(Target(r))
    BY TargetType
  <1>2. tpsState[Target(r)] # None  BY DEF StrategyInv, Busy
  <1>3. Limit(Target(r))  BY <1>1, <1>2 DEF StrategyInv
  <1> QED BY <1>1, <1>2, <1>3 DEF StrategyInv, StrategyTypeOK, Limit

\* IsAllowable of the thread-safe fixed window keeps the strategies well formed.
LEMMA ThreadSafeStrategy ==
  ASSUME StrategyInv, NEW r \in Requests, AllowThreadSafe(r)
  PROVE  StrategyInv'
PROOF
  <1>1. at[r] = "allow" /\ UNCHANGED <<now, conf, current>>  BY DEF AllowThreadSafe
  <1>2. PICK s \in Strategy : s = tpsState[Target(r)] /\ s # None  BY <1>1, AskedStrategy
  <1>3. now \in Int  BY <1>1, AskedStrategy
  <1>4. PICK w : /\ w = IF Expired(s, MethodOf[r], now)
                          THEN [s EXCEPT !.timestamp = now, !.count = 1]
                          ELSE [s EXCEPT !.count = @ + 1]
                 /\ SetState(r, w) /\ Answer(r, w.count <= Rate(MethodOf[r]), now)
    BY <1>2 DEF AllowThreadSafe
  <1>5. w \in Strategy
    <2>1. s.count \in Nat  BY <1>2 DEF Strategy
    <2>2. \A n \in Nat : [s EXCEPT !.count = n] \in Strategy  BY <1>2 DEF Strategy
    <2>3. [s EXCEPT !.timestamp = now, !.count = 1] \in Strategy
      BY <1>2, <1>3 DEF Strategy
    <2>4. s.count + 1 \in Nat  BY <2>1
    <2> QED BY <1>4, <2>2, <2>3, <2>4
  <1> QED BY <1>1, <1>2, <1>3, <1>4, <1>5, StrategyAnswer

\* What IsAllowable of the sliding window does to the queue s of its strategy:
\* it keeps the end of s, whatever is within the window included, and adds the
\* current time if there is room.
Slides(r, s, q, k, ok) ==
  /\ q \in Seq(Int) /\ k \in 0..Len(s) /\ Len(q) = Len(s) - k
  /\ \A i \in 1..Len(q) : q[i] = s[i + k]
  /\ \A i \in 1..k : s[i] < now - Interval(Target(r))
  /\ ok <=> Len(q) < Rate(Target(r))

\* What IsAllowable of the sliding window does to its queue: cut it, and append now.
LEMMA SlidingCuts ==
  ASSUME StrategyInv, NEW r \in Requests, AllowSliding(r)
  PROVE  \E q, k : \E ok \in BOOLEAN :
           /\ Slides(r, tpsState[Target(r)].queue, q, k, ok)
           /\ SetState(r, [tpsState[Target(r)] EXCEPT
                             !.queue = IF ok THEN Append(q, now) ELSE q])
           /\ Answer(r, ok, now)
PROOF
  <1>1. at[r] = "allow"  BY DEF AllowSliding
  <1>2. PICK s : s = tpsState[Target(r)].queue  OBVIOUS
  <1>3. PICK b : b = now - Interval(MethodOf[r])  OBVIOUS
  <1>4. PICK q : q = IF Len(s) < Rate(MethodOf[r]) THEN s ELSE Within(s, b)  OBVIOUS
  <1>5. PICK ok \in BOOLEAN : ok <=> Len(q) < Rate(MethodOf[r])  OBVIOUS
  <1>6. s \in Seq(Int)  BY <1>1, <1>2, AskedStrategy DEF Strategy
  <1>7. b \in Int /\ b = now - Interval(Target(r)) /\ Rate(MethodOf[r]) = Rate(Target(r))
    BY <1>1, <1>3, AskedStrategy
  <1>8. \E k \in 0..Len(s) : /\ q \in Seq(Int) /\ Len(q) = Len(s) - k
                             /\ \A i \in 1..(Len(s) - k) : q[i] = s[i + k]
                             /\ \A i \in 1..k : s[i] < b
    <2>1. CASE q = s
      <3>1. /\ 0 \in 0..Len(s) /\ Len(s) = Len(s) - 0 /\ 1..0 = {}
            /\ \A i \in 1..(Len(s) - 0) : s[i] = s[i + 0]
        BY <1>6
      <3> QED BY <1>6, <2>1, <3>1
    <2>2. CASE q = Within(s, b)  BY <1>6, <1>7, <2>2, WithinCuts
    <2> QED BY <1>4, <2>1, <2>2
  <1>9. \E k : Slides(r, s, q, k, ok)  BY <1>5, <1>7, <1>8 DEF Slides
  <1>10. /\ SetState(r, [tpsState[Target(r)] EXCEPT
                            !.queue = IF ok THEN Append(q, now) ELSE q])
         /\ Answer(r, ok, now)
    BY <1>2, <1>3, <1>4, <1>5 DEF AllowSliding, Answer
  <1> QED BY <1>2, <1>9, <1>10

\* IsAllowable of the sliding window keeps the strategies well formed.
LEMMA SlidingStrategy ==
  ASSUME StrategyInv, NEW r \in Requests, AllowSliding(r)
  PROVE  StrategyInv'
PROOF
  <1>1. at[r] = "allow" /\ UNCHANGED <<now, conf, current>>  BY DEF AllowSliding
  <1>2. PICK s \in Strategy : s = tpsState[Target(r)] /\ s # None  BY <1>1, AskedStrategy
  <1>3. now \in Int  BY <1>1, AskedStrategy
  <1>4. PICK q, k, ok : /\ Slides(r, s.queue, q, k, ok) /\ Answer(r, ok, now)
                        /\ SetState(r, [s EXCEPT !.queue = IF ok THEN Append(q, now) ELSE q])
    BY <1>2, SlidingCuts
  <1>5. q \in Seq(Int) /\ Append(q, now) \in Seq(Int)  BY <1>3, <1>4 DEF Slides
  <1>6. [s EXCEPT !.queue = IF ok THEN Append(q, now) ELSE q] \in Strategy
    BY <1>2, <1>5 DEF Strategy
  <1> QED BY <1>1, <1>2, <1>3, <1>4, <1>6, StrategyAnswer

\* The steps of the fixed window without a lock keep the strategies well formed.
LEMMA FixedStrategy ==
  ASSUME StrategyInv, NEW r \in Requests,
         FixedRead(r) \/ FixedTimestamp(r) \/ FixedCount(r) \/ FixedAdd(r)
  PROVE  StrategyInv'
PROOF
  <1>1. /\ at[r] \in {"allow", "timestamp", "count", "add"} /\ UNCHANGED <<now, conf>>
        /\ conf.strategy = "fixedWindow"
    BY DEF FixedRead, FixedTimestamp, FixedCount, FixedAdd, StrategyInv, Busy
  <1>2. PICK s \in Strategy : s = tpsState[Target(r)] /\ s # None  BY <1>1, AskedStrategy
  <1>3. now \in Int /\ Target(r) \in Targets  BY <1>1, AskedStrategy
  <1>4. /\ at \in [Requests -> States] /\ current \in [Requests -> Int \cup {None}]
        /\ allowedAt \in [Requests -> Int \cup {None}]
        /\ tpsState \in [Targets -> Strategy \cup {None}]
        /\ \A t \in Targets : tpsState[t] # None => Limit(t)
    BY DEF StrategyInv, StrategyTypeOK
  <1>5. {"allow", "timestamp", "count", "add"} \subseteq States  BY DEF States
  <1>6. CASE FixedRead(r)
    <2>1. PICK p \in {"timestamp", "add"} : at' = [at EXCEPT ![r] = p]
      BY <1>6 DEF FixedRead, Go
    <2>2. current' = [current EXCEPT ![r] = now] /\ UNCHANGED <<allowedAt, tpsState>>
      BY <1>6 DEF FixedRead
    <2>3. at'[r] = p /\ current'[r] = now  BY <1>4, <2>1, <2>2
    <2>4. Busy(r)'  BY <1>1, <1>2, <1>3, <2>1, <2>2, <2>3, SameConf DEF Busy
    <2>5. p \in States /\ now \in Int \cup {None}  BY <1>3, <1>5, <2>1
    <2> QED BY <1>1, <1>4, <2>1, <2>2, <2>4, <2>5, StrategyMove
  <1>7. ASSUME FixedTimestamp(r) \/ FixedCount(r)  PROVE StrategyInv'
    <2>1. current[r] \in Int  BY <1>7 DEF FixedTimestamp, FixedCount, StrategyInv, Busy
    <2>2. PICK w \in Strategy : SetState(r, w)
      <3>1. [s EXCEPT !.timestamp = current[r]] \in Strategy  BY <1>2, <2>1 DEF Strategy
      <3>2. [s EXCEPT !.count = 0] \in Strategy  BY <1>2 DEF Strategy
      <3> QED BY <1>2, <1>7, <3>1, <3>2 DEF FixedTimestamp, FixedCount
    <2>3. PICK p \in {"count", "add"} : at' = [at EXCEPT ![r] = p]
      BY <1>7 DEF FixedTimestamp, FixedCount, Go
    <2>4. UNCHANGED <<current, allowedAt>>  BY <1>7 DEF FixedTimestamp, FixedCount
    <2>5. /\ tpsState' \in [Targets -> Strategy \cup {None}]
          /\ tpsState'[Target(r)] = w /\ w # None
          /\ \A t \in Targets : tpsState[t] # None => tpsState'[t] # None
          /\ \A t \in Targets : tpsState'[t] # None => Limit(t)
      BY <1>2, <2>2, StrategySet, ProviderAssumption
    <2>6. at'[r] = p  BY <1>4, <2>3
    <2>7. Busy(r)'  BY <1>1, <2>1, <2>3, <2>4, <2>5, <2>6, SameConf DEF Busy
    <2>8. p \in States /\ None \in Int \cup {None}  BY <1>5, <2>3
    <2> QED BY <1>1, <1>4, <2>3, <2>4, <2>5, <2>7, <2>8, StrategyMove
  <1>8. CASE FixedAdd(r)
    <2>1. s.count \in Nat  BY <1>2 DEF Strategy
    <2>2. s.count + 1 \in Nat  BY <2>1
    <2>3. [s EXCEPT !.count = s.count + 1] \in Strategy  BY <1>2, <2>2 DEF Strategy
    <2>4. current[r] \in Int  BY <1>8 DEF FixedAdd, StrategyInv, Busy
    <2>5. /\ SetState(r, [s EXCEPT !.count = s.count + 1])
          /\ Answer(r, s.count + 1 <= Rate(MethodOf[r]), current[r])
          /\ current' = [current EXCEPT ![r] = None]
      BY <1>2, <1>8 DEF FixedAdd
    <2> QED BY <1>1, <1>2, <2>3, <2>4, <2>5, StrategyAnswer
  <1> QED BY <1>6, <1>7, <1>8

\* A step of the shutdown or of the clock, and a step outside the strategies.
LEMMA StrategyElse ==
  ASSUME StrategyInv, UNCHANGED <<conf, at, current, allowedAt, tpsState>>,
         now' = now \/ now' = now + 1
  PROVE  StrategyInv'
PROOF
  <1>1. StrategyTypeOK'  BY DEF StrategyInv, StrategyTypeOK
  <1>2. \A t \in Targets : tpsState'[t] # None => Limit(t)'  BY SameConf DEF StrategyInv
  <1>3. \A q \in Requests : Busy(q)'  BY SameConf DEF StrategyInv, Busy
  <1> QED BY <1>1, <1>2, <1>3 DEF StrategyInv

\* A step of a request that leaves the strategies alone.
LEMMA OtherStrategy ==
  ASSUME StrategyInv, NEW r \in Requests,
         UNCHANGED <<now, conf, current, allowedAt, tpsState>>,
         NEW p \in States \ {"timestamp", "count", "add", "store"},
         at' = [at EXCEPT ![r] = p], p = "allow" => tpsState[Target(r)] # None
  PROVE  StrategyInv'
PROOF
  <1>1. at'[r] = p  BY DEF StrategyInv, StrategyTypeOK
  <1>2. Busy(r)'  BY <1>1, SameConf DEF Busy
  <1>3. p \in States /\ None \in Int \cup {None}  OBVIOUS
  <1>4. /\ allowedAt' \in [Requests -> Int \cup {None}]
        /\ tpsState' \in [Targets -> Strategy \cup {None}]
        /\ \A t \in Targets : tpsState'[t] # None => Limit(t)
    BY DEF StrategyInv, StrategyTypeOK
  <1> QED BY <1>2, <1>3, <1>4, StrategyMove

\* The steps that concern no request.
LEMMA ElseMoves ==
  ASSUME \/ GracefulShutdownInit \/ Signal \/ BeforeShutdown \/ ExitTimeout \/ Tick
         \/ UNCHANGED vars
  PROVE  /\ UNCHANGED <<conf, at, res, replied, current, allowedAt, tpsState>>
         /\ now' = now \/ now' = now + 1
  BY DEF GracefulShutdownInit, Signal, BeforeShutdown, RegistriesDestroyed, AcceptEnds,
         WaitEnds, Unexport, UnRegister, Stop, Exit, ExitTimeout, Tick, vars, requests,
         tpsVars

\* The initial state satisfies the invariant of the strategies.
LEMMA StrategyInit == Init => StrategyInv
PROOF
  <1> SUFFICES ASSUME Init PROVE StrategyInv  OBVIOUS
  <1>1. StrategyTypeOK  BY DEF Init, StrategyTypeOK, States
  <1>2. \A t \in Targets : tpsState[t] = None  BY DEF Init
  <1>3. \A r \in Requests : Busy(r)  BY DEF Init, Busy
  <1> QED BY <1>1, <1>2, <1>3 DEF StrategyInv

\* Every step keeps the invariant of the strategies.
LEMMA StrategyStep == StrategyInv /\ [Next]_vars => StrategyInv'
PROOF
  <1> SUFFICES ASSUME StrategyInv, [Next]_vars PROVE StrategyInv'  OBVIOUS
  <1>1. ASSUME NEW r \in Requests, OnMessage(r) \/ Serve(r) \/ ProxyInvoke(r)
        PROVE  StrategyInv'
    <2>1. CASE \/ OnMessage(r) \/ DoHandleRequest(r) \/ Reply(r) \/ ProxyInvoke(r)
               \/ TpsPass(r) \/ TpsPanic(r) \/ TpsFound(r)
               \/ ExecuteUncounted(r) \/ Increase(r) \/ Decrease(r)
               \/ ShutdownInvoke(r) \/ OnResponse(r)
      BY <2>1, OtherMoves, OtherStrategy
    <2>2. CASE \/ TpsCreate(r) \/ TpsStore(r) \/ AllowThreadSafe(r) \/ AllowSliding(r)
               \/ FixedRead(r) \/ FixedTimestamp(r) \/ FixedCount(r) \/ FixedAdd(r)
      BY <2>2, CreateStrategy, StoreStrategy, ThreadSafeStrategy, SlidingStrategy,
         FixedStrategy
    <2> QED BY <1>1, <2>1, <2>2 DEF Serve
  <1>2. CASE \/ GracefulShutdownInit \/ Signal \/ BeforeShutdown \/ ExitTimeout \/ Tick
             \/ UNCHANGED vars
    BY <1>2, ElseMoves, StrategyElse
  <1> QED BY <1>1, <1>2 DEF Next

-----------------------------------------------------------------------------
(* The sliding window.                                                     *)

\* The requests of t that are still in the window.
Recent(t) ==
  {r \in Requests : /\ Target(r) = t /\ allowedAt[r] # None
                    /\ now - Interval(t) <= allowedAt[r]}

\* Each of them has an element of the queue to itself.
Remembered(t) ==
  \E f \in Injection(Recent(t), 1..Len(tpsState[t].queue)) :
    \A r \in Recent(t) : tpsState[t].queue[f[r]] = allowedAt[r]

LetThrough(r) ==
  allowedAt[r] # None => tpsState[Target(r)] # None /\ allowedAt[r] <= now

Slide(t) ==
  tpsState[t] # None =>
    /\ Len(tpsState[t].queue) <= Rate(t) /\ Remembered(t)
    /\ \A e \in 0..now : Cardinality(AllowedIn(t, e - Interval(t), e)) <= Rate(t)

SlideInv ==
  conf.strategy = "slidingWindow" =>
    (\A r \in Requests : LetThrough(r)) /\ (\A t \in Targets : Slide(t))

\* What has places in the queue is no more than the queue.
LEMMA Placed ==
  ASSUME NEW R, NEW n \in Nat, NEW f \in Injection(R, 1..n), NEW A, A \subseteq R
  PROVE  Cardinality(A) <= n
PROOF
  <1>1. /\ IsFiniteSet(R) /\ Cardinality(R) <= n /\ Cardinality(R) \in Nat
    BY UpTo, FS_Injection, FS_CardinalityType
  <1>2. /\ Cardinality(A) <= Cardinality(R) /\ Cardinality(A) \in Nat
    BY <1>1, FS_Subset, FS_CardinalityType
  <1> QED BY <1>1, <1>2

\* The stretch that ends now is in the queue, and those before it are as before.
LEMMA SlideHolds ==
  ASSUME NEW t \in Targets, StrategyInv, UNCHANGED conf, now' = now \/ now' = now + 1,
         NEW q \in Seq(Int), tpsState'[t] # None => q = tpsState'[t].queue,
         tpsState'[t] # None => Limit(t) /\ Len(q) <= Rate(t) /\ Remembered(t)',
         tpsState'[t] # None => \A e \in 0..now : e < now' =>
           \/ AllowedIn(t, e - Interval(t), e)' = {}
           \/ /\ AllowedIn(t, e - Interval(t), e)' \subseteq AllowedIn(t, e - Interval(t), e)
              /\ Cardinality(AllowedIn(t, e - Interval(t), e)) <= Rate(t)
  PROVE  Slide(t)'
PROOF
  <1> SUFFICES ASSUME tpsState'[t] # None PROVE Slide(t)'  BY DEF Slide
  <1>1. Rate(t)' = Rate(t) /\ Interval(t)' = Interval(t)  BY SameConf
  <1>2. Rate(t) \in Nat /\ Interval(t) \in Nat /\ now \in Int /\ Len(q) \in Nat
    BY DEF Limit, StrategyInv, StrategyTypeOK
  <1>3. ASSUME NEW e \in 0..now'
        PROVE  Cardinality(AllowedIn(t, e - Interval(t), e)') <= Rate(t)
    <2> DEFINE A == AllowedIn(t, e - Interval(t), e)
    <2>1. CASE e = now'
      <3>1. PICK f : f \in Injection(Recent(t)', 1..Len(q))  BY DEF Remembered
      <3>2. A' \subseteq Recent(t)'
        BY <1>1, <2>1, SameConf DEF AllowedIn, Recent
      <3>3. Cardinality(A') <= Len(q)  BY <1>2, <3>1, <3>2, Placed
      <3>4. Cardinality(A') \in Nat
        <4>1. A' \subseteq Requests  BY DEF AllowedIn
        <4> QED BY <4>1, ProviderAssumption, FS_Subset, FS_CardinalityType
      <3> QED BY <1>2, <3>3, <3>4
    <2>2. CASE e < now'
      <3>1. e \in 0..now  BY <1>2, <2>2
      <3>2. CASE A' = {}
        <4>1. Cardinality({}) = 0  BY FS_EmptySet
        <4>2. Cardinality(A') = 0  BY <3>2, <4>1, Zenon
        <4> QED BY <1>2, <4>2
      <3>3. CASE A' \subseteq A /\ Cardinality(A) <= Rate(t)
        <4>1. IsFiniteSet(A) /\ Cardinality(A) \in Nat  BY AllowedFinite
        <4>2. Cardinality(A') <= Cardinality(A) /\ Cardinality(A') \in Nat
          BY <3>3, <4>1, FS_Subset, FS_CardinalityType
        <4> QED BY <1>2, <3>3, <4>1, <4>2
      <3> QED BY <2>2, <3>1, <3>2, <3>3
    <2> QED BY <1>2, <2>1, <2>2
  <1>4. \A e \in 0..now' : Cardinality(AllowedIn(t, e - Interval(t), e)') <= Rate(t)
    BY <1>3
  <1> QED BY <1>1, <1>4 DEF Slide

\* A strategy that a step leaves alone, the clock running or not.
LEMMA SlideKept ==
  ASSUME NEW t \in Targets, StrategyInv, UNCHANGED conf, now' = now \/ now' = now + 1,
         tpsState'[t] = tpsState[t], Slide(t),
         \A r \in Requests : Target(r) = t => allowedAt'[r] = allowedAt[r]
  PROVE  Slide(t)'
PROOF
  <1> SUFFICES ASSUME tpsState[t] # None PROVE Slide(t)'  BY DEF Slide
  <1>1. Limit(t) /\ now \in Int  BY DEF StrategyInv, StrategyTypeOK
  <1>2. PICK q \in Seq(Int) : q = tpsState[t].queue
    BY DEF StrategyInv, StrategyTypeOK, Strategy
  <1>3. Interval(t) \in Nat /\ Interval(t)' = Interval(t)  BY <1>1, SameConf DEF Limit
  <1>4. \A r \in Requests : allowedAt[r] # None => allowedAt[r] \in Int
    BY DEF StrategyInv, StrategyTypeOK
  <1>5. Recent(t)' \subseteq Recent(t)
        /\ \A r \in Recent(t)' : allowedAt'[r] = allowedAt[r]
    BY <1>1, <1>3, <1>4, SameConf DEF Recent
  <1>6. PICK f \in Injection(Recent(t), 1..Len(q)) : \A r \in Recent(t) : q[f[r]] = allowedAt[r]
    BY <1>2 DEF Slide, Remembered
  <1>7. Remembered(t)'
    <2> DEFINE g == [r \in Recent(t)' |-> f[r]]
    <2>1. g \in Injection(Recent(t)', 1..Len(q))
      BY <1>5, <1>6 DEF Injection, IsInjective
    <2>2. \A r \in Recent(t)' : q[g[r]] = allowedAt'[r]  BY <1>5, <1>6
    <2>3. q = tpsState'[t].queue  BY <1>2
    <2> HIDE DEF g
    <2> QED BY <2>1, <2>2, <2>3 DEF Remembered
  <1>8. \A e \in 0..now : /\ AllowedIn(t, e - Interval(t), e)'
                               = AllowedIn(t, e - Interval(t), e)
                          /\ Cardinality(AllowedIn(t, e - Interval(t), e)) <= Rate(t)
    BY <1>3, SameConf DEF AllowedIn, Slide
  <1>9. Len(q) <= Rate(t)  BY <1>2 DEF Slide
  <1> QED BY <1>1, <1>2, <1>7, <1>8, <1>9, SlideHolds

\* LoadOrStore: the first strategy of a target has let nobody through.
LEMMA StoreSlide ==
  ASSUME StrategyInv, SlideInv, conf.strategy = "slidingWindow",
         NEW r \in Requests, TpsStore(r)
  PROVE  SlideInv'
PROOF
  <1>1. PICK T \in Targets : T = Target(r)  BY TargetType
  <1>2. /\ at[r] = "store" /\ UNCHANGED <<now, conf, allowedAt>>
        /\ tpsState' = IF tpsState[T] # None THEN tpsState
                       ELSE [tpsState EXCEPT ![T] = NewStrategy(current[r])]
    BY <1>1 DEF TpsStore
  <1>3. (\A q \in Requests : LetThrough(q)) /\ (\A t \in Targets : Slide(t))
    BY DEF SlideInv
  <1>4. tpsState \in [Targets -> Strategy \cup {None}] /\ current[r] \in Int /\ Limit(T)
    BY <1>1, <1>2 DEF StrategyInv, StrategyTypeOK, Busy
  <1>5. \A t \in Targets : t # T \/ tpsState[t] # None => tpsState'[t] = tpsState[t]
    BY <1>2, <1>4
  <1>6. ASSUME NEW q \in Requests PROVE LetThrough(q)'
    <2>1. LetThrough(q) /\ Target(q) \in Targets  BY <1>3, TargetType
    <2> QED BY <1>2, <1>5, <2>1, SameConf DEF LetThrough
  <1>7. ASSUME NEW t \in Targets PROVE Slide(t)'
    <2>1. CASE t # T \/ tpsState[t] # None
      BY <1>2, <1>3, <1>5, <2>1, SlideKept
    <2>2. CASE t = T /\ tpsState[t] = None
      <3>1. tpsState'[t] = NewStrategy(current[r])  BY <1>2, <1>4, <2>2
      <3>2. tpsState'[t].queue = <<>>  BY <3>1 DEF NewStrategy
      <3>3. \A q \in Requests : Target(q) = t => allowedAt[q] = None
        BY <1>3, <2>2 DEF LetThrough
      <3>4. Recent(t)' = {} /\ \A b, e : AllowedIn(t, b, e)' = {}
        BY <1>2, <3>3, SameConf DEF Recent, AllowedIn
      <3>5. Remembered(t)'
        <4> DEFINE g == [x \in {} |-> 1]
        <4>1. g \in Injection({}, 1..Len(<<>>))  BY DEF Injection, IsInjective
        <4> HIDE DEF g
        <4> QED BY <3>2, <3>4, <4>1 DEF Remembered
      <3>6. <<>> \in Seq(Int) /\ Len(<<>>) = 0  OBVIOUS
      <3>7. Limit(t) /\ Len(<<>>) <= Rate(t)  BY <1>4, <2>2, <3>6 DEF Limit
      <3> QED BY <1>2, <3>2, <3>4, <3>5, <3>6, <3>7, SlideHolds
    <2> QED BY <2>1, <2>2
  <1> QED BY <1>6, <1>7 DEF SlideInv

\* IsAllowable: what the window still needs stays in the queue, and the
\* request takes a new place at its end.
LEMMA AllowSlide ==
  ASSUME StrategyInv, SlideInv, NEW r \in Requests, AllowSliding(r)
  PROVE  SlideInv'
PROOF
  <1>1. /\ at[r] = "allow" /\ conf.strategy = "slidingWindow"
        /\ UNCHANGED <<now, conf, current>>
    BY DEF AllowSliding
  <1>2. PICK T \in Targets : T = Target(r)  BY TargetType
  <1>3. /\ tpsState[T] # None /\ tpsState[T] \in Strategy /\ Limit(T) /\ now \in Int
        /\ Rate(T) \in Nat /\ Interval(T) \in Nat
    BY <1>1, <1>2, AskedStrategy DEF Limit
  <1>4. PICK s \in Seq(Int) : s = tpsState[T].queue  BY <1>3 DEF Strategy
  <1>5. PICK q, k : \E ok \in BOOLEAN :
          /\ Slides(r, s, q, k, ok)
          /\ SetState(r, [tpsState[T] EXCEPT !.queue = IF ok THEN Append(q, now) ELSE q])
          /\ Answer(r, ok, now)
    BY <1>2, <1>4, SlidingCuts
  <1>6. PICK ok \in BOOLEAN :
          /\ Slides(r, s, q, k, ok)
          /\ SetState(r, [tpsState[T] EXCEPT !.queue = IF ok THEN Append(q, now) ELSE q])
          /\ Answer(r, ok, now)
    BY <1>5
  <1>7. /\ q \in Seq(Int) /\ k \in 0..Len(s) /\ Len(q) = Len(s) - k
        /\ \A i \in 1..Len(q) : q[i] = s[i + k]
        /\ \A i \in 1..k : s[i] < now - Interval(T)
        /\ ok <=> Len(q) < Rate(T)
    BY <1>2, <1>6 DEF Slides
  <1>8. PICK z \in Seq(Int) :
          /\ z = IF ok THEN Append(q, now) ELSE q
          /\ tpsState' = [tpsState EXCEPT ![T] = [tpsState[T] EXCEPT !.queue = z]]
    <2>1. (IF ok THEN Append(q, now) ELSE q) \in Seq(Int)  BY <1>3, <1>7
    <2> QED BY <1>2, <1>6, <2>1 DEF SetState
  <1>9. [tpsState[T] EXCEPT !.queue = z] \in Strategy  BY <1>3, <1>8 DEF Strategy
  <1>10. /\ tpsState'[T].queue = z /\ tpsState'[T] # None
         /\ \A t \in Targets : t # T => tpsState'[t] = tpsState[t]
    <2>1. tpsState'[T] = [tpsState[T] EXCEPT !.queue = z]
          /\ \A t \in Targets : t # T => tpsState'[t] = tpsState[t]
      BY <1>8 DEF StrategyInv, StrategyTypeOK
    <2>2. [tpsState[T] EXCEPT !.queue = z].queue = z  BY <1>3 DEF Strategy
    <2> QED BY <1>9, <2>1, <2>2, ProviderAssumption
  <1>11. \A x \in Requests : allowedAt'[x] = IF ok /\ x = r THEN now ELSE allowedAt[x]
    <2>1. allowedAt' = IF ok THEN [allowedAt EXCEPT ![r] = now] ELSE allowedAt
      BY <1>6 DEF Answer
    <2> QED BY <2>1 DEF StrategyInv, StrategyTypeOK
  <1>12. (\A x \in Requests : LetThrough(x)) /\ (\A t \in Targets : Slide(t))
    BY <1>1 DEF SlideInv
  <1>13. ASSUME NEW x \in Requests PROVE LetThrough(x)'
    <2>1. LetThrough(x) /\ Target(x) \in Targets /\ Target(x)' = Target(x)
      BY <1>1, <1>12, TargetType, SameConf
    <2>2. tpsState[Target(x)] # None => tpsState'[Target(x)] # None
      BY <1>10, <2>1
    <2>3. CASE ok /\ x = r
      BY <1>1, <1>2, <1>3, <1>10, <1>11, <2>1, <2>3 DEF LetThrough
    <2>4. CASE ~(ok /\ x = r)  BY <1>1, <1>11, <2>1, <2>2, <2>4 DEF LetThrough
    <2> QED BY <2>3, <2>4
  <1>14. ASSUME NEW t \in Targets, t # T PROVE Slide(t)'
    <2>1. tpsState'[t] = tpsState[t] /\ Slide(t)  BY <1>10, <1>12, <1>14
    <2>2. \A x \in Requests : Target(x) = t => allowedAt'[x] = allowedAt[x]
      BY <1>2, <1>11, <1>14
    <2> QED BY <1>1, <2>1, <2>2, SlideKept
  <1>15. Slide(T)'
    <2>1. PICK f \in Injection(Recent(T), 1..Len(s)) :
            \A x \in Recent(T) : s[f[x]] = allowedAt[x]
      BY <1>3, <1>4, <1>12 DEF Slide, Remembered
    <2>2. Len(s) <= Rate(T) /\ Len(s) \in Nat /\ Len(q) \in Nat
      BY <1>3, <1>4, <1>7, <1>12 DEF Slide
    <2>3. Len(z) <= Rate(T) /\ (ok => Len(z) = Len(q) + 1 /\ z[Len(q) + 1] = now)
          /\ (~ok => z = q) /\ \A i \in 1..Len(q) : z[i] = q[i]
      BY <1>3, <1>7, <1>8, <2>2
    <2>4. ASSUME NEW x \in Recent(T)
          PROVE  /\ f[x] \in 1..Len(s) /\ f[x] - k \in 1..Len(q)
                 /\ q[f[x] - k] = allowedAt[x]
      <3>1. f[x] \in 1..Len(s) /\ s[f[x]] = allowedAt[x]  BY <2>1 DEF Injection
      <3>2. allowedAt[x] \in Int /\ now - Interval(T) <= allowedAt[x]
        BY DEF Recent, StrategyInv, StrategyTypeOK
      <3>3. f[x] \notin 1..k  BY <1>3, <1>7, <3>1, <3>2
      <3>4. f[x] - k \in 1..Len(q)  BY <1>7, <2>2, <3>1, <3>3
      <3>5. f[x] - k + k = f[x]  BY <1>7, <2>2, <3>1
      <3> QED BY <1>7, <3>1, <3>4, <3>5
    <2>5. \A x \in Recent(T)' : ~(ok /\ x = r) => x \in Recent(T) /\ allowedAt'[x] = allowedAt[x]
      BY <1>1, <1>11, SameConf DEF Recent
    <2>6. Remembered(T)'
      <3> DEFINE g == [x \in Recent(T)' |-> IF ok /\ x = r THEN Len(q) + 1 ELSE f[x] - k]
      <3>1. g \in [Recent(T)' -> 1..Len(z)]
        <4> SUFFICES ASSUME NEW x \in Recent(T)'
                     PROVE  (IF ok /\ x = r THEN Len(q) + 1 ELSE f[x] - k) \in 1..Len(z)
          OBVIOUS
        <4>1. CASE ok /\ x = r  BY <2>2, <2>3, <4>1
        <4>2. CASE ~(ok /\ x = r)  BY <2>2, <2>3, <2>4, <2>5, <4>2
        <4> QED BY <4>1, <4>2
      <3>2. ASSUME NEW x \in Recent(T)', NEW y \in Recent(T)', g[x] = g[y] PROVE x = y
        <4>1. \A a, b \in Recent(T) : f[a] = f[b] => a = b
          BY <2>1 DEF Injection, IsInjective
        <4>2. CASE ok /\ x = r  BY <2>2, <2>4, <2>5, <3>2, <4>2
        <4>3. CASE ok /\ y = r  BY <2>2, <2>4, <2>5, <3>2, <4>3
        <4>4. CASE ~(ok /\ x = r) /\ ~(ok /\ y = r)
          <5>1. x \in Recent(T) /\ y \in Recent(T) /\ f[x] - k = f[y] - k
            BY <2>5, <3>2, <4>4
          <5>2. f[x] \in Int /\ f[y] \in Int /\ k \in Int  BY <1>7, <2>4, <5>1
          <5>3. f[x] = f[y]  BY <5>1, <5>2
          <5> QED BY <4>1, <5>1, <5>3
        <4> QED BY <4>2, <4>3, <4>4
      <3>3. ASSUME NEW x \in Recent(T)' PROVE z[g[x]] = allowedAt'[x]
        <4>1. x \in Requests  BY DEF Recent
        <4>2. CASE ok /\ x = r  BY <1>11, <2>3, <4>1, <4>2
        <4>3. CASE ~(ok /\ x = r)  BY <2>3, <2>4, <2>5, <4>3
        <4> QED BY <4>2, <4>3
      <3>4. DOMAIN g = Recent(T)'  OBVIOUS
      <3> HIDE DEF g
      <3>5. g \in Injection(Recent(T)', 1..Len(z))
        BY <3>1, <3>2, <3>4 DEF Injection, IsInjective
      <3> QED BY <1>10, <3>3, <3>5 DEF Remembered
    <2>7. ASSUME NEW e \in 0..now, e < now'
          PROVE  /\ AllowedIn(T, e - Interval(T), e)'
                      \subseteq AllowedIn(T, e - Interval(T), e)
                 /\ Cardinality(AllowedIn(T, e - Interval(T), e)) <= Rate(T)
      <3>1. \A x \in Requests : (ok /\ x = r) => ~(allowedAt'[x] <= e)
        BY <1>1, <1>3, <1>11, <2>7
      <3>2. Interval(T)' = Interval(T)  BY <1>1, SameConf
      <3>3. AllowedIn(T, e - Interval(T), e)' \subseteq AllowedIn(T, e - Interval(T), e)
        BY <1>1, <1>11, <3>1, <3>2, SameConf DEF AllowedIn
      <3> QED BY <1>3, <1>12, <3>3 DEF Slide
    <2> QED BY <1>1, <1>3, <1>8, <1>10, <2>3, <2>6, <2>7, SlideHolds
  <1> QED BY <1>13, <1>14, <1>15 DEF SlideInv

\* Every step keeps the invariant of the sliding window.
LEMMA SlideStep == StrategyInv /\ SlideInv /\ [Next]_vars => SlideInv'
PROOF
  <1> SUFFICES ASSUME StrategyInv, SlideInv, [Next]_vars PROVE SlideInv'  OBVIOUS
  <1>1. ASSUME UNCHANGED <<conf, allowedAt, tpsState>>, now' = now \/ now' = now + 1
        PROVE  SlideInv'
    <2> SUFFICES ASSUME conf.strategy = "slidingWindow" PROVE SlideInv'
      BY <1>1 DEF SlideInv
    <2>1. (\A r \in Requests : LetThrough(r)) /\ (\A t \in Targets : Slide(t))
      BY DEF SlideInv
    <2>2. \A t \in Targets : Slide(t)'  BY <1>1, <2>1, SlideKept
    <2>3. now \in Int /\ \A r \in Requests : allowedAt[r] # None => allowedAt[r] \in Int
      BY DEF StrategyInv, StrategyTypeOK
    <2>4. \A r \in Requests : Target(r)' = Target(r)  BY <1>1, SameConf
    <2>5. \A r \in Requests : LetThrough(r)'
      BY <1>1, <2>1, <2>3, <2>4 DEF LetThrough
    <2> QED BY <2>2, <2>5 DEF SlideInv
  <1>2. ASSUME NEW r \in Requests, OnMessage(r) \/ Serve(r) \/ ProxyInvoke(r)
        PROVE  SlideInv'
    <2>1. CASE \/ OnMessage(r) \/ DoHandleRequest(r) \/ Reply(r) \/ ProxyInvoke(r)
               \/ TpsPass(r) \/ TpsPanic(r) \/ TpsFound(r)
               \/ ExecuteUncounted(r) \/ Increase(r) \/ Decrease(r)
               \/ ShutdownInvoke(r) \/ OnResponse(r)
      BY <1>1, <2>1, OtherMoves
    <2>2. CASE TpsCreate(r)  BY <1>1, <2>2 DEF TpsCreate
    <2>3. CASE AllowSliding(r)  BY <2>3, AllowSlide
    <2>4. CASE TpsStore(r) /\ conf.strategy = "slidingWindow"  BY <2>4, StoreSlide
    <2>5. CASE UNCHANGED conf /\ conf.strategy # "slidingWindow"  BY <2>5 DEF SlideInv
    <2>6. CASE AllowThreadSafe(r)  BY <2>5, <2>6 DEF AllowThreadSafe
    <2>7. CASE FixedRead(r) \/ FixedTimestamp(r) \/ FixedCount(r) \/ FixedAdd(r)
      <3>1. conf.strategy = "fixedWindow" /\ UNCHANGED conf
        BY <2>7 DEF FixedRead, FixedTimestamp, FixedCount, FixedAdd, StrategyInv, Busy
      <3> QED BY <2>5, <3>1
    <2>8. CASE TpsStore(r)  BY <2>4, <2>5, <2>8 DEF TpsStore
    <2> QED BY <1>2, <2>1, <2>2, <2>3, <2>6, <2>7, <2>8 DEF Serve
  <1>3. CASE \/ GracefulShutdownInit \/ Signal \/ BeforeShutdown \/ ExitTimeout \/ Tick
             \/ UNCHANGED vars
    BY <1>1, <1>3, ElseMoves
  <1> QED BY <1>2, <1>3 DEF Next

-----------------------------------------------------------------------------
(* The shutdown.                                                           *)

ShutdownTypeOK ==
  /\ now \in Int /\ res \in [Requests -> Results] /\ replied \in [Requests -> BOOLEAN]
  /\ activeCount \in Int
  /\ shutdownConfig \in [Filters -> BOOLEAN]
  /\ exported \in BOOLEAN /\ serviceMap \in BOOLEAN /\ serving \in BOOLEAN
  /\ phase \in Phases /\ since \in Int /\ exitAt \in Int \cup {None}
  /\ RejectRequest \in BOOLEAN /\ exited \in BOOLEAN

\* The filter of the chain is never given the configuration, and so never
\* says that the requests are finished.
Unconfigured == ~shutdownConfig["chain"] /\ RequestsFinished = FALSE

ShutdownInv == ShutdownTypeOK /\ Unconfigured /\ conf \in Confs

\* The result and the answer of a request, and what pshutdown counts.
LEMMA ServeShutdown ==
  ASSUME ShutdownInv, NEW r \in Requests, OnMessage(r) \/ Serve(r) \/ ProxyInvoke(r)
  PROVE  ShutdownInv'
PROOF
  <1> USE DEF ShutdownInv, ShutdownTypeOK, Unconfigured
  <1>1. UNCHANGED <<now, conf, serviceVars, phaseVars, shutdownConfig>>
    BY DEF Serve, OnMessage, DoHandleRequest, Reply, ProxyInvoke, TpsPass, TpsPanic,
           TpsFound, TpsCreate, TpsStore, AllowThreadSafe, AllowSliding, FixedRead,
           FixedTimestamp, FixedCount, FixedAdd, ExecuteUncounted, Increase, Decrease,
           ShutdownInvoke, OnResponse, shutdownFilterVars
  <1>2. res' \in [Requests -> Results]
    <2>1. res' = res \/ \E v \in Results : res' = [res EXCEPT ![r] = v]
      BY DEF Serve, OnMessage, DoHandleRequest, Reply, ProxyInvoke, TpsPass, TpsPanic,
             TpsFound, TpsCreate, TpsStore, AllowThreadSafe, AllowSliding, FixedRead,
             FixedTimestamp, FixedCount, FixedAdd, ExecuteUncounted, Increase, Decrease,
             ShutdownInvoke, OnResponse, Finish, Answer, Results
    <2> QED BY <2>1
  <1>3. replied' \in [Requests -> BOOLEAN]
    <2>1. replied' = replied \/ \E v \in BOOLEAN : replied' = [replied EXCEPT ![r] = v]
      BY DEF Serve, OnMessage, DoHandleRequest, Reply, ProxyInvoke, TpsPass, TpsPanic,
             TpsFound, TpsCreate, TpsStore, AllowThreadSafe, AllowSliding, FixedRead,
             FixedTimestamp, FixedCount, FixedAdd, ExecuteUncounted, Increase, Decrease,
             ShutdownInvoke, OnResponse
    <2> QED BY <2>1
  <1>4. activeCount' \in Int /\ RequestsFinished' = FALSE
    <2>1. CASE OnResponse(r)  BY <2>1 DEF OnResponse, RejectNewRequest
    <2>2. CASE ShutdownInvoke(r)  BY <2>2 DEF ShutdownInvoke, RejectNewRequest
    <2>3. CASE UNCHANGED shutdownFilterVars  BY <2>3 DEF shutdownFilterVars
    <2> QED
      BY <2>1, <2>2, <2>3
      DEF Serve, OnMessage, DoHandleRequest, Reply, ProxyInvoke, TpsPass, TpsPanic,
          TpsFound, TpsCreate, TpsStore, AllowThreadSafe, AllowSliding, FixedRead,
          FixedTimestamp, FixedCount, FixedAdd, ExecuteUncounted, Increase, Decrease
  <1> QED BY <1>1, <1>2, <1>3, <1>4 DEF serviceVars, phaseVars

\* The phases of the shutdown, and the clock.
LEMMA ElseShutdown ==
  ASSUME ShutdownInv,
         \/ GracefulShutdownInit \/ Signal \/ BeforeShutdown \/ ExitTimeout \/ Tick
         \/ UNCHANGED vars
  PROVE  ShutdownInv'
PROOF
  <1> USE DEF ShutdownInv, ShutdownTypeOK, Unconfigured
  <1>1. UNCHANGED <<conf, res, replied>>  BY ElseMoves
  <1>2. now' \in Int  BY ElseMoves
  <1>3. CASE GracefulShutdownInit
    <2>1. shutdownConfig' \in [Filters -> BOOLEAN] /\ ~shutdownConfig'["chain"]
      BY <1>3 DEF GracefulShutdownInit, Set, Filters
    <2> QED BY <1>1, <1>2, <1>3, <2>1 DEF GracefulShutdownInit, Enter, Phases, serviceVars
  <1>4. CASE Signal
    <2>1. exitAt' \in Int  BY <1>4, ProviderAssumption DEF Signal
    <2> QED
      BY <1>1, <1>2, <1>4, <2>1
      DEF Signal, Enter, Phases, serviceVars, shutdownFilterVars
  <1>5. CASE BeforeShutdown
    <2>1. conf.shutdown \in BOOLEAN  BY ProviderAssumption DEF Conf
    <2>2. CASE AcceptEnds
      BY <1>1, <1>2, <2>1, <2>2
      DEF AcceptEnds, Enter, Phases, serviceVars, shutdownFilterVars
    <2>3. CASE RegistriesDestroyed \/ WaitEnds \/ Exit
      BY <1>1, <1>2, <2>3
      DEF RegistriesDestroyed, WaitEnds, Exit, Enter, Phases, serviceVars,
          shutdownFilterVars
    <2>4. CASE Unexport \/ UnRegister \/ Stop
      BY <1>1, <1>2, <2>4
      DEF Unexport, UnRegister, Stop, Enter, Phases, shutdownFilterVars
    <2> QED BY <1>5, <2>2, <2>3, <2>4 DEF BeforeShutdown
  <1>6. CASE ExitTimeout \/ Tick \/ UNCHANGED vars
    BY <1>1, <1>2, <1>6
    DEF ExitTimeout, Tick, vars, serviceVars, phaseVars, shutdownFilterVars
  <1> QED BY <1>3, <1>4, <1>5, <1>6

\* The initial state satisfies the invariant of the shutdown.
LEMMA ShutdownInit == Init => ShutdownInv
PROOF
  <1> SUFFICES ASSUME Init PROVE ShutdownInv  OBVIOUS
  <1>1. ShutdownTypeOK
    <2>1. now \in Int /\ activeCount \in Int /\ since \in Int  BY DEF Init
    <2>2. /\ replied \in [Requests -> BOOLEAN] /\ shutdownConfig \in [Filters -> BOOLEAN]
          /\ exported \in BOOLEAN /\ serviceMap \in BOOLEAN /\ serving \in BOOLEAN
          /\ RejectRequest \in BOOLEAN /\ exited \in BOOLEAN
      BY DEF Init
    <2>3. /\ res \in [Requests -> Results]
          /\ phase \in Phases /\ exitAt \in Int \cup {None}
      BY DEF Init, Results, Phases
    <2> QED BY <2>1, <2>2, <2>3 DEF ShutdownTypeOK
  <1>2. Unconfigured  BY DEF Init, Unconfigured, Filters
  <1> QED BY <1>1, <1>2 DEF ShutdownInv, Init

\* Every step keeps the invariant of the shutdown.
LEMMA ShutdownStep == ShutdownInv /\ [Next]_vars => ShutdownInv'
PROOF
  <1> SUFFICES ASSUME ShutdownInv, [Next]_vars PROVE ShutdownInv'  OBVIOUS
  <1>1. CASE \E r \in Requests : OnMessage(r) \/ Serve(r) \/ ProxyInvoke(r)
    BY <1>1, ServeShutdown
  <1>2. CASE \/ GracefulShutdownInit \/ Signal \/ BeforeShutdown \/ ExitTimeout \/ Tick
             \/ UNCHANGED vars
    BY <1>2, ElseShutdown
  <1> QED BY <1>1, <1>2 DEF Next

-----------------------------------------------------------------------------
(* The count of the shutdown filter.                                       *)

Active == InFlight \cup Panicked
ActiveStates == {"invoke", "response"}

\* A request that panicked in its implementation is past OnResponse.
PanicsLate == \A r \in Panicked : at[r] \in {"decrease", "reply", "done"}

ActiveInv ==
  /\ at \in [Requests -> States] /\ PanicsLate /\ ActiveExact

\* The requests that are counted are finitely many.
LEMMA ActiveFinite == IsFiniteSet(Active) /\ Cardinality(Active) \in Nat
PROOF
  <1>1. Active \subseteq Requests  BY DEF Active, InFlight, Panicked
  <1> QED BY <1>1, ProviderAssumption, FS_Subset, FS_CardinalityType

\* A step of a request outside the filter leaves the count as it is.
LEMMA ElsewhereActive ==
  ASSUME ShutdownInv, ActiveInv, NEW r \in Requests, NEW p \in States \ ActiveStates,
         at' = [at EXCEPT ![r] = p], at[r] \notin ActiveStates,
         \/ UNCHANGED res /\ (res[r] = "panic" => p \in {"reply", "done"})
         \/ /\ at[r] \notin {"decrease", "reply", "done"}
            /\ \E v \in Results \ {"panic"} : res' = [res EXCEPT ![r] = v],
         UNCHANGED activeCount
  PROVE  ActiveInv'
PROOF
  <1> USE DEF ActiveInv, ShutdownInv, ShutdownTypeOK, ActiveStates
  <1>1. at' \in [Requests -> States]  OBVIOUS
  <1>2. Panicked' = Panicked  BY DEF Panicked, PanicsLate
  <1>3. InFlight' = InFlight  BY DEF InFlight
  <1>4. PanicsLate'  BY <1>2 DEF PanicsLate, Panicked
  <1>5. ActiveExact'  BY <1>2, <1>3 DEF ActiveExact
  <1> QED BY <1>1, <1>4, <1>5

\* Invoke of the filter adds a request to those that are counted.
LEMMA InvokeActive ==
  ASSUME ShutdownInv, ActiveInv, NEW r \in Requests, ShutdownInvoke(r)
  PROVE  ActiveInv'
PROOF
  <1> USE DEF ActiveInv, ShutdownInv, ShutdownTypeOK
  <1>1. /\ at[r] = "pshutdown" /\ at' = [at EXCEPT ![r] = "invoke"]
        /\ UNCHANGED res /\ activeCount' = activeCount + 1
    BY DEF ShutdownInvoke, RejectNewRequest, Unconfigured, Go
  <1>2. at' \in [Requests -> States] /\ PanicsLate'
    BY <1>1 DEF States, PanicsLate, Panicked
  <1>3. Active' = Active \cup {r} /\ r \notin Active
    BY <1>1 DEF Active, InFlight, Panicked, PanicsLate
  <1>4. Cardinality(Active') = Cardinality(Active) + 1
    BY <1>3, ActiveFinite, FS_AddElement
  <1>5. ActiveExact'  BY <1>1, <1>4 DEF ActiveExact, Active
  <1> QED BY <1>2, <1>5

\* The implementation returns, or panics: the request stays counted.
LEMMA ProxyActive ==
  ASSUME ShutdownInv, ActiveInv, NEW r \in Requests, ProxyInvoke(r)
  PROVE  ActiveInv'
PROOF
  <1> USE DEF ActiveInv, ShutdownInv, ShutdownTypeOK
  <1>1. /\ at[r] = "invoke" /\ UNCHANGED activeCount
        /\ \/ at' = [at EXCEPT ![r] = "response"]
              /\ \E v \in {"value", "error"} : res' = [res EXCEPT ![r] = v]
           \/ at' = [at EXCEPT ![r] = "decrease"] /\ res' = [res EXCEPT ![r] = "panic"]
    BY DEF ProxyInvoke, Finish, Go, shutdownFilterVars
  <1>2. at' \in [Requests -> States]  BY <1>1 DEF States
  <1>3. PanicsLate'  BY <1>1 DEF PanicsLate, Panicked
  <1>4. Active' = Active  BY <1>1 DEF Active, InFlight, Panicked, PanicsLate
  <1>5. ActiveExact'  BY <1>1, <1>4 DEF ActiveExact, Active
  <1> QED BY <1>2, <1>3, <1>5

\* OnResponse subtracts a request that was counted.
LEMMA ResponseActive ==
  ASSUME ShutdownInv, ActiveInv, NEW r \in Requests, OnResponse(r)
  PROVE  ActiveInv'
PROOF
  <1> USE DEF ActiveInv, ShutdownInv, ShutdownTypeOK
  <1>1. /\ at[r] = "response" /\ at' = [at EXCEPT ![r] = "decrease"]
        /\ UNCHANGED res /\ activeCount' = activeCount - 1
    BY DEF OnResponse, Go
  <1>2. at' \in [Requests -> States] /\ PanicsLate'
    BY <1>1 DEF States, PanicsLate, Panicked
  <1>3. Active' = Active \ {r} /\ r \in Active
    BY <1>1 DEF Active, InFlight, Panicked, PanicsLate
  <1>4. Cardinality(Active') = Cardinality(Active) - 1
    BY <1>3, ActiveFinite, FS_RemoveElement
  <1>5. ActiveExact'  BY <1>1, <1>4 DEF ActiveExact, Active
  <1> QED BY <1>2, <1>5

\* The steps of a request outside the filter.
LEMMA ServeActive ==
  ASSUME ShutdownInv, ActiveInv, NEW r \in Requests, OnMessage(r) \/ Serve(r)
  PROVE  ActiveInv'
PROOF
  <1> DEFINE Early == States \ {"invoke", "response", "decrease", "reply", "done"}
             Elsewhere == States \ ActiveStates
  <1>1. CASE OnMessage(r) \/ DoHandleRequest(r)
    <2>1. /\ UNCHANGED activeCount /\ at[r] \in Early
          /\ \E p \in Elsewhere : at' = [at EXCEPT ![r] = p]
          /\ UNCHANGED res \/ res' = [res EXCEPT ![r] = "error"]
      BY <1>1
      DEF OnMessage, DoHandleRequest, Go, Finish, States, ActiveStates, shutdownFilterVars
    <2>2. res[r] # "panic"  BY <2>1 DEF ActiveInv, PanicsLate, Panicked
    <2> QED BY <2>1, <2>2, ElsewhereActive DEF Results, ActiveStates
  <1>2. CASE \/ TpsPass(r) \/ TpsPanic(r) \/ TpsFound(r) \/ TpsCreate(r) \/ TpsStore(r)
             \/ FixedRead(r) \/ FixedTimestamp(r) \/ FixedCount(r)
    <2>1. /\ UNCHANGED activeCount /\ at[r] \in Early
          /\ \E p \in Elsewhere : at' = [at EXCEPT ![r] = p]
          /\ UNCHANGED res \/ res' = [res EXCEPT ![r] = "misconfigured"]
      BY <1>2
      DEF TpsPass, TpsPanic, TpsFound, TpsCreate, TpsStore, FixedRead, FixedTimestamp,
          FixedCount, Go, Finish, States, ActiveStates, shutdownFilterVars
    <2>2. res[r] # "panic"  BY <2>1 DEF ActiveInv, PanicsLate, Panicked
    <2> QED BY <2>1, <2>2, ElsewhereActive DEF Results, ActiveStates
  <1>3. CASE AllowThreadSafe(r) \/ AllowSliding(r) \/ FixedAdd(r)
    <2>1. /\ UNCHANGED activeCount /\ at[r] \in Early
          /\ \E p \in Elsewhere : at' = [at EXCEPT ![r] = p]
          /\ UNCHANGED res \/ res' = [res EXCEPT ![r] = "rejected"]
      BY <1>3
      DEF AllowThreadSafe, AllowSliding, FixedAdd, Answer, Go, Finish, States,
          ActiveStates, shutdownFilterVars
    <2>2. res[r] # "panic"  BY <2>1 DEF ActiveInv, PanicsLate, Panicked
    <2> QED BY <2>1, <2>2, ElsewhereActive DEF Results, ActiveStates
  <1>4. CASE ExecuteUncounted(r) \/ Increase(r)
    <2>1. /\ UNCHANGED activeCount /\ at[r] \in Early
          /\ \E p \in Elsewhere : at' = [at EXCEPT ![r] = p]
          /\ UNCHANGED res \/ \E v \in {"empty", "rejected"} : res' = [res EXCEPT ![r] = v]
      BY <1>4
      DEF ExecuteUncounted, Increase, Go, Finish, States, ActiveStates, shutdownFilterVars
    <2>2. res[r] # "panic"  BY <2>1 DEF ActiveInv, PanicsLate, Panicked
    <2> QED BY <2>1, <2>2, ElsewhereActive DEF Results, ActiveStates
  <1>5. CASE Decrease(r) \/ Reply(r)
    <2>1. /\ UNCHANGED <<activeCount, res>> /\ at[r] \in {"decrease", "reply"}
          /\ \E p \in {"reply", "done"} : at' = [at EXCEPT ![r] = p]
      BY <1>5 DEF Decrease, Reply, Go, shutdownFilterVars
    <2> QED BY <2>1, ElsewhereActive DEF States, ActiveStates
  <1>6. CASE ShutdownInvoke(r) \/ OnResponse(r)  BY <1>6, InvokeActive, ResponseActive
  <1> QED BY <1>1, <1>2, <1>3, <1>4, <1>5, <1>6 DEF Serve

\* The initial state satisfies the invariant of the count.
LEMMA ActiveInit == Init => ActiveInv
PROOF
  <1> SUFFICES ASSUME Init PROVE ActiveInv  OBVIOUS
  <1>1. at \in [Requests -> States]  BY DEF Init, States
  <1>2. InFlight = {} /\ Panicked = {}
    BY ProviderAssumption DEF Init, InFlight, Panicked
  <1>3. Cardinality({}) = 0  BY FS_EmptySet
  <1>4. ActiveExact  BY <1>2, <1>3 DEF Init, ActiveExact
  <1> QED BY <1>1, <1>2, <1>4 DEF ActiveInv, PanicsLate

\* Every step keeps the invariant of the count.
LEMMA ActiveStep == ShutdownInv /\ ActiveInv /\ [Next]_vars => ActiveInv'
PROOF
  <1> SUFFICES ASSUME ShutdownInv, ActiveInv, [Next]_vars PROVE ActiveInv'  OBVIOUS
  <1>1. CASE \E r \in Requests : OnMessage(r) \/ Serve(r) \/ ProxyInvoke(r)
    BY <1>1, ServeActive, ProxyActive
  <1>2. CASE \/ GracefulShutdownInit \/ Signal \/ BeforeShutdown \/ ExitTimeout \/ Tick
             \/ UNCHANGED vars
    <2>1. UNCHANGED <<at, res, activeCount>>
      BY <1>2
      DEF GracefulShutdownInit, Signal, BeforeShutdown, RegistriesDestroyed, AcceptEnds,
          WaitEnds, Unexport, UnRegister, Stop, Exit, ExitTimeout, Tick, vars, requests,
          shutdownFilterVars
    <2> QED
      BY <2>1 DEF ActiveInv, PanicsLate, ActiveExact, InFlight, Panicked
  <1> QED BY <1>1, <1>2 DEF Next

\* activeCount of the shutdown filter is the number of the requests behind it
\* and of those whose implementation panicked: OnResponse runs once for every
\* request that Invoke counted and that did not panic, and for no other.
THEOREM ActiveCountDrifts == Spec => []ActiveExact
PROOF
  <1>1. ActiveInv => ActiveExact  BY DEF ActiveInv
  <1> QED
    BY ShutdownInit, ShutdownStep, ActiveInit, ActiveStep, <1>1, PTL DEF Spec

\* The initial state satisfies the invariant of the sliding window.
LEMMA SlideInit == Init => SlideInv
PROOF
  <1> SUFFICES ASSUME Init PROVE SlideInv  OBVIOUS
  <1>1. \A r \in Requests : LetThrough(r)  BY DEF Init, LetThrough
  <1>2. \A t \in Targets : Slide(t)  BY DEF Init, Slide
  <1> QED BY <1>1, <1>2 DEF SlideInv

\* Every variable of the provider keeps its type, concurrentCount is the number
\* of requests between increase and decrease, and the sliding window lets no
\* more than tps.limit.rate requests through in any stretch of time of length
\* tps.limit.interval, however many goroutines create and ask the strategy.
THEOREM ProviderInvariance == Spec => []ProviderInv
PROOF
  <1>1. ASSUME StrategyInv, SlideInv, ShutdownInv, ExecuteInv PROVE ProviderInv
    <2>1. TypeOK
      BY <1>1
      DEF StrategyInv, StrategyTypeOK, ShutdownInv, ShutdownTypeOK, Unconfigured,
          ExecuteInv, ExecuteTypeOK, TypeOK
    <2>2. ExecuteExact  BY <1>1 DEF ExecuteInv
    <2>3. SlidingWindowBound  BY <1>1 DEF SlideInv, Slide, SlidingWindowBound
    <2> QED BY <2>1, <2>2, <2>3 DEF ProviderInv
  <1> QED
    BY StrategyInit, StrategyStep, SlideInit, SlideStep, ShutdownInit, ShutdownStep,
       ExecuteInit, ExecuteStep, <1>1, PTL DEF Spec

=============================================================================
