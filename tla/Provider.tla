------------------------------ MODULE Provider ------------------------------
(***************************************************************************)
(* A provider of the dubbo protocol: the server's OnMessage, the exporter  *)
(* it looks up, the default filters that count or limit (tps, execute,     *)
(* pshutdown, in the order of DEFAULT_SERVICE_FILTERS), the implementation,*)
(* and the reply; and, beside the requests, the graceful shutdown that     *)
(* takes the service down in phases.                                       *)
(*                                                                         *)
(* Every request runs on a goroutine of its own.  Time is the integer      *)
(* clock now; the code's comparisons with it are kept.                     *)
(***************************************************************************)
EXTENDS Integers, FiniteSets, Sequences

CONSTANTS
  Requests, Methods,
  MethodOf,           \* the method each request calls
  TwoWay,             \* the requests that want an answer
  Service,            \* the service-level limit target, next to the methods
  Confs,              \* the configurations of the URL
  Unset, Invalid,     \* a parameter that is missing, or that is no number
  DefaultInterval,    \* DEFAULT_TPS_LIMIT_INTERVAL
  StepTimeout,        \* ShutdownConfig.GetStepTimeout
  TotalTimeout,       \* totalTimeout
  MaxTime, None

Targets == Methods \cup {Service}
Param == Int \cup {Unset, Invalid}
Strategies == {"none", "fixedWindow", "threadSafeFixedWindow", "slidingWindow"}
Conf == [strategy : Strategies, rate : [Targets -> Param],
         interval : [Targets -> Param], execute : [Targets -> Param],
         graceful : BOOLEAN,    \* the application calls GracefulShutdownInit
         shutdown : BOOLEAN]    \* rootConfig.Shutdown is not nil

\* The fields of the limit strategies that change.
Strategy == [count : Nat, timestamp : Int, queue : Seq(Int)]

ASSUME ProviderAssumption ==
  /\ IsFiniteSet(Requests)
  /\ Service \notin Methods
  /\ MethodOf \in [Requests -> Methods] /\ TwoWay \subseteq Requests
  /\ Confs \subseteq Conf
  /\ Unset \notin Int /\ Invalid \notin Int /\ Unset # Invalid
  /\ None \notin Int /\ None \notin Strategy /\ None # "panic"
  /\ DefaultInterval \in Int /\ StepTimeout \in Int /\ TotalTimeout \in Int

VARIABLES
  now, conf,
  at, res,                    \* of each request
  current,                    \* the time its IsAllowable or Create has read
  allowedAt,                  \* when tps let it through
  replied,                    \* its answer was written to the session
  tpsState,                   \* of each target: its limit strategy, or None
  executeState,               \* of each target: concurrentCount
  activeCount,                \* of the pshutdown filter
  shutdownConfig,             \* which filter objects hold the configuration
  exported, serviceMap, serving,
  phase, since,               \* of BeforeShutdown, and when it began
  exitAt,                     \* when the AfterFunc of the signal fires
  RejectRequest, RequestsFinished,
  exited

tpsVars == <<current, allowedAt, tpsState>>
shutdownFilterVars == <<activeCount, shutdownConfig, RequestsFinished>>
serviceVars == <<exported, serviceMap, serving>>
phaseVars == <<phase, since, exitAt, RejectRequest, exited>>
vars == <<now, conf, at, res, current, allowedAt, replied,
          tpsState, executeState, activeCount, shutdownConfig, exported, serviceMap,
          serving, phase, since, exitAt, RejectRequest, RequestsFinished, exited>>

\* extension.GetFilter makes a new Filter on every call: one is in the chain
\* of the service, another is the one GracefulShutdownInit configures.
Filters == {"chain", "init"}

Init ==
  /\ now = 0 /\ conf \in Confs
  /\ at = [r \in Requests |-> "idle"]
  /\ res = [r \in Requests |-> None]
  /\ current = [r \in Requests |-> None]
  /\ allowedAt = [r \in Requests |-> None]
  /\ replied = [r \in Requests |-> FALSE]
  /\ tpsState = [t \in Targets |-> None]
  /\ executeState = [t \in Targets |-> 0]
  /\ activeCount = 0
  /\ shutdownConfig = [f \in Filters |-> FALSE]
  /\ exported = TRUE /\ serviceMap = TRUE /\ serving = TRUE
  /\ phase = "running" /\ since = 0 /\ exitAt = None
  /\ RejectRequest = FALSE /\ RequestsFinished = FALSE
  /\ exited = FALSE

-----------------------------------------------------------------------------
(* The server.                                                             *)

Go(r, p) == at' = [at EXCEPT ![r] = p]
Finish(r, p, v) == Go(r, p) /\ res' = [res EXCEPT ![r] = v]

\* OnMessage of a request that is no heartbeat.
OnMessage(r) ==
  /\ at[r] = "idle" /\ serving
  /\ Go(r, "handle")
  /\ UNCHANGED <<now, conf, res, replied, tpsVars, executeState, shutdownFilterVars,
                 serviceVars, phaseVars>>

\* doHandleRequest looks the exporter up and calls its invoker: the chain.
DoHandleRequest(r) ==
  /\ at[r] = "handle"
  /\ IF exported THEN Go(r, "tps") /\ UNCHANGED res ELSE Finish(r, "reply", "error")
  /\ UNCHANGED <<now, conf, replied, tpsVars, executeState, shutdownFilterVars,
                 serviceVars, phaseVars>>

\* A filter or the implementation of the request panicked.
Panics == {"misconfigured", "panic"}

\* The end of OnMessage: a two-way request is answered, if the session is
\* still there.  The recover of a panic writes a Response with no Result, on
\* which EncodeResponse panics in turn, so that nothing is sent.
Reply(r) ==
  /\ at[r] = "reply"
  /\ Go(r, "done")
  /\ replied' = [replied EXCEPT ![r] = r \in TwoWay /\ serving /\ res[r] \notin Panics]
  /\ UNCHANGED <<now, conf, res, tpsVars, executeState,
                 shutdownFilterVars, serviceVars, phaseVars>>

-----------------------------------------------------------------------------
(* The tps filter, MethodServiceTpsLimiter and the limit strategies.       *)

\* getLimitConfig.
LimitConfig(param, m, default) ==
  IF param[m] # Unset THEN param[m]
  ELSE IF param[Service] # Unset THEN param[Service] ELSE default

TpsTarget(m) ==
  IF conf.rate[m] # Unset \/ conf.interval[m] # Unset THEN m ELSE Service
Target(r) == TpsTarget(MethodOf[r])
Rate(m) == LimitConfig(conf.rate, m, -1)
Interval(m) == LimitConfig(conf.interval, m, DefaultInterval)
Limited(m) == Rate(m) # Invalid /\ Rate(m) >= 0
Positive(v) == v # Invalid /\ v > 0

\* No limiter is configured, or the target is not to be limited.
TpsPass(r) ==
  /\ at[r] = "tps"
  /\ \/ conf.strategy = "none"
     \/ /\ tpsState[Target(r)] = None
        /\ Rate(MethodOf[r]) # Invalid /\ ~Limited(MethodOf[r])
  /\ Go(r, "execute")
  /\ UNCHANGED <<now, conf, res, replied, tpsVars, executeState, shutdownFilterVars,
                 serviceVars, phaseVars>>

\* The rate or the interval is no number, or the interval is not positive.
TpsPanic(r) ==
  /\ at[r] = "tps"
  /\ conf.strategy # "none" /\ tpsState[Target(r)] = None
  /\ \/ Rate(MethodOf[r]) = Invalid
     \/ Limited(MethodOf[r]) /\ ~Positive(Interval(MethodOf[r]))
  /\ Finish(r, "reply", "misconfigured")
  /\ UNCHANGED <<now, conf, replied, tpsVars, executeState, shutdownFilterVars,
                 serviceVars, phaseVars>>

\* tpsState.Load finds the strategy.
TpsFound(r) ==
  /\ at[r] = "tps"
  /\ conf.strategy # "none" /\ tpsState[Target(r)] # None
  /\ Go(r, "allow")
  /\ UNCHANGED <<now, conf, res, replied, tpsVars, executeState, shutdownFilterVars,
                 serviceVars, phaseVars>>

\* tpsState.Load finds none: Create makes one, of the current time.
TpsCreate(r) ==
  /\ at[r] = "tps"
  /\ conf.strategy # "none" /\ tpsState[Target(r)] = None
  /\ Limited(MethodOf[r]) /\ Positive(Interval(MethodOf[r]))
  /\ Go(r, "store")
  /\ current' = [current EXCEPT ![r] = now]
  /\ UNCHANGED <<now, conf, res, replied, allowedAt, tpsState, executeState,
                 shutdownFilterVars, serviceVars, phaseVars>>

NewStrategy(t) == [count |-> 0, timestamp |-> t, queue |-> <<>>]

\* Mutant: Store, where the code has LoadOrStore.
TpsStoreAlways(r) ==
  /\ at[r] = "store"
  /\ Go(r, "allow")
  /\ tpsState' = [tpsState EXCEPT ![Target(r)] = NewStrategy(current[r])]
  /\ current' = [current EXCEPT ![r] = None]
  /\ UNCHANGED <<now, conf, res, replied, allowedAt, executeState, shutdownFilterVars,
                 serviceVars, phaseVars>>

\* tpsState.LoadOrStore keeps the strategy of whoever came first.
TpsStore(r) ==
  /\ at[r] = "store"
  /\ Go(r, "allow")
  /\ tpsState' = IF tpsState[Target(r)] # None THEN tpsState
                 ELSE [tpsState EXCEPT ![Target(r)] = NewStrategy(current[r])]
  /\ current' = [current EXCEPT ![r] = None]
  /\ UNCHANGED <<now, conf, res, replied, allowedAt, executeState,
                 shutdownFilterVars, serviceVars, phaseVars>>


\* What the filter does with the strategy's answer.
Answer(r, allow, time) ==
  IF allow
    THEN /\ Go(r, "execute") /\ UNCHANGED res
         /\ allowedAt' = [allowedAt EXCEPT ![r] = time]
    ELSE Finish(r, "reply", "rejected") /\ UNCHANGED allowedAt

SetState(r, s) == tpsState' = [tpsState EXCEPT ![Target(r)] = s]

Expired(s, m, time) == s.timestamp + Interval(m) < time

\* IsAllowable of ThreadSafeFixedWindowTpsLimitStrategy, under its mutex.
AllowThreadSafe(r) ==
  LET s == tpsState[Target(r)]
      w == IF Expired(s, MethodOf[r], now)
             THEN [s EXCEPT !.timestamp = now, !.count = 1]
             ELSE [s EXCEPT !.count = @ + 1] IN
  /\ at[r] = "allow" /\ conf.strategy = "threadSafeFixedWindow"
  /\ SetState(r, w)
  /\ Answer(r, w.count <= Rate(MethodOf[r]), now)
  /\ UNCHANGED <<now, conf, replied, current, executeState, shutdownFilterVars,
                 serviceVars, phaseVars>>

\* Mutant: <= where the code has <.
WithinLess(q, boundary) ==
  LET out == {n \in 1..Len(q) : \A i \in 1..n : q[i] <= boundary} IN
  SubSeq(q, Cardinality(out) + 1, Len(q))

\* The queue without the leading elements that are out of the window.
Within(q, boundary) ==
  LET out == {n \in 1..Len(q) : \A i \in 1..n : q[i] < boundary} IN
  SubSeq(q, Cardinality(out) + 1, Len(q))

\* IsAllowable of SlidingWindowTpsLimitStrategy, under its mutex.
AllowSliding(r) ==
  LET s == tpsState[Target(r)]
      q == IF Len(s.queue) < Rate(MethodOf[r]) THEN s.queue
           ELSE Within(s.queue, now - Interval(MethodOf[r]))
      ok == Len(q) < Rate(MethodOf[r]) IN
  /\ at[r] = "allow" /\ conf.strategy = "slidingWindow"
  /\ SetState(r, [s EXCEPT !.queue = IF ok THEN Append(q, now) ELSE q])
  /\ Answer(r, ok, now)
  /\ UNCHANGED <<now, conf, replied, current, executeState, shutdownFilterVars,
                 serviceVars, phaseVars>>

\* IsAllowable of FixedWindowTpsLimitStrategy, which takes no lock: it reads
\* the time and the timestamp, may write the timestamp, then the count, and
\* adds to the count.
FixedRead(r) ==
  /\ at[r] = "allow" /\ conf.strategy = "fixedWindow"
  /\ current' = [current EXCEPT ![r] = now]
  /\ Go(r, IF Expired(tpsState[Target(r)], MethodOf[r], now) THEN "timestamp" ELSE "add")
  /\ UNCHANGED <<now, conf, res, replied, allowedAt, tpsState, executeState,
                 shutdownFilterVars, serviceVars, phaseVars>>

FixedTimestamp(r) ==
  /\ at[r] = "timestamp"
  /\ SetState(r, [tpsState[Target(r)] EXCEPT !.timestamp = current[r]])
  /\ Go(r, "count")
  /\ UNCHANGED <<now, conf, res, replied, current, allowedAt, executeState,
                 shutdownFilterVars, serviceVars, phaseVars>>

FixedCount(r) ==
  /\ at[r] = "count"
  /\ SetState(r, [tpsState[Target(r)] EXCEPT !.count = 0])
  /\ Go(r, "add")
  /\ UNCHANGED <<now, conf, res, replied, current, allowedAt, executeState,
                 shutdownFilterVars, serviceVars, phaseVars>>

FixedAdd(r) ==
  LET n == tpsState[Target(r)].count + 1 IN
  /\ at[r] = "add"
  /\ SetState(r, [tpsState[Target(r)] EXCEPT !.count = n])
  /\ Answer(r, n <= Rate(MethodOf[r]), current[r])
  /\ current' = [current EXCEPT ![r] = None]
  /\ UNCHANGED <<now, conf, replied, executeState, shutdownFilterVars,
                 serviceVars, phaseVars>>

-----------------------------------------------------------------------------
(* The execute filter.                                                     *)

ExecuteTarget(m) == IF conf.execute[m] # Unset THEN m ELSE Service
ExecuteLimit(m) == LimitConfig(conf.execute, m, -1)
Counted(m) == ExecuteLimit(m) # Invalid /\ ExecuteLimit(m) >= 0

\* The limit is no number, and the result is empty; or it is negative, and
\* nothing is counted.
ExecuteUncounted(r) ==
  LET limit == ExecuteLimit(MethodOf[r]) IN
  /\ at[r] = "execute"
  /\ \/ limit = Invalid /\ Finish(r, "reply", "empty")
     \/ limit # Invalid /\ limit < 0 /\ Go(r, "pshutdown") /\ UNCHANGED res
  /\ UNCHANGED <<now, conf, replied, tpsVars, executeState, shutdownFilterVars,
                 serviceVars, phaseVars>>

\* Mutant: the comparison with the count from before the increase.
IncreaseAfter(r) ==
  LET t == ExecuteTarget(MethodOf[r]) IN
  /\ at[r] = "execute"
  /\ Counted(MethodOf[r])
  /\ executeState' = [executeState EXCEPT ![t] = @ + 1]
  /\ IF executeState[t] > ExecuteLimit(MethodOf[r])
       THEN Finish(r, "decrease", "rejected")
       ELSE Go(r, "pshutdown") /\ UNCHANGED res
  /\ UNCHANGED <<now, conf, replied, tpsVars, shutdownFilterVars, serviceVars, phaseVars>>

\* increase, and the comparison of what it returned with the limit.
Increase(r) ==
  LET t == ExecuteTarget(MethodOf[r]) IN
  /\ at[r] = "execute"
  /\ Counted(MethodOf[r])
  /\ executeState' = [executeState EXCEPT ![t] = @ + 1]
  /\ IF executeState[t] + 1 > ExecuteLimit(MethodOf[r])
       THEN Finish(r, "decrease", "rejected")
       ELSE Go(r, "pshutdown") /\ UNCHANGED res
  /\ UNCHANGED <<now, conf, replied, tpsVars, shutdownFilterVars, serviceVars, phaseVars>>

\* The deferred decrease: it runs on every way out, a panic included.
Decrease(r) ==
  LET t == ExecuteTarget(MethodOf[r]) IN
  /\ at[r] = "decrease"
  /\ executeState' = IF Counted(MethodOf[r]) THEN [executeState EXCEPT ![t] = @ - 1]
                     ELSE executeState
  /\ Go(r, "reply")
  /\ UNCHANGED <<now, conf, res, replied, tpsVars, shutdownFilterVars, serviceVars,
                 phaseVars>>

-----------------------------------------------------------------------------
(* The pshutdown filter, and the implementation behind it.                 *)

\* rejectNewRequest of the filter in the chain.
RejectNewRequest == shutdownConfig["chain"] /\ RejectRequest

ShutdownInvoke(r) ==
  /\ at[r] = "pshutdown"
  /\ IF RejectNewRequest
       THEN Finish(r, "response", "rejected") /\ UNCHANGED activeCount
       ELSE /\ Go(r, "invoke") /\ UNCHANGED res
            /\ activeCount' = activeCount + 1
  /\ UNCHANGED <<now, conf, replied, tpsVars, executeState, shutdownConfig,
                 RequestsFinished, serviceVars, phaseVars>>

\* ProxyInvoker.Invoke: the service is looked up in ServiceMap, and its method
\* returns a value or an error, or panics; a panic skips OnResponse.
ProxyInvoke(r) ==
  /\ at[r] = "invoke"
  /\ \/ serviceMap /\ Finish(r, "response", "value")
     \/ Finish(r, "response", "error")
     \/ serviceMap /\ Finish(r, "decrease", "panic")
  /\ UNCHANGED <<now, conf, replied, tpsVars, executeState, shutdownFilterVars,
                 serviceVars, phaseVars>>

\* Mutant: the response of a failed call is not counted.
OnResponseOfValue(r) ==
  /\ at[r] = "response"
  /\ activeCount' = IF res[r] = "error" THEN activeCount ELSE activeCount - 1
  /\ RequestsFinished' = \/ RequestsFinished
                         \/ RejectNewRequest /\ activeCount - 1 <= 0
  /\ Go(r, "decrease")
  /\ UNCHANGED <<now, conf, res, replied, tpsVars, executeState, shutdownConfig,
                 serviceVars, phaseVars>>

\* OnResponse, which FilterInvoker.Invoke calls with every result.
OnResponse(r) ==
  /\ at[r] = "response"
  /\ activeCount' = activeCount - 1
  /\ RequestsFinished' = \/ RequestsFinished
                         \/ RejectNewRequest /\ activeCount - 1 <= 0
  /\ Go(r, "decrease")
  /\ UNCHANGED <<now, conf, res, replied, tpsVars, executeState, shutdownConfig,
                 serviceVars, phaseVars>>

-----------------------------------------------------------------------------
(* The graceful shutdown.                                                  *)

requests == <<at, res, replied, tpsVars, executeState>>

Enter(p) == phase' = p /\ since' = now

\* Filter.Set assigns only when the type assertion fails, and then its nil.
Set(f, typeOK) == shutdownConfig' = [shutdownConfig EXCEPT ![f] = @ /\ typeOK]

\* GracefulShutdownInit sets the configuration on the filter it gets.
GracefulShutdownInit ==
  /\ phase = "running" /\ conf.graceful
  /\ Enter("listening")
  /\ IF conf.shutdown THEN Set("init", TRUE) ELSE UNCHANGED shutdownConfig
  /\ UNCHANGED <<now, conf, requests, activeCount, RequestsFinished, serviceVars,
                 exitAt, RejectRequest, exited>>

\* Mutant: no AfterFunc.
SignalUnarmed ==
  /\ phase = "listening"
  /\ Enter("registries")
  /\ UNCHANGED <<now, conf, requests, shutdownFilterVars, serviceVars, exitAt,
                 RejectRequest, exited>>

\* A signal: the AfterFunc is armed, and BeforeShutdown begins with
\* destroyAllRegistries.  (MaxTime bounds the clock.)
Signal ==
  /\ phase = "listening"
  /\ now + TotalTimeout <= MaxTime
  /\ Enter("registries")
  /\ exitAt' = now + TotalTimeout
  /\ UNCHANGED <<now, conf, requests, shutdownFilterVars, serviceVars, RejectRequest,
                 exited>>

\* destroyAllRegistries has returned; waitAndAcceptNewRequests begins.
RegistriesDestroyed ==
  /\ phase = "registries"
  /\ Enter("accepting")
  /\ UNCHANGED <<now, conf, requests, shutdownFilterVars, serviceVars, exitAt,
                 RejectRequest, exited>>

\* The sleep is over; waitForSendingAndReceivingRequests begins.
AcceptEnds ==
  /\ phase = "accepting"
  /\ ~conf.shutdown \/ now >= since + StepTimeout
  /\ Enter("waiting")
  /\ RejectRequest' = conf.shutdown
  /\ UNCHANGED <<now, conf, requests, shutdownFilterVars, serviceVars, exitAt, exited>>

\* waitingProcessedTimeout has seen its deadline, or RequestsFinished.
WaitEnds ==
  /\ phase = "waiting"
  /\ ~conf.shutdown \/ now >= since + StepTimeout \/ RequestsFinished
  /\ Enter("unexport")
  /\ UNCHANGED <<now, conf, requests, shutdownFilterVars, serviceVars, exitAt,
                 RejectRequest, exited>>

\* destroyProtocols: BaseProtocol.Destroy unexports the exporter, which then
\* leaves ServiceMap; Destroy of the dubbo protocol stops the server.
Unexport ==
  /\ phase = "unexport"
  /\ Enter("unregister")
  /\ exported' = FALSE
  /\ UNCHANGED <<now, conf, requests, shutdownFilterVars, serviceMap, serving, exitAt,
                 RejectRequest, exited>>

UnRegister ==
  /\ phase = "unregister"
  /\ Enter("stop")
  /\ serviceMap' = FALSE
  /\ UNCHANGED <<now, conf, requests, shutdownFilterVars, exported, serving, exitAt,
                 RejectRequest, exited>>

Stop ==
  /\ phase = "stop"
  /\ Enter("callbacks")
  /\ serving' = FALSE
  /\ UNCHANGED <<now, conf, requests, shutdownFilterVars, exported, serviceMap, exitAt,
                 RejectRequest, exited>>

\* The custom callbacks have returned, and os.Exit ends the process.
Exit ==
  /\ phase = "callbacks"
  /\ Enter("exit")
  /\ exited' = TRUE
  /\ UNCHANGED <<now, conf, requests, shutdownFilterVars, serviceVars, exitAt,
                 RejectRequest>>

\* The AfterFunc: os.Exit, wherever BeforeShutdown is.
ExitTimeout ==
  /\ exitAt # None /\ now >= exitAt
  /\ exited' = TRUE
  /\ UNCHANGED <<now, conf, requests, shutdownFilterVars, serviceVars, phase, since,
                 exitAt, RejectRequest>>

Tick ==
  /\ now < MaxTime
  /\ now' = now + 1
  /\ UNCHANGED <<conf, requests, shutdownFilterVars, serviceVars, phaseVars>>

-----------------------------------------------------------------------------
\* A step of the request's goroutine, up to the implementation and after it.
Serve(r) ==
  \/ DoHandleRequest(r)
  \/ TpsPass(r) \/ TpsPanic(r) \/ TpsFound(r) \/ TpsCreate(r) \/ TpsStore(r)
  \/ AllowThreadSafe(r) \/ AllowSliding(r)
  \/ FixedRead(r) \/ FixedTimestamp(r) \/ FixedCount(r) \/ FixedAdd(r)
  \/ ExecuteUncounted(r) \/ Increase(r) \/ Decrease(r)
  \/ ShutdownInvoke(r) \/ OnResponse(r) \/ Reply(r)

BeforeShutdown ==
  RegistriesDestroyed \/ AcceptEnds \/ WaitEnds \/ Unexport \/ UnRegister \/ Stop \/ Exit

Next ==
  /\ ~exited
  /\ \/ \E r \in Requests : OnMessage(r) \/ Serve(r) \/ ProxyInvoke(r)
     \/ GracefulShutdownInit \/ Signal \/ BeforeShutdown \/ ExitTimeout
     \/ Tick

\* The scheduler runs every ready goroutine, the clock runs and timers fire.
\* Nothing makes a request or a signal come, the implementation return, or
\* the destruction of registries, protocols and the callbacks end.
Fairness ==
  /\ \A r \in Requests : WF_vars(~exited /\ Serve(r))
  /\ WF_vars(~exited /\ Tick)
  /\ WF_vars(~exited /\ ExitTimeout)

Spec == Init /\ [][Next]_vars /\ Fairness

-----------------------------------------------------------------------------
(* Properties.                                                             *)

States ==
  {"idle", "handle", "tps", "store", "allow", "timestamp", "count", "add", "execute",
   "pshutdown", "invoke", "response", "decrease", "reply", "done"}
Results == {None, "error", "misconfigured", "panic", "rejected", "empty", "value"}
Phases ==
  {"running", "listening", "registries", "accepting", "waiting", "unexport",
   "unregister", "stop", "callbacks", "exit"}

\* The values of the variables; concurrentCount never goes below zero.
TypeOK ==
  /\ now \in Int /\ conf \in Confs
  /\ at \in [Requests -> States] /\ res \in [Requests -> Results]
  /\ current \in [Requests -> Int \cup {None}]
  /\ allowedAt \in [Requests -> Int \cup {None}]
  /\ replied \in [Requests -> BOOLEAN]
  /\ tpsState \in [Targets -> Strategy \cup {None}]
  /\ executeState \in [Targets -> Nat]
  /\ activeCount \in Int
  /\ shutdownConfig \in [Filters -> BOOLEAN]
  /\ exported \in BOOLEAN /\ serviceMap \in BOOLEAN /\ serving \in BOOLEAN
  /\ phase \in Phases /\ since \in Int /\ exitAt \in Int \cup {None}
  /\ RejectRequest \in BOOLEAN /\ RequestsFinished \in BOOLEAN /\ exited \in BOOLEAN

\* The requests that hold a unit of the counter of t.
Holders(t) ==
  {r \in Requests : /\ Counted(MethodOf[r]) /\ ExecuteTarget(MethodOf[r]) = t
                    /\ at[r] \in {"pshutdown", "invoke", "response", "decrease"}}

\* The execute filter gives back what it took on every way out of Invoke,
\* rejections, errors and panics included: concurrentCount is the number of
\* requests between increase and decrease.
ExecuteExact ==
  \A t \in Targets : executeState[t] = Cardinality(Holders(t))

\* The requests of t that the execute filter has let through to the next
\* filter and the implementation.
Executing(t) ==
  {r \in Holders(t) : at[r] \in {"pshutdown", "invoke", "response"}}

\* However many goroutines are in Invoke, the execute filter lets no more
\* requests through at a time than execute.limit, of the method when it has
\* one and else of the service.
ExecuteBound ==
  \A m \in Methods :
    Counted(m) => Cardinality(Executing(ExecuteTarget(m))) <= ExecuteLimit(m)

\* The requests of t that tps let through from time b to time e.
AllowedIn(t, b, e) ==
  {r \in Requests : /\ Target(r) = t /\ allowedAt[r] # None
                    /\ b <= allowedAt[r] /\ allowedAt[r] <= e}

\* The thread-safe fixed window lets at most tps.limit.rate requests through
\* in the window that began at its timestamp, also when several goroutines
\* created a strategy at the same time.
FixedWindowBound ==
  \A t \in Targets :
    (conf.strategy = "threadSafeFixedWindow" /\ tpsState[t] # None) =>
      Cardinality(AllowedIn(t, tpsState[t].timestamp, now)) <= Rate(t)

\* The sliding window lets at most tps.limit.rate requests through in ANY
\* stretch of time of length tps.limit.interval.
SlidingWindowBound ==
  \A t \in Targets :
    (conf.strategy = "slidingWindow" /\ tpsState[t] # None) =>
      \A e \in 0..now : Cardinality(AllowedIn(t, e - Interval(t), e)) <= Rate(t)

\* The values of the variables, the count of the execute filter, which is the number
\* of requests that hold a place, and the bound of the sliding window.
ProviderInv == TypeOK /\ ExecuteExact /\ SlidingWindowBound

InFlight == {r \in Requests : at[r] \in {"invoke", "response"}}

\* The requests whose implementation panicked.
Panicked == {r \in Requests : res[r] = "panic"}

\* What activeCount of pshutdown counts, whatever the requests do and however
\* they overlap: those behind the filter, and for ever those whose
\* implementation panicked, because a panic skips OnResponse.  It therefore
\* never falls below the number in flight, and drifts by the panics only.
\* (The path that subtracts without having added, OnResponse of a rejected
\* request, is not taken: no filter of a chain ever gets the configuration.)
ActiveExact == activeCount = Cardinality(InFlight \cup Panicked)


\* The recover of OnMessage sets an error and replies, so that a two-way
\* request whose filter or implementation panics should be answered too.
\* (It is not: see Reply.)
PanicsAnswered ==
  \A r \in TwoWay :
    (at[r] = "reply" /\ res[r] \in Panics) ~> (replied[r] \/ ~serving \/ exited)

\* After a signal the process ends, even when an implementation, the
\* destruction of a registry or protocol, or a callback never returns.
ShutdownEnds == (phase = "registries") ~> exited

\* "reject sending/receiving the new request": once RejectRequest is set,
\* pshutdown lets no request through to the implementation.
RejectsNewRequests ==
  [][\A r \in Requests :
        (RejectRequest /\ at[r] = "pshutdown") => at'[r] # "invoke"]_vars

=============================================================================
