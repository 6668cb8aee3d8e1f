---------------------------- MODULE MCProvider ------------------------------
(* Small instances of Provider.                                            *)
EXTENDS Provider, TLC

CONSTANTS r1, r2, m1, m2

MCRequests == {r1, r2}
MCMethods == {m1, m2}
MCMethodOf == r1 :> m1 @@ r2 :> m2
MCTwoWay == {r1}

Params(service, first, second) == Service :> service @@ m1 :> first @@ m2 :> second
NoParams == Params(Unset, Unset, Unset)
Limits(strategy, rate, interval, execute) ==
  [strategy |-> strategy, rate |-> rate, interval |-> interval, execute |-> execute,
   graceful |-> FALSE, shutdown |-> FALSE]

\* Each strategy with a rate of the service that both methods share; a method
\* with a rate of its own, with and without its interval; rates and intervals
\* that are not to be used; execute limits of the service, of a method, none.
LimitConfs ==
  {Limits(s, Params(1, Unset, Unset), Params(1, Unset, Unset), Params(1, Unset, Unset)) :
     s \in Strategies}
    \cup
  {Limits("slidingWindow", Params(2, -1, 1), NoParams, Params(1, 1, -1)),
   Limits("threadSafeFixedWindow", Params(1, Invalid, Unset), NoParams,
          Params(Unset, 1, Invalid)),
   Limits("fixedWindow", Params(Unset, 1, 1), Params(Invalid, 1, 0), NoParams)}

\* A shutdown, with and without its configuration.
ShutdownConfs ==
  {[strategy |-> "none", rate |-> NoParams, interval |-> NoParams,
    execute |-> Params(1, Unset, Unset), graceful |-> TRUE, shutdown |-> b] :
      b \in BOOLEAN}

AllConfs == LimitConfs \cup ShutdownConfs
=============================================================================
