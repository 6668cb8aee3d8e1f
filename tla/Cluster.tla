------------------------------- MODULE Cluster ------------------------------
(***************************************************************************)
(* The cluster invokers of cluster/cluster: how one call of a consumer     *)
(* becomes calls of the invokers its directory lists.  The base part       *)
(* (List, DoSelect with its sticky invoker and its reselection) is shared; *)
(* `strategy` says which cluster is configured.                            *)
(*                                                                         *)
(* Calls run concurrently and share the cluster invoker: its Destroyed     *)
(* flag, its StickyInvoker, which has no lock, and failback's task list.   *)
(* Meanwhile the list changes and invokers become available or not.  A     *)
(* load balancer returns any member of the list it is given, and the black  *)
(* list of rpc_status.go, which no decision reads, is left out.            *)
(***************************************************************************)
EXTENDS Naturals, Sequences, FiniteSets, FiniteSetsExt

CONSTANTS
  Calls,          \* goroutines that call Invoke, once each
  Ivks,           \* invokers of the providers
  Strategies,     \* the clusters to look at
  Retries,        \* the retries parameter, of failover and of failback
  Forks,          \* the forks parameter
  FailbackTasks,  \* the failbacktasks parameter
  Preferred,      \* zoneaware: the invokers of the registries marked as preferred,
  InZone,         \* and those of the registries in the zone that a call may ask for
  MaxChanges,     \* bound on the changes of the environment
  None

AllStrategies ==
  {"failover", "failfast", "failsafe", "failback", "available", "broadcast", "forking",
   "zoneaware"}

ASSUME ClusterAssumption ==
  /\ Strategies \subseteq AllStrategies
  /\ Retries \in Nat /\ Forks \in Nat /\ FailbackTasks \in Nat \ {0} /\ MaxChanges \in Nat
  /\ None \notin Ivks /\ IsFiniteSet(Ivks) /\ Preferred \cup InZone \subseteq Ivks

VARIABLES
  strategy, sticky,          \* the cluster and the sticky parameter of the URLs
  list, available, changes,  \* what Directory.List returns; IsAvailable of each invoker
  Destroyed, StickyInvoker,  \* fields of ClusterInvoker
  at, invokers, cand, invoked, tries, ivk, res,  \* of each call
  taskList, taskListState,   \* failback: calls that wait for a retry; its queue
  panicked

confVars == <<strategy, sticky>>
envVars == <<list, available, changes>>
callVars == <<at, invokers, cand, invoked, tries, ivk, res>>
taskVars == <<taskList, taskListState>>
vars == <<strategy, sticky, list, available, changes, Destroyed, StickyInvoker, at, invokers, cand,
          invoked, tries, ivk, res, taskList, taskListState, panicked>>

Init ==
  /\ strategy \in Strategies /\ sticky \in BOOLEAN
  /\ list \in SUBSET Ivks
  /\ available = [i \in Ivks |-> TRUE]
  /\ changes = 0
  /\ Destroyed = FALSE /\ StickyInvoker = None
  /\ at = [c \in Calls |-> "idle"]
  /\ invokers = [c \in Calls |-> {}]
  /\ cand = [c \in Calls |-> {}]
  /\ invoked = [c \in Calls |-> {}]
  /\ tries = [c \in Calls |-> 0]
  /\ ivk = [c \in Calls |-> None]
  /\ res = [c \in Calls |-> "none"]
  /\ taskList = <<>> /\ taskListState = "nil"
  /\ panicked = FALSE

Goto(c, p) == at' = [at EXCEPT ![c] = p]
Return(c, r) == at' = [at EXCEPT ![c] = "done"] /\ res' = [res EXCEPT ![c] = r]

-----------------------------------------------------------------------------
(* The environment.                                                        *)

Change ==
  /\ changes < MaxChanges
  /\ changes' = changes + 1
  /\ UNCHANGED <<confVars, Destroyed, StickyInvoker, callVars, taskVars, panicked>>

ListChanges == Change /\ UNCHANGED available /\ list' \in (SUBSET Ivks) \ {list}

AvailabilityChanges(i) ==
  Change /\ UNCHANGED list /\ available' = [available EXCEPT ![i] = ~@]

\* Destroy; failback disposes its task list, which is nil until a call failed.
Destroy ==
  /\ ~Destroyed
  /\ Destroyed' = TRUE
  /\ IF strategy = "failback" /\ taskListState = "nil"
       THEN panicked' = TRUE /\ UNCHANGED taskVars
       ELSE /\ taskListState' = IF strategy = "failback" THEN "disposed" ELSE taskListState
            /\ taskList' = <<>>
            /\ UNCHANGED panicked
  /\ UNCHANGED <<confVars, envVars, StickyInvoker, callVars>>

-----------------------------------------------------------------------------
(* Invoke, up to the selection.                                            *)

Selecting == {"failover", "failfast", "failsafe", "failback"}
ZoneLoops == {"preferred", "zone", "zoneForced"}

\* A variant that counts the first attempt as a retry.
GetRetriesLess(s) == Min({Retries, Cardinality(s)}) - 1

\* getRetries: the parameter, but no more than the list has members.
GetRetries(s) == Min({Retries, Cardinality(s)})

\* How a call starts on the list it got.
Begin(c) ==
  \/ /\ strategy \in Selecting
     /\ Goto(c, "sticky")
     /\ tries' = [tries EXCEPT ![c] = IF strategy = "failover" THEN GetRetries(list) ELSE 0]
     /\ UNCHANGED cand
  \/ /\ strategy \in {"available", "broadcast", "zoneaware"}
     /\ Goto(c, IF strategy = "zoneaware" THEN "preferred" ELSE "loop")
     /\ cand' = [cand EXCEPT ![c] = list]
     /\ UNCHANGED tries
  \/ /\ strategy = "forking" /\ Forks <= Cardinality(list)
     /\ Goto(c, IF Forks = 0 THEN "poll" ELSE "sticky")
     /\ tries' = [tries EXCEPT ![c] = Forks]
     /\ UNCHANGED cand

\* List, CheckInvokers and CheckWhetherDestroyed.  Failover, zoneaware and the
\* clusters that swallow errors do not ask whether they were destroyed.
NeverAsks == {"failover", "failsafe", "failback", "zoneaware"}

Invoke(c) ==
  /\ at[c] = "idle"
  /\ invokers' = [invokers EXCEPT ![c] = list]
  /\ \/ /\ \/ list = {}
           \/ Destroyed /\ strategy \notin NeverAsks
        /\ Return(c, IF list = {} /\ strategy \in {"failsafe", "failback"} THEN "empty" ELSE "err")
        /\ UNCHANGED <<cand, tries, invoked>>
     \/ /\ list # {}
        /\ Destroyed => strategy \in NeverAsks
        /\ \/ Begin(c) /\ UNCHANGED <<invoked, res>>
           \/ /\ strategy = "forking" /\ Forks > Cardinality(list)
              /\ Goto(c, "poll")
              /\ invoked' = [invoked EXCEPT ![c] = list]
              /\ UNCHANGED <<cand, tries, res>>
  /\ UNCHANGED <<confVars, envVars, Destroyed, StickyInvoker, ivk, taskVars, panicked>>

-----------------------------------------------------------------------------
(* DoSelect.  Each read and each write of StickyInvoker is a step of its    *)
(* own, since calls share the field without a lock.                        *)

stickyRest == <<confVars, envVars, Destroyed, invokers, cand, invoked, tries, res, taskVars>>

\* Past the test of the list.
Kept(c) == Goto(c, IF sticky THEN "stickyNil" ELSE "select")

\* The sticky invoker, if there is one, is compared with the list ...
StickyKnown(c) ==
  /\ at[c] = "sticky"
  /\ IF StickyInvoker = None THEN Kept(c) ELSE Goto(c, "stickyKnown")
  /\ UNCHANGED <<stickyRest, StickyInvoker, ivk, panicked>>

StickyListed(c) ==
  /\ at[c] = "stickyKnown"
  /\ IF StickyInvoker \in invokers[c] THEN Kept(c) ELSE Goto(c, "stickyLost")
  /\ UNCHANGED <<stickyRest, StickyInvoker, ivk, panicked>>

\* ... and dropped when the list has lost it; so is whoever is there by now.
StickyReset(c) ==
  /\ at[c] = "stickyLost" /\ Kept(c)
  /\ StickyInvoker' = None
  /\ UNCHANGED <<stickyRest, ivk, panicked>>

StickyNil(c) ==
  /\ at[c] = "stickyNil"
  /\ Goto(c, IF StickyInvoker = None THEN "select" ELSE "stickyCheck")
  /\ UNCHANGED <<stickyRest, StickyInvoker, ivk, panicked>>

\* It is returned when it is available, although another call may have dropped it
\* since it was compared with nil, ...
StickyCheck(c) ==
  /\ at[c] = "stickyCheck"
  /\ \/ StickyInvoker = None /\ panicked' = TRUE /\ UNCHANGED at
     \/ /\ StickyInvoker # None /\ UNCHANGED panicked
        /\ Goto(c, IF available[StickyInvoker] THEN "stickyInvoked" ELSE "select")
  /\ UNCHANGED <<stickyRest, StickyInvoker, ivk>>

\* ... and was not invoked by this call.
StickyInvoked(c) ==
  /\ at[c] = "stickyInvoked"
  /\ Goto(c, IF StickyInvoker \notin invoked[c] THEN "stickyReturn" ELSE "select")
  /\ UNCHANGED <<stickyRest, StickyInvoker, ivk, panicked>>

\* The field is read again.
StickyReturn(c) ==
  /\ at[c] = "stickyReturn"
  /\ ivk' = [ivk EXCEPT ![c] = StickyInvoker]
  /\ Goto(c, "selected")
  /\ UNCHANGED <<stickyRest, StickyInvoker, panicked>>

StickySteps(c) ==
  \/ StickyKnown(c) \/ StickyListed(c) \/ StickyReset(c) \/ StickyNil(c)
  \/ StickyCheck(c) \/ StickyInvoked(c) \/ StickyReturn(c)

\* doSelectInvoker has chosen i, or nobody; a sticky URL remembers it.
Select(c, i) ==
  /\ ivk' = [ivk EXCEPT ![c] = i]
  /\ StickyInvoker' = IF sticky THEN i ELSE StickyInvoker
  /\ Goto(c, "selected")

\* Whether the first choice of doSelectInvoker stands; a list of one is not asked
\* whether it was invoked.
Usable(c, i) == available[i] /\ (i \notin invoked[c] \/ invokers[c] = {i})

SelectFirst(c, i) ==
  /\ at[c] = "select" /\ i \in invokers[c]
  /\ \/ Usable(c, i) /\ Select(c, i) /\ UNCHANGED cand
     \/ ~Usable(c, i) /\ invokers[c] = {i} /\ Select(c, None) /\ UNCHANGED cand
     \/ /\ ~Usable(c, i) /\ invokers[c] # {i}
        /\ cand' = [cand EXCEPT ![c] = invokers[c] \ {i}]
        /\ Goto(c, "reselect")
        /\ UNCHANGED <<ivk, StickyInvoker>>
  /\ UNCHANGED <<confVars, envVars, Destroyed, invokers, invoked, tries, res, taskVars,
                 panicked>>

\* Up to three more choices, each among those not yet refused.
Exhausted(c) == cand[c] = {} \/ Cardinality(invokers[c] \ cand[c]) > 3

Reselect(c, i) ==
  /\ at[c] = "reselect" /\ ~Exhausted(c) /\ i \in cand[c]
  /\ IF i \notin invoked[c] /\ available[i]
       THEN Select(c, i) /\ UNCHANGED cand
       ELSE /\ cand' = [cand EXCEPT ![c] = @ \ {i}]
            /\ UNCHANGED <<at, ivk, StickyInvoker>>
  /\ UNCHANGED <<confVars, envVars, Destroyed, invokers, invoked, tries, res, taskVars,
                 panicked>>

ReselectFails(c) ==
  /\ at[c] = "reselect" /\ Exhausted(c)
  /\ Select(c, None)
  /\ cand' = [cand EXCEPT ![c] = {}]
  /\ UNCHANGED <<confVars, envVars, Destroyed, invokers, invoked, tries, res, taskVars,
                 panicked>>

-----------------------------------------------------------------------------
(* After the selection.                                                    *)

\* A variant of the next attempt that does not count it.
NextAttemptUncounted(c) ==
  IF Destroyed \/ list = {}
    THEN Return(c, "err") /\ UNCHANGED <<invokers, tries>>
    ELSE /\ Goto(c, "sticky")
         /\ tries' = [tries EXCEPT ![c] = @ - 1]
         /\ invokers' = [invokers EXCEPT ![c] = list]
         /\ UNCHANGED res

\* Failover goes on with the next attempt: the list is read again.
NextAttempt(c) ==
  IF tries[c] = 0 \/ Destroyed \/ list = {}
    THEN Return(c, "err") /\ UNCHANGED <<invokers, tries>>
    ELSE /\ Goto(c, "sticky")
         /\ tries' = [tries EXCEPT ![c] = @ - 1]
         /\ invokers' = [invokers EXCEPT ![c] = list]
         /\ UNCHANGED res

\* Forking collects its invokers.
SelectedFork(c) ==
  /\ at[c] = "selected" /\ strategy = "forking"
  /\ invoked' = [invoked EXCEPT ![c] = @ \cup ({ivk[c]} \ {None})]
  /\ tries' = [tries EXCEPT ![c] = @ - 1]
  /\ Goto(c, IF tries[c] = 1 THEN "poll" ELSE "sticky")
  /\ UNCHANGED <<confVars, envVars, Destroyed, StickyInvoker, invokers, cand, ivk, res,
                 taskVars, panicked>>

SelectedOne(c) ==
  /\ at[c] = "selected" /\ strategy \notin {"forking", "zoneaware"} /\ ivk[c] # None
  /\ Goto(c, "invoke")
  /\ UNCHANGED <<confVars, envVars, Destroyed, StickyInvoker, invokers, cand, invoked, tries,
                 ivk, res, taskVars, panicked>>

\* Nobody was selected: failover takes it for a failed attempt, the others call
\* the nil they got.
SelectedNone(c) ==
  /\ at[c] = "selected" /\ strategy \notin {"forking", "zoneaware"} /\ ivk[c] = None
  /\ \/ strategy = "failover" /\ NextAttempt(c) /\ UNCHANGED panicked
     \/ strategy # "failover" /\ panicked' = TRUE /\ UNCHANGED <<at, invokers, tries, res>>
  /\ UNCHANGED <<confVars, envVars, Destroyed, StickyInvoker, cand, invoked, ivk, taskVars>>

\* The invoker answers, with an error or, when it is available, without.
InvokeOK(c) ==
  /\ at[c] = "invoke"
  /\ available[ivk[c]]
  /\ Return(c, "ok")
  /\ invoked' = [invoked EXCEPT ![c] = @ \cup {ivk[c]}]
  /\ UNCHANGED <<confVars, envVars, Destroyed, StickyInvoker, invokers, cand, tries, ivk,
                 taskVars, panicked>>

\* What an error means is what the clusters differ in.
InvokeFails(c) ==
  /\ at[c] = "invoke"
  /\ invoked' = [invoked EXCEPT ![c] = @ \cup {ivk[c]}]
  /\ \/ strategy = "failover" /\ NextAttempt(c)
     \/ /\ strategy \in {"failfast", "available", "failsafe", "zoneaware"}
        /\ Return(c, IF strategy = "failsafe" THEN "empty" ELSE "err")
        /\ UNCHANGED <<invokers, tries>>
  /\ UNCHANGED <<confVars, envVars, Destroyed, StickyInvoker, cand, ivk, taskVars, panicked>>

\* Failback's first failure creates the task list.
FailbackFails(c) ==
  /\ at[c] = "invoke" /\ strategy = "failback"
  /\ invoked' = [invoked EXCEPT ![c] = @ \cup {ivk[c]}]
  /\ Goto(c, IF res[c] = "none" THEN "record" ELSE "retried")
  /\ taskListState' = IF taskListState = "nil" THEN "open" ELSE taskListState
  /\ UNCHANGED <<confVars, envVars, Destroyed, StickyInvoker, invokers, cand, tries, ivk, res,
                 taskList, panicked>>

-----------------------------------------------------------------------------
(* The loops of available, broadcast and zoneaware over the list.          *)

LoopAvailable(c, i) ==
  /\ strategy \in {"available", "zoneaware"} /\ at[c] = "loop" /\ i \in cand[c]
  /\ IF available[i]
       THEN Goto(c, "invoke") /\ ivk' = [ivk EXCEPT ![c] = i] /\ UNCHANGED cand
       ELSE cand' = [cand EXCEPT ![c] = @ \ {i}] /\ UNCHANGED <<at, ivk>>
  /\ UNCHANGED <<confVars, envVars, Destroyed, StickyInvoker, invokers, invoked, tries, res,
                 taskVars, panicked>>

\* Broadcast calls everyone, and remembers an error.
Broadcast(c, i) ==
  /\ strategy = "broadcast" /\ at[c] = "loop" /\ i \in cand[c]
  /\ \E ok \in {TRUE, FALSE} :
       /\ ok => available[i]
       /\ res' = IF ok THEN res ELSE [res EXCEPT ![c] = "err"]
  /\ cand' = [cand EXCEPT ![c] = @ \ {i}]
  /\ invoked' = [invoked EXCEPT ![c] = @ \cup {i}]
  /\ UNCHANGED <<confVars, envVars, Destroyed, StickyInvoker, at, invokers, tries, ivk,
                 taskVars, panicked>>

LoopEnds(c) ==
  /\ at[c] = "loop" /\ cand[c] = {}
  /\ Return(c, IF strategy = "broadcast" /\ res[c] = "none" THEN "ok" ELSE "err")
  /\ UNCHANGED <<confVars, envVars, Destroyed, StickyInvoker, invokers, cand, invoked, tries,
                 ivk, taskVars, panicked>>

\* Zoneaware looks for a preferred registry first, then for one in the zone.
Matches(c, i) == i \in (IF at[c] = "preferred" THEN Preferred ELSE InZone)

LoopZone(c, i) ==
  /\ at[c] \in ZoneLoops /\ i \in cand[c]
  /\ IF available[i] /\ Matches(c, i)
       THEN Goto(c, "invoke") /\ ivk' = [ivk EXCEPT ![c] = i] /\ UNCHANGED cand
       ELSE cand' = [cand EXCEPT ![c] = @ \ {i}] /\ UNCHANGED <<at, ivk>>
  /\ UNCHANGED <<confVars, envVars, Destroyed, StickyInvoker, invokers, invoked, tries, res,
                 taskVars, panicked>>

\* No preferred one: the attachments of the call name a zone, which may be forced,
\* or none.
PreferredEnds(c) ==
  /\ at[c] = "preferred" /\ cand[c] = {}
  /\ \E p \in {"zone", "zoneForced", "sticky"} : Goto(c, p)
  /\ cand' = [cand EXCEPT ![c] = invokers[c]]
  /\ UNCHANGED <<confVars, envVars, Destroyed, StickyInvoker, invokers, invoked, tries, ivk,
                 res, taskVars, panicked>>

\* None in the zone: an error when it is forced, the load balancer otherwise.
ZoneEnds(c) ==
  /\ at[c] \in {"zone", "zoneForced"} /\ cand[c] = {}
  /\ IF at[c] = "zoneForced" THEN Return(c, "err") ELSE Goto(c, "sticky") /\ UNCHANGED res
  /\ UNCHANGED <<confVars, envVars, Destroyed, StickyInvoker, invokers, cand, invoked, tries,
                 ivk, taskVars, panicked>>

\* What DoSelect returned is called if it is available, and else the first that is.
SelectedZone(c) ==
  /\ at[c] = "selected" /\ strategy = "zoneaware"
  /\ LET ok == ivk[c] # None /\ available[ivk[c]]
     IN /\ Goto(c, IF ok THEN "invoke" ELSE "loop")
        /\ cand' = IF ok THEN cand ELSE [cand EXCEPT ![c] = invokers[c]]
  /\ UNCHANGED <<confVars, envVars, Destroyed, StickyInvoker, invokers, invoked, tries, ivk,
                 res, taskVars, panicked>>

-----------------------------------------------------------------------------
(* Forking: the first answer wins, whatever it is, unless the timeout does. *)

PollAnswer(c, i) ==
  /\ at[c] = "poll" /\ i \in invoked[c]
  /\ \E r \in {"ok", "err"} : (r = "ok" => available[i]) /\ Return(c, r)
  /\ UNCHANGED <<confVars, envVars, Destroyed, StickyInvoker, invokers, cand, invoked, tries,
                 ivk, taskVars, panicked>>

PollTimeout(c) ==
  /\ at[c] = "poll"
  /\ Return(c, "err")
  /\ UNCHANGED <<confVars, envVars, Destroyed, StickyInvoker, invokers, cand, invoked, tries,
                 ivk, taskVars, panicked>>

-----------------------------------------------------------------------------
(* Failback: the failed call answers with an empty result and leaves a     *)
(* task, which the ticker's goroutine retries.                             *)

\* The length is checked before the task is put.
RecordCheck(c) ==
  /\ at[c] = "record"
  /\ IF Len(taskList) >= FailbackTasks
       THEN Return(c, "empty")
       ELSE Goto(c, "put") /\ UNCHANGED res
  /\ UNCHANGED <<confVars, envVars, Destroyed, StickyInvoker, invokers, cand, invoked, tries,
                 ivk, taskVars, panicked>>

\* A disposed queue refuses the task.
Put(c) ==
  IF taskListState = "disposed"
    THEN Goto(c, "done") /\ UNCHANGED taskList
    ELSE Goto(c, "queued") /\ taskList' = Append(taskList, c)

RecordPut(c) ==
  /\ at[c] = "put"
  /\ Put(c)
  /\ res' = [res EXCEPT ![c] = "empty"]
  /\ UNCHANGED <<confVars, envVars, Destroyed, StickyInvoker, invokers, cand, invoked, tries,
                 ivk, taskListState, panicked>>

\* The ticker finds that the first task has waited long enough; its goroutine
\* selects again from the list of the failed call, avoiding the last invoker.
Tick ==
  /\ taskList # <<>> /\ taskListState = "open"
  /\ LET c == Head(taskList)
     IN /\ Goto(c, "sticky")
        /\ invoked' = [invoked EXCEPT ![c] = {ivk[c]}]
  /\ taskList' = Tail(taskList)
  /\ UNCHANGED <<confVars, envVars, Destroyed, StickyInvoker, invokers, cand, tries, ivk,
                 res, taskListState, panicked>>

\* A variant of checkRetry without the limit.
CheckRetryForever(c) ==
  /\ at[c] = "retried"
  /\ Put(c)
  /\ UNCHANGED <<confVars, envVars, Destroyed, StickyInvoker, invokers, cand, invoked, tries,
                 ivk, res, taskListState, panicked>>

CheckRetry(c) ==
  /\ at[c] = "retried"
  /\ tries' = [tries EXCEPT ![c] = @ + 1]
  /\ IF tries[c] + 1 > Retries
       THEN Goto(c, "done") /\ UNCHANGED taskList
       ELSE Put(c)
  /\ UNCHANGED <<confVars, envVars, Destroyed, StickyInvoker, invokers, cand, invoked, ivk,
                 res, taskListState, panicked>>

-----------------------------------------------------------------------------
CallStep(c) ==
  \/ StickySteps(c) \/ ReselectFails(c)
  \/ SelectedFork(c) \/ SelectedOne(c) \/ SelectedNone(c)
  \/ InvokeOK(c) \/ InvokeFails(c) \/ FailbackFails(c)
  \/ LoopEnds(c) \/ PollTimeout(c) \/ PreferredEnds(c) \/ ZoneEnds(c) \/ SelectedZone(c)
  \/ RecordCheck(c) \/ RecordPut(c) \/ CheckRetry(c)
  \/ \E i \in Ivks :
       SelectFirst(c, i) \/ Reselect(c, i) \/ LoopAvailable(c, i) \/ Broadcast(c, i)
         \/ PollAnswer(c, i) \/ LoopZone(c, i)

\* A panic ends the process.
Next ==
  /\ ~panicked
  /\ \/ ListChanges \/ (\E i \in Ivks : AvailabilityChanges(i)) \/ Destroy
     \/ Tick
     \/ \E c \in Calls : Invoke(c) \/ CallStep(c)

\* Goroutines are scheduled, invokers answer or time out, and the ticker ticks.
Fairness ==
  /\ \A c \in Calls : WF_vars(~panicked /\ CallStep(c))
  /\ WF_vars(~panicked /\ Tick)

Spec == Init /\ [][Next]_vars /\ Fairness

-----------------------------------------------------------------------------
(* Properties.                                                             *)

Points == {"idle", "sticky", "stickyKnown", "stickyLost", "stickyNil", "stickyCheck",
           "stickyInvoked", "stickyReturn", "select", "reselect", "selected", "invoke",
           "loop", "poll", "record", "put", "queued", "retried", "done",
           "preferred", "zone", "zoneForced"}

\* Where a call is in DoSelect.
Selection == {"sticky", "stickyKnown", "stickyLost", "stickyNil", "stickyCheck",
              "stickyInvoked", "stickyReturn", "select", "reselect", "selected"}

CallTypeOK ==
  /\ at \in [Calls -> Points]
  /\ invokers \in [Calls -> SUBSET Ivks]
  /\ cand \in [Calls -> SUBSET Ivks]
  /\ invoked \in [Calls -> SUBSET Ivks]
  /\ tries \in [Calls -> Nat]
  /\ ivk \in [Calls -> Ivks \cup {None}]
  /\ res \in [Calls -> {"none", "ok", "err", "empty"}]

\* Every variable has a value of its Go type; no call counts below zero.
TypeOK ==
  /\ strategy \in AllStrategies /\ sticky \in BOOLEAN
  /\ list \in SUBSET Ivks /\ available \in [Ivks -> BOOLEAN] /\ changes \in 0..MaxChanges
  /\ Destroyed \in BOOLEAN /\ StickyInvoker \in Ivks \cup {None}
  /\ CallTypeOK
  /\ taskList \in Seq(Calls) /\ taskListState \in {"nil", "open", "disposed"}
  /\ panicked \in BOOLEAN

\* DoSelect chooses from the list it was given and, while it is not the only one
\* there, nobody the call has invoked before, although lists shrink and grow
\* between attempts.  A sticky URL has no such guarantee: calls overwrite each
\* other's StickyInvoker between its check and its return.
Fresh(c) ==
  /\ ivk[c] \in invokers[c]
  /\ ivk[c] \notin invoked[c] \/ invokers[c] = {ivk[c]}

SelectsFresh == \A c \in Calls : ~sticky /\ at[c] = "invoke" => Fresh(c)

\* The n calls that were asked for went to different members of l; there are fewer
\* only when nobody else is left, or when DoSelect, with its first choice and three
\* more, may have met nobody but those already called.
Enough(called, l, n) ==
  /\ Cardinality(called) <= n
  /\ Cardinality(called) < n => called = l \/ Cardinality(called) >= 4

\* While nothing changes, failover gives up, and forking waits for an answer, only
\* after enough different invokers were called for the retries and the forks; and
\* zoneaware calls somebody, unless its list has no one preferred or in the zone.
\* Always, a broadcast answers only after everyone on its list was called, also when
\* some of them failed.
ReachesEnough ==
  \A c \in Calls :
    /\ strategy = "broadcast" /\ at[c] = "done" /\ (res[c] = "ok" \/ invoked[c] # {}) =>
         invoked[c] = invokers[c]
    /\ ~sticky /\ ~Destroyed /\ changes = 0 =>
      /\ strategy = "failover" /\ at[c] = "done" /\ res[c] = "err" =>
           Enough(invoked[c], list, Retries + 1)
      /\ strategy = "forking" /\ at[c] = "poll" => Enough(invoked[c], list, Forks)
      /\ strategy = "zoneaware" /\ at[c] = "done" /\ list \cap (Preferred \cup InZone) # {} =>
           invoked[c] # {}

\* A failed call is in the task list once, or its retry runs, never both.
TasksOnce ==
  /\ \A m, n \in 1..Len(taskList) : taskList[m] = taskList[n] => m = n
  /\ \A n \in 1..Len(taskList) : at[taskList[n]] = "queued"

\* Every call ends, and so does every task: success, or too many retries.
CallEnds ==
  \A c \in Calls :
    at[c] # "idle" ~> at[c] = "done" \/ panicked \/ taskListState = "disposed"

\* "When invoke fails, log the error message and ignore this error by returning
\* an empty Result": failsafe never lets a failure out.
FailsafeReturns == strategy = "failsafe" => ~panicked

\* What holds of a call at each point of its selection.
CallInv(c) ==
  /\ at[c] = "idle" => invoked[c] = {}
  /\ at[c] = "loop" /\ strategy = "available" => invoked[c] = {}
  /\ at[c] \notin {"invoke", "done"} /\ strategy = "zoneaware" => invoked[c] = {}
  /\ at[c] \in ZoneLoops => strategy = "zoneaware"
  /\ at[c] \in ZoneLoops => cand[c] \subseteq invokers[c]
  /\ at[c] \in {"loop", "reselect"} => cand[c] \subseteq invokers[c]
  /\ at[c] \in {"stickyNil", "stickyCheck", "stickyInvoked", "stickyReturn"} => sticky
  /\ ~sticky /\ at[c] \in {"selected", "invoke"} /\ ivk[c] # None => Fresh(c)
  /\ at[c] = "invoke" => ivk[c] # None
  /\ strategy = "forking" /\ at[c] \in Selection => tries[c] > 0
  /\ strategy = "forking" => at[c] # "invoke"
  /\ at[c] \in {"record", "put", "queued", "retried"} =>
       strategy = "failback" /\ ivk[c] # None

\* The inductive invariant from which SelectsFresh and TasksOnce follow.
ClusterInv == TypeOK /\ TasksOnce /\ \A c \in Calls : CallInv(c)
=============================================================================
