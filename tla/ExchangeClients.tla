--------------------------- MODULE ExchangeClients --------------------------
(***************************************************************************)
(* The sharing of exchange clients between the invokers of one address:    *)
(* getExchangeClient and Refer of protocol/dubbo/dubbo_protocol.go, Invoke *)
(* and Destroy of dubbo_invoker.go, and the use counter of                 *)
(* remoting/exchange_client.go.                                            *)
(*                                                                         *)
(* Each invoker is referred by a goroutine of its own (a registry          *)
(* notification), serves requests, and is destroyed by another.  The       *)
(* address has one entry in exchangeClientMap and one in exchangeLock,     *)
(* which serves as a lock.                                                 *)
(***************************************************************************)
EXTENDS Integers, FiniteSets

CONSTANTS
  Invokers,    \* the DubboInvokers of the address
  Clients,     \* ExchangeClient objects
  Requests,    \* goroutines in DubboInvoker.Invoke
  Retries,     \* looks of a waiter into the map; 5 in the code
  Width,       \* activeNum counts modulo Width; 2^32 in the code
  None

ASSUME ExchangeClientsAssumption ==
  /\ Retries \in Nat \ {0}
  /\ IsFiniteSet(Invokers)
  /\ Width \in Nat /\ Cardinality(Invokers) < Width
  /\ None \notin Clients /\ None \notin Invokers

VARIABLES
  exchangeClientMap,  \* the client stored for the address
  exchangeLock,       \* the address is locked
  pc,                 \* of the goroutine that refers, then destroys an invoker
  tries,              \* looks into the map so far
  got,                \* the client that goroutine works on
  client,             \* the client field of each invoker
  available,          \* of each BaseInvoker
  last,               \* this Destroy saw the counter reach zero
  activeNum, state,   \* of each client
  rq                  \* where each request is, and on which invoker

mapVars == <<exchangeClientMap, exchangeLock>>
invokerVars == <<client, available, last>>
clientVars == <<activeNum, state>>
vars == <<exchangeClientMap, exchangeLock, pc, tries, got, client, available, last,
          activeNum, state, rq>>

Init ==
  /\ exchangeClientMap = None /\ exchangeLock = FALSE
  /\ pc = [i \in Invokers |-> "start"]
  /\ tries = [i \in Invokers |-> 0]
  /\ got = [i \in Invokers |-> None]
  /\ client = [i \in Invokers |-> None]
  /\ available = [i \in Invokers |-> FALSE]
  /\ last = [i \in Invokers |-> FALSE]
  /\ activeNum = [c \in Clients |-> 0]
  /\ state = [c \in Clients |-> "unused"]
  /\ rq = [r \in Requests |-> [at |-> "idle", on |-> None]]

-----------------------------------------------------------------------------
(* getExchangeClient and Refer.                                            *)

Go(i, p) == pc' = [pc EXCEPT ![i] = p]

\* exchangeClientMap.Load.
Load(i) ==
  /\ pc[i] = "start"
  /\ IF exchangeClientMap = None
       THEN Go(i, "miss") /\ UNCHANGED got
       ELSE Go(i, "found") /\ got' = [got EXCEPT ![i] = exchangeClientMap]
  /\ UNCHANGED <<mapVars, tries, invokerVars, clientVars, rq>>

\* exchangeLock.LoadOrStore.
Lock(i) ==
  /\ pc[i] = "miss"
  /\ Go(i, IF exchangeLock THEN "wait" ELSE "dial")
  /\ exchangeLock' = TRUE
  /\ UNCHANGED <<exchangeClientMap, tries, got, invokerVars, clientVars, rq>>

\* NewExchangeClient connects, and counts its first user.
Dial(i) ==
  /\ pc[i] = "dial"
  /\ \E c \in Clients :
       /\ state[c] = "unused"
       /\ state' = [state EXCEPT ![c] = "up"]
       /\ activeNum' = [activeNum EXCEPT ![c] = (@ + 1) % Width]
       /\ got' = [got EXCEPT ![i] = c]
  /\ Go(i, "store")
  /\ UNCHANGED <<mapVars, tries, invokerVars, rq>>

\* Neither attempt of doInit connects; the deferred Delete unlocks.
DialFails(i) ==
  /\ pc[i] = "dial"
  /\ Go(i, "failed")
  /\ exchangeLock' = FALSE
  /\ UNCHANGED <<exchangeClientMap, tries, got, invokerVars, clientVars, rq>>

Store(i) ==
  /\ pc[i] = "store"
  /\ exchangeClientMap' = got[i]
  /\ Go(i, "stored")
  /\ UNCHANGED <<exchangeLock, tries, got, invokerVars, clientVars, rq>>

\* NewDubboInvoker with the client.
NewInvoker(i) ==
  /\ client' = [client EXCEPT ![i] = got[i]]
  /\ available' = [available EXCEPT ![i] = TRUE]
  /\ Go(i, "live")

\* The deferred Delete of the goroutine that dialled.
Unlock(i) ==
  /\ pc[i] = "stored"
  /\ exchangeLock' = FALSE
  /\ NewInvoker(i)
  /\ UNCHANGED <<exchangeClientMap, tries, got, last, clientVars, rq>>

\* A variant of Wait with a look too many.
WaitOneMore(i) ==
  /\ pc[i] = "wait"
  /\ exchangeClientMap = None
  /\ tries' = [tries EXCEPT ![i] = @ + 1]
  /\ IF tries[i] = Retries THEN Go(i, "waited") ELSE UNCHANGED pc
  /\ UNCHANGED <<mapVars, got, invokerVars, clientVars, rq>>

\* A waiter looks into the map, a bounded number of times.
Wait(i) ==
  /\ pc[i] = "wait"
  /\ IF exchangeClientMap # None
       THEN /\ got' = [got EXCEPT ![i] = exchangeClientMap]
            /\ Go(i, "waited")
            /\ UNCHANGED tries
       ELSE /\ tries' = [tries EXCEPT ![i] = @ + 1]
            /\ IF tries[i] + 1 = Retries THEN Go(i, "waited") ELSE UNCHANGED pc
            /\ UNCHANGED got
  /\ UNCHANGED <<mapVars, invokerVars, clientVars, rq>>

\* The deferred Delete also runs for a waiter, which holds no lock.
WaiterUnlock(i) ==
  /\ pc[i] = "waited"
  /\ exchangeLock' = FALSE
  /\ Go(i, IF got[i] = None THEN "failed" ELSE "found")
  /\ UNCHANGED <<exchangeClientMap, tries, got, invokerVars, clientVars, rq>>

\* IncreaseActiveNumber on the client that was found, which may have been
\* closed since, and NewDubboInvoker.
Increase(i) ==
  /\ pc[i] = "found"
  /\ activeNum' = [activeNum EXCEPT ![got[i]] = (@ + 1) % Width]
  /\ NewInvoker(i)
  /\ UNCHANGED <<mapVars, tries, got, last, state, rq>>

-----------------------------------------------------------------------------
(* DubboInvoker.Destroy, once for each invoker.                            *)

Destroy(i) ==
  /\ pc[i] = "live"
  /\ available' = [available EXCEPT ![i] = FALSE]
  /\ Go(i, "destroying")
  /\ UNCHANGED <<mapVars, tries, got, client, last, clientVars, rq>>

Decrease(i) ==
  /\ pc[i] = "destroying"
  /\ LET n == (activeNum[got[i]] - 1) % Width
     IN /\ activeNum' = [activeNum EXCEPT ![got[i]] = n]
        /\ last' = [last EXCEPT ![i] = n = 0]
  /\ Go(i, "release")
  /\ UNCHANGED <<mapVars, tries, got, client, available, state, rq>>

\* The requests that hold clientGuard of the invoker for reading.
Reading(i) == {r \in Requests : rq[r] = [at |-> "calling", on |-> i]}

SetClientUnlocked(i) ==
  /\ pc[i] = "release"
  /\ client' = [client EXCEPT ![i] = None]
  /\ Go(i, IF last[i] THEN "delete" ELSE "destroyed")
  /\ UNCHANGED <<mapVars, tries, got, available, last, clientVars, rq>>

\* setClient(nil) waits for the requests of the invoker.
SetClient(i) ==
  /\ pc[i] = "release"
  /\ Reading(i) = {}
  /\ client' = [client EXCEPT ![i] = None]
  /\ Go(i, IF last[i] THEN "delete" ELSE "destroyed")
  /\ UNCHANGED <<mapVars, tries, got, available, last, clientVars, rq>>

\* exchangeClientMap.Delete removes whatever client the address has.
Delete(i) ==
  /\ pc[i] = "delete"
  /\ exchangeClientMap' = None
  /\ Go(i, "close")
  /\ UNCHANGED <<exchangeLock, tries, got, invokerVars, clientVars, rq>>

Close(i) ==
  /\ pc[i] = "close"
  /\ state' = [state EXCEPT ![got[i]] = "closed"]
  /\ Go(i, "destroyed")
  /\ UNCHANGED <<mapVars, tries, got, invokerVars, activeNum, rq>>

-----------------------------------------------------------------------------
(* DubboInvoker.Invoke.                                                    *)

\* The first check of available, before the lock.
Invoke(r, i) ==
  /\ rq[r].at = "idle"
  /\ available[i]
  /\ rq' = [rq EXCEPT ![r] = [at |-> "checked", on |-> i]]
  /\ UNCHANGED <<mapVars, pc, tries, got, invokerVars, clientVars>>

\* Under clientGuard, the client and available are checked again.
Guard(r) ==
  /\ rq[r].at = "checked"
  /\ rq' = [rq EXCEPT ![r] =
              IF client[rq[r].on] # None /\ available[rq[r].on]
                THEN [at |-> "calling", on |-> rq[r].on]
                ELSE [at |-> "idle", on |-> None]]
  /\ UNCHANGED <<mapVars, pc, tries, got, invokerVars, clientVars>>

\* A variant without the request timeout.
ReplyNever(r) == FALSE /\ UNCHANGED vars

\* The exchange client answers or times out.
Reply(r) ==
  /\ rq[r].at = "calling"
  /\ rq' = [rq EXCEPT ![r] = [at |-> "idle", on |-> None]]
  /\ UNCHANGED <<mapVars, pc, tries, got, invokerVars, clientVars>>

ReferStep(i) ==
  \/ Load(i) \/ Lock(i) \/ Dial(i) \/ DialFails(i) \/ Store(i) \/ Unlock(i)
  \/ Wait(i) \/ WaiterUnlock(i) \/ Increase(i)

DestroyStep(i) == Decrease(i) \/ SetClient(i) \/ Delete(i) \/ Close(i)

Next ==
  \/ \E i \in Invokers : ReferStep(i) \/ Destroy(i) \/ DestroyStep(i)
  \/ \E r \in Requests : Guard(r) \/ Reply(r) \/ \E i \in Invokers : Invoke(r, i)

\* Goroutines run; the exchange layer answers or times out (CallEnds of
\* Exchange); a waiting writer of clientGuard holds new readers off, so
\* setClient is strongly fair.
Fairness ==
  /\ \A i \in Invokers :
       /\ WF_vars(pc[i] # "start" /\ ReferStep(i))
       /\ WF_vars(Decrease(i) \/ Delete(i) \/ Close(i))
       /\ SF_vars(SetClient(i))
  /\ \A r \in Requests : WF_vars(Guard(r) \/ Reply(r))

Spec == Init /\ [][Next]_vars /\ Fairness

-----------------------------------------------------------------------------
(* Properties.                                                             *)

Points == {"start", "miss", "dial", "store", "stored", "wait", "waited", "found",
           "failed", "live", "destroying", "release", "delete", "close", "destroyed"}

\* Every field has a value of its Go type.
TypeOK ==
  /\ exchangeClientMap \in Clients \cup {None}
  /\ exchangeLock \in BOOLEAN
  /\ pc \in [Invokers -> Points]
  /\ tries \in [Invokers -> 0 .. Retries]
  /\ got \in [Invokers -> Clients \cup {None}]
  /\ client \in [Invokers -> Clients \cup {None}]
  /\ available \in [Invokers -> BOOLEAN]
  /\ last \in [Invokers -> BOOLEAN]
  /\ activeNum \in [Clients -> 0 .. Width - 1]
  /\ state \in [Clients -> {"unused", "up", "closed"}]
  /\ rq \in [Requests -> [at : {"idle", "checked", "calling"}, on : Invokers \cup {None}]]

\* The invokers that have been counted as users of the client, and not yet
\* been discounted.
Users(c) ==
  {i \in Invokers : got[i] = c /\ pc[i] \in {"store", "stored", "live", "destroying"}}

\* The use counter of an ExchangeClient is exact at every moment, so that it
\* never wraps below zero and the last Destroy is the one that sees zero.
CountExact == \A c \in Clients : activeNum[c] = Cardinality(Users(c))

\* DubboInvoker.Destroy is graceful: once it has gone past setClient no
\* request of the invoker is still using the client, and none starts.
DrainedBeforeClose ==
  \A i \in Invokers : pc[i] \in {"delete", "close", "destroyed"} => Reading(i) = {}

\* No client is leaked: one that nobody uses has been closed, or a Destroy is
\* on the way to close it.
NoLeak ==
  \A c \in Clients :
    state[c] = "up" /\ activeNum[c] = 0 =>
      \E i \in Invokers :
        got[i] = c /\ last[i] /\ pc[i] \in {"release", "delete", "close"}

\* A request never finds the nil client: it holds clientGuard from its check
\* to its answer.
CallingHasClient == \A r \in Requests : rq[r].at = "calling" => client[rq[r].on] # None

\* Where an invoker's goroutine is says what it holds: a client that was
\* created, and in its client field while it is live or being drained.
HoldsCreated ==
  /\ \A i \in Invokers :
       /\ pc[i] \in {"store", "stored", "found", "live", "destroying", "release",
                     "delete", "close"} => got[i] \in Clients
       /\ got[i] # None => state[got[i]] # "unused"
       /\ client[i] = IF pc[i] \in {"live", "destroying", "release"} THEN got[i] ELSE None
       /\ available[i] => pc[i] = "live"
       /\ tries[i] = Retries => pc[i] # "wait"
       /\ pc[i] \in {"start", "miss"} => tries[i] = 0
       /\ pc[i] \in {"start", "miss", "dial", "wait"} => got[i] = None
  /\ exchangeClientMap # None => state[exchangeClientMap] # "unused"
  /\ \A r \in Requests : rq[r].at # "idle" => rq[r].on \in Invokers

\* The inductive invariant of the shared clients.
ClientsInv == TypeOK /\ HoldsCreated /\ CountExact /\ CallingHasClient /\ NoLeak

\* Refer ends, with an invoker or with nil, whoever dials or holds the lock
\* meanwhile; Destroy ends, although requests of the invoker keep arriving.
InvokersSettle ==
  \A i \in Invokers : /\ pc[i] = "miss" ~> pc[i] \in {"live", "failed"}
                      /\ pc[i] = "destroying" ~> pc[i] = "destroyed"

\* "It will create one connection for one address (ip+port)."
OneClientPerAddress ==
  Cardinality({c \in Clients : state[c] = "up" /\ activeNum[c] > 0}) <= 1

\* An invoker that is in use has a client that was not closed.
UsedAreUp == \A i \in Invokers : pc[i] = "live" => state[client[i]] = "up"
=============================================================================
