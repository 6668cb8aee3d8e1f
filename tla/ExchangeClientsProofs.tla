----------------------- MODULE ExchangeClientsProofs ------------------------
(***************************************************************************)
(* The use counters of the shared exchange clients are exact, Destroy      *)
(* drains its invoker and no client is leaked, for any number of invokers, *)
(* clients and requests.                                                   *)
(***************************************************************************)
EXTENDS ExchangeClients, FiniteSetTheorems, TLAPS

\* Most steps are first-order, and Zenon is the quickest to find them.
USE ZenonT(3), SMT, Zenon, SMTT(20)

\* A counter below the modulus is not changed by it.
LEMMA BelowWidth ==
  ASSUME NEW n \in Nat, n < Width
  PROVE  n % Width = n
  BY ExchangeClientsAssumption

\* The users of a client are finitely many, and fewer than the counter can count.
LEMMA UsersFinite ==
  ASSUME NEW c
  PROVE  /\ IsFiniteSet(Users(c))
         /\ Cardinality(Users(c)) \in Nat
         /\ Cardinality(Users(c)) <= Cardinality(Invokers)
PROOF
  <1>1. Users(c) \subseteq Invokers  BY DEF Users
  <1> QED BY <1>1, ExchangeClientsAssumption, FS_Subset, FS_CardinalityType

\* The initial state satisfies the invariant.
LEMMA InitInv == Init => ClientsInv
PROOF
  <1> SUFFICES ASSUME Init PROVE ClientsInv  OBVIOUS
  <1> USE ExchangeClientsAssumption DEF Init
  <1>1. Width > 0  BY FS_CardinalityType
  <1>2. TypeOK
    <2>1. 0 \in 0 .. Width - 1 /\ 0 \in 0 .. Retries  BY <1>1
    <2>2. pc \in [Invokers -> Points]  BY DEF Points
    <2>3. rq \in [Requests -> [at : {"idle", "checked", "calling"}, on : Invokers \cup {None}]]
      OBVIOUS
    <2> QED BY <2>1, <2>2, <2>3 DEF TypeOK
  <1>3. HoldsCreated  BY DEF HoldsCreated
  <1>4. \A c \in Clients : Users(c) = {}  BY DEF Users
  <1>5. CountExact  BY <1>4, FS_EmptySet DEF CountExact
  <1>6. CallingHasClient /\ NoLeak  BY DEF CallingHasClient, NoLeak
  <1> QED BY <1>2, <1>3, <1>5, <1>6 DEF ClientsInv

\* A step that leaves the counters, and the users, of the clients alone.
LEMMA SameUsers ==
  ASSUME CountExact, UNCHANGED activeNum, \A c \in Clients : Users(c)' = Users(c)
  PROVE  CountExact'
  BY DEF CountExact

\* The steps of a Refer before it counts itself, and the ends of Destroy.
LEMMA ReferInv ==
  ASSUME ClientsInv, NEW i \in Invokers,
         Load(i) \/ Lock(i) \/ DialFails(i) \/ Store(i) \/ Unlock(i) \/ Wait(i)
           \/ WaiterUnlock(i) \/ Destroy(i)
  PROVE  ClientsInv'
PROOF
  <1> USE ExchangeClientsAssumption DEF ClientsInv
  <1>1. TypeOK' /\ HoldsCreated'
    <2>1. CASE Load(i)
      BY <2>1 DEF Load, Go, TypeOK, HoldsCreated, Points, mapVars, invokerVars, clientVars
    <2>2. CASE Lock(i)
      <3>1. PICK p \in {"wait", "dial"} : pc' = [pc EXCEPT ![i] = p]
        BY <2>2 DEF Lock, Go
      <3>2. /\ pc[i] = "miss" /\ exchangeLock' = TRUE
            /\ UNCHANGED <<exchangeClientMap, tries, got, invokerVars, clientVars, rq>>
        BY <2>2 DEF Lock
      <3>3. tries[i] = Retries => p # "wait"
        BY <3>2 DEF HoldsCreated
      <3>4. TypeOK'  BY <3>1, <3>2 DEF TypeOK, Points, invokerVars, clientVars
      <3>5. HoldsCreated'
        BY <3>1, <3>2, <3>3 DEF TypeOK, HoldsCreated, invokerVars, clientVars
      <3> QED BY <3>4, <3>5
    <2>3. CASE DialFails(i)
      BY <2>3 DEF DialFails, Go, TypeOK, HoldsCreated, Points, mapVars, invokerVars, clientVars
    <2>4. CASE Store(i)
      BY <2>4 DEF Store, Go, TypeOK, HoldsCreated, Points, mapVars, invokerVars, clientVars
    <2>5. CASE Unlock(i)
      BY <2>5 DEF Unlock, NewInvoker, Go, TypeOK, HoldsCreated, Points, mapVars, clientVars
    <2>6. CASE Wait(i)
      <3>1. CASE exchangeClientMap # None
        BY <2>6, <3>1 DEF Wait, Go, TypeOK, HoldsCreated, Points, mapVars, invokerVars,
                          clientVars
      <3>2. CASE exchangeClientMap = None
        <4>1. tries[i] + 1 \in 0 .. Retries
          <5>1. pc[i] = "wait"  BY <2>6 DEF Wait
          <5>2. tries[i] \in 0 .. Retries /\ tries[i] # Retries
            BY <5>1 DEF TypeOK, HoldsCreated
          <5> QED BY <5>2
        <4>2. /\ tries' = [tries EXCEPT ![i] = @ + 1]
              /\ pc' = IF tries[i] + 1 = Retries THEN [pc EXCEPT ![i] = "waited"] ELSE pc
              /\ pc[i] = "wait"
              /\ UNCHANGED <<got, mapVars, invokerVars, clientVars, rq>>
          BY <2>6, <3>2 DEF Wait, Go
        <4>3. TypeOK'
          BY <4>1, <4>2 DEF TypeOK, Points, mapVars, invokerVars, clientVars
        <4>4. HoldsCreated'
          BY <4>1, <4>2 DEF TypeOK, HoldsCreated, mapVars, invokerVars, clientVars
        <4> QED BY <4>3, <4>4
      <3> QED BY <3>1, <3>2
    <2>7. CASE WaiterUnlock(i)
      <3>1. PICK p \in {"failed", "found"} :
              pc' = [pc EXCEPT ![i] = p] /\ (p = "found" => got[i] # None)
        BY <2>7 DEF WaiterUnlock, Go
      <3>2. /\ pc[i] = "waited" /\ exchangeLock' = FALSE
            /\ UNCHANGED <<exchangeClientMap, tries, got, invokerVars, clientVars, rq>>
        BY <2>7 DEF WaiterUnlock
      <3>3. TypeOK'  BY <3>1, <3>2 DEF TypeOK, Points, invokerVars, clientVars
      <3>4. HoldsCreated'
        BY <3>1, <3>2 DEF TypeOK, HoldsCreated, invokerVars, clientVars
      <3> QED BY <3>3, <3>4
    <2>8. CASE Destroy(i)
      BY <2>8 DEF Destroy, Go, TypeOK, HoldsCreated, Points, mapVars, clientVars
    <2> QED BY <2>1, <2>2, <2>3, <2>4, <2>5, <2>6, <2>7, <2>8
  <1>2. /\ UNCHANGED <<activeNum, state, last, rq>>
        /\ \A c \in Clients : Users(c)' = Users(c)
        /\ \A j \in Invokers :
             pc[j] \in {"release", "delete", "close"} => pc'[j] = pc[j] /\ got'[j] = got[j]
        /\ \A j \in Invokers : client[j] # None => client'[j] # None
    <2> USE DEF TypeOK, HoldsCreated, Users, Go, mapVars, invokerVars, clientVars
    <2>1. CASE Load(i)          BY <2>1 DEF Load
    <2>2. CASE Lock(i)          BY <2>2 DEF Lock
    <2>3. CASE DialFails(i)     BY <2>3 DEF DialFails
    <2>4. CASE Store(i)         BY <2>4 DEF Store
    <2>5. CASE Unlock(i)        BY <2>5 DEF Unlock, NewInvoker
    <2>6. CASE Wait(i)          BY <2>6 DEF Wait
    <2>7. CASE WaiterUnlock(i)  BY <2>7 DEF WaiterUnlock
    <2>8. CASE Destroy(i)       BY <2>8 DEF Destroy
    <2> QED BY <2>1, <2>2, <2>3, <2>4, <2>5, <2>6, <2>7, <2>8
  <1>3. CountExact'  BY <1>2, SameUsers
  <1>4. CallingHasClient'  BY <1>2 DEF CallingHasClient, HoldsCreated
  <1>5. NoLeak'
    <2> SUFFICES ASSUME NEW c \in Clients, state[c] = "up", activeNum[c] = 0
                 PROVE  \E j \in Invokers :
                          got'[j] = c /\ last[j] /\ pc'[j] \in {"release", "delete", "close"}
      BY <1>2 DEF NoLeak
    <2>1. PICK j \in Invokers :
            got[j] = c /\ last[j] /\ pc[j] \in {"release", "delete", "close"}
      BY DEF NoLeak
    <2> QED BY <1>2, <2>1
  <1> QED BY <1>1, <1>3, <1>4, <1>5

\* A client gains its user: the one that dialled it, or one that found it.
LEMMA CountUp ==
  ASSUME TypeOK, CountExact, NEW i \in Invokers, NEW c \in Clients, i \notin Users(c),
         activeNum' = [activeNum EXCEPT ![c] = (@ + 1) % Width],
         Users(c)' = Users(c) \cup {i},
         \A d \in Clients \ {c} : Users(d)' = Users(d),
         Cardinality(Users(c)') <= Cardinality(Invokers)
  PROVE  /\ CountExact'
         /\ activeNum' \in [Clients -> 0 .. Width - 1]
         /\ activeNum'[c] > 0
PROOF
  <1> USE ExchangeClientsAssumption
  <1>1. /\ Cardinality(Users(c)') = Cardinality(Users(c)) + 1
        /\ Cardinality(Users(c)) \in Nat
    BY UsersFinite, FS_AddElement
  <1>2. activeNum[c] = Cardinality(Users(c))  BY DEF CountExact
  <1>3. Cardinality(Invokers) \in Nat  BY FS_CardinalityType
  <1>4. activeNum[c] + 1 \in Nat /\ activeNum[c] + 1 < Width  BY <1>1, <1>2, <1>3
  <1>5. (activeNum[c] + 1) % Width = activeNum[c] + 1  BY <1>4, BelowWidth
  <1>6. /\ activeNum' \in [Clients -> 0 .. Width - 1]
        /\ activeNum'[c] = activeNum[c] + 1
        /\ \A d \in Clients \ {c} : activeNum'[d] = activeNum[d]
    BY <1>4, <1>5 DEF TypeOK
  <1>7. \A d \in Clients : activeNum'[d] = Cardinality(Users(d)')
    BY <1>1, <1>2, <1>6 DEF CountExact
  <1>8. CountExact'  BY <1>7 DEF CountExact
  <1> QED BY <1>1, <1>2, <1>6, <1>8

\* The holder of the lock dials: the new client has one user.
LEMMA DialInv ==
  ASSUME ClientsInv, NEW i \in Invokers, Dial(i)
  PROVE  ClientsInv'
PROOF
  <1> USE ExchangeClientsAssumption DEF ClientsInv
  <1>1. PICK c \in Clients :
          /\ state[c] = "unused"
          /\ state' = [state EXCEPT ![c] = "up"]
          /\ activeNum' = [activeNum EXCEPT ![c] = (@ + 1) % Width]
          /\ got' = [got EXCEPT ![i] = c]
    BY DEF Dial
  <1>2. /\ pc[i] = "dial" /\ pc' = [pc EXCEPT ![i] = "store"]
        /\ UNCHANGED <<mapVars, tries, invokerVars, rq>>
    BY DEF Dial, Go
  <1>3. /\ Users(c)' = Users(c) \cup {i}
        /\ \A d \in Clients \ {c} : Users(d)' = Users(d)
        /\ i \notin Users(c)
    BY <1>1, <1>2 DEF Users, TypeOK
  <1>4. Cardinality(Users(c)') <= Cardinality(Invokers)
    <2>1. Users(c)' \subseteq Invokers  BY DEF Users
    <2> QED BY <2>1, FS_Subset
  <1>5. CountExact' /\ activeNum' \in [Clients -> 0 .. Width - 1] /\ activeNum'[c] > 0
    BY <1>1, <1>3, <1>4, CountUp
  <1>6. TypeOK'
    BY <1>1, <1>2, <1>5 DEF TypeOK, Points, mapVars, invokerVars
  <1>7. HoldsCreated'
    BY <1>1, <1>2 DEF HoldsCreated, TypeOK, mapVars, invokerVars
  <1>8. CallingHasClient'
    BY <1>2 DEF CallingHasClient, invokerVars
  <1>9. NoLeak'
    <2> SUFFICES ASSUME NEW d \in Clients, state'[d] = "up", activeNum'[d] = 0
                 PROVE  \E j \in Invokers :
                          got'[j] = d /\ last'[j] /\ pc'[j] \in {"release", "delete", "close"}
      BY DEF NoLeak
    <2>1. d # c  BY <1>5
    <2>2. PICK j \in Invokers :
            got[j] = d /\ last[j] /\ pc[j] \in {"release", "delete", "close"}
      BY <1>1, <2>1 DEF NoLeak, TypeOK
    <2> QED BY <1>1, <1>2, <2>2 DEF TypeOK, invokerVars
  <1> QED BY <1>5, <1>6, <1>7, <1>8, <1>9

\* An invoker that found a client becomes one of its users.
LEMMA IncreaseInv ==
  ASSUME ClientsInv, NEW i \in Invokers, Increase(i)
  PROVE  ClientsInv'
PROOF
  <1> USE ExchangeClientsAssumption DEF ClientsInv
  <1>1. PICK c \in Clients : c = got[i]
    BY DEF HoldsCreated, Increase
  <1>2. /\ pc[i] = "found" /\ pc' = [pc EXCEPT ![i] = "live"]
        /\ activeNum' = [activeNum EXCEPT ![c] = (@ + 1) % Width]
        /\ client' = [client EXCEPT ![i] = c]
        /\ available' = [available EXCEPT ![i] = TRUE]
        /\ UNCHANGED <<mapVars, tries, got, last, state, rq>>
    BY <1>1 DEF Increase, NewInvoker, Go
  <1>3. /\ Users(c)' = Users(c) \cup {i}
        /\ \A d \in Clients \ {c} : Users(d)' = Users(d)
        /\ i \notin Users(c)
    BY <1>2, <1>1 DEF Users, TypeOK
  <1>4. Cardinality(Users(c)') <= Cardinality(Invokers)
    <2>1. Users(c)' \subseteq Invokers  BY DEF Users
    <2> QED BY <2>1, FS_Subset
  <1>5. CountExact' /\ activeNum' \in [Clients -> 0 .. Width - 1] /\ activeNum'[c] > 0
    BY <1>2, <1>1, <1>3, <1>4, CountUp
  <1>6. TypeOK'
    BY <1>2, <1>1, <1>5 DEF TypeOK, Points, mapVars
  <1>7. HoldsCreated'
    BY <1>2, <1>1 DEF HoldsCreated, TypeOK, mapVars
  <1>8. CallingHasClient'
    BY <1>2, <1>1 DEF CallingHasClient, HoldsCreated, TypeOK
  <1>9. NoLeak'
    <2> SUFFICES ASSUME NEW d \in Clients, state'[d] = "up", activeNum'[d] = 0
                 PROVE  \E j \in Invokers :
                          got'[j] = d /\ last'[j] /\ pc'[j] \in {"release", "delete", "close"}
      BY DEF NoLeak
    <2>1. d # c  BY <1>5
    <2>2. PICK j \in Invokers :
            got[j] = d /\ last[j] /\ pc[j] \in {"release", "delete", "close"}
      BY <1>2, <2>1 DEF NoLeak, TypeOK
    <2> QED BY <1>2, <2>2 DEF TypeOK
  <1> QED BY <1>5, <1>6, <1>7, <1>8, <1>9

\* Destroy gives its use up; the last one has the client to close.
LEMMA DecreaseInv ==
  ASSUME ClientsInv, NEW i \in Invokers, Decrease(i)
  PROVE  ClientsInv'
PROOF
  <1> USE ExchangeClientsAssumption DEF ClientsInv
  <1>1. PICK c \in Clients : c = got[i]
    BY DEF HoldsCreated, Decrease
  <1> DEFINE n == (activeNum[c] - 1) % Width
  <1>2. /\ pc[i] = "destroying" /\ pc' = [pc EXCEPT ![i] = "release"]
        /\ activeNum' = [activeNum EXCEPT ![c] = n]
        /\ last' = [last EXCEPT ![i] = n = 0]
        /\ UNCHANGED <<mapVars, tries, got, client, available, state, rq>>
    BY <1>1 DEF Decrease, Go
  <1>3. /\ i \in Users(c)
        /\ Users(c)' = Users(c) \ {i}
        /\ \A d \in Clients \ {c} : Users(d)' = Users(d)
    BY <1>1, <1>2 DEF Users, TypeOK
  <1>4. /\ Cardinality(Users(c)') = Cardinality(Users(c)) - 1
        /\ Cardinality(Users(c)) \in Nat /\ Cardinality(Users(c)') \in Nat
    <2>1. /\ IsFiniteSet(Users(c)) /\ Cardinality(Users(c)) \in Nat
      BY UsersFinite
    <2>2. /\ IsFiniteSet(Users(c) \ {i})
          /\ Cardinality(Users(c) \ {i}) = Cardinality(Users(c)) - 1
      BY <1>3, <2>1, FS_RemoveElement
    <2> QED BY <1>3, <2>1, <2>2, FS_CardinalityType
  <1>5. activeNum[c] = Cardinality(Users(c)) /\ activeNum[c] \in 0 .. Width - 1
    BY DEF CountExact, TypeOK
  <1>6. n = activeNum[c] - 1 /\ n \in 0 .. Width - 1
    BY <1>4, <1>5, BelowWidth
  <1> HIDE DEF n
  <1>7. \A d \in Clients : activeNum'[d] = Cardinality(Users(d)')
    BY <1>2, <1>3, <1>4, <1>5, <1>6 DEF CountExact, TypeOK
  <1>8. CountExact'  BY <1>7 DEF CountExact
  <1>9. TypeOK'
    BY <1>2, <1>6 DEF TypeOK, Points, mapVars
  <1>10. HoldsCreated'
    BY <1>2 DEF HoldsCreated, TypeOK, mapVars
  <1>11. CallingHasClient'
    BY <1>2 DEF CallingHasClient
  <1>12. NoLeak'
    <2> SUFFICES ASSUME NEW d \in Clients, state'[d] = "up", activeNum'[d] = 0
                 PROVE  \E j \in Invokers :
                          got'[j] = d /\ last'[j] /\ pc'[j] \in {"release", "delete", "close"}
      BY DEF NoLeak
    <2>1. CASE d = c
      BY <1>1, <1>2, <2>1 DEF TypeOK
    <2>2. CASE d # c
      <3>1. PICK j \in Invokers :
              got[j] = d /\ last[j] /\ pc[j] \in {"release", "delete", "close"}
        BY <1>2, <2>2 DEF NoLeak, TypeOK
      <3> QED BY <1>2, <3>1 DEF TypeOK
    <2> QED BY <2>1, <2>2
  <1> QED BY <1>8, <1>9, <1>10, <1>11, <1>12

\* setClient(nil) holds clientGuard, so no request is between its check and
\* its answer.
LEMMA SetClientInv ==
  ASSUME ClientsInv, NEW i \in Invokers, SetClient(i)
  PROVE  ClientsInv'
PROOF
  <1> USE ExchangeClientsAssumption DEF ClientsInv
  <1>1. PICK p \in {"delete", "destroyed"} :
          pc' = [pc EXCEPT ![i] = p] /\ (last[i] => p = "delete")
    BY DEF SetClient, Go
  <1>2. /\ pc[i] = "release" /\ Reading(i) = {}
        /\ client' = [client EXCEPT ![i] = None]
        /\ UNCHANGED <<mapVars, tries, got, available, last, clientVars, rq>>
    BY DEF SetClient
  <1>3. TypeOK'  BY <1>1, <1>2 DEF TypeOK, Points, mapVars, clientVars
  <1>4. HoldsCreated'
    BY <1>1, <1>2 DEF HoldsCreated, TypeOK, mapVars, clientVars
  <1>5. \A c \in Clients : Users(c)' = Users(c)
    BY <1>1, <1>2 DEF Users, TypeOK
  <1>6. CountExact'  BY <1>2, <1>5, SameUsers DEF clientVars
  <1>7. CallingHasClient'
    <2> SUFFICES ASSUME NEW r \in Requests, rq[r].at = "calling"
                 PROVE  client'[rq[r].on] # None
      BY <1>2 DEF CallingHasClient
    <2>1. rq[r].on \in Invokers /\ client[rq[r].on] # None
      BY DEF HoldsCreated, CallingHasClient
    <2>2. rq[r] = [at |-> rq[r].at, on |-> rq[r].on]  BY DEF TypeOK
    <2>3. rq[r].on # i  BY <1>2, <2>2 DEF Reading
    <2> QED BY <1>2, <2>1, <2>3 DEF TypeOK
  <1>8. NoLeak'
    BY <1>1, <1>2 DEF NoLeak, TypeOK, clientVars
  <1> QED BY <1>3, <1>4, <1>6, <1>7, <1>8

\* The last user deletes the client from the map and closes it.
LEMMA DeleteCloseInv ==
  ASSUME ClientsInv, NEW i \in Invokers, Delete(i) \/ Close(i)
  PROVE  ClientsInv'
PROOF
  <1> USE ExchangeClientsAssumption DEF ClientsInv
  <1>1. CASE Delete(i)
    <2>1. /\ pc[i] = "delete" /\ pc' = [pc EXCEPT ![i] = "close"]
          /\ exchangeClientMap' = None
          /\ UNCHANGED <<exchangeLock, tries, got, invokerVars, clientVars, rq>>
      BY <1>1 DEF Delete, Go
    <2>2. TypeOK'  BY <2>1 DEF TypeOK, Points, invokerVars, clientVars
    <2>3. HoldsCreated'  BY <2>1 DEF HoldsCreated, TypeOK, invokerVars, clientVars
    <2>4. \A c \in Clients : Users(c)' = Users(c)  BY <2>1 DEF Users, TypeOK
    <2>5. CountExact'  BY <2>1, <2>4, SameUsers DEF clientVars
    <2>6. CallingHasClient'  BY <2>1 DEF CallingHasClient, invokerVars
    <2>7. NoLeak'  BY <2>1 DEF NoLeak, TypeOK, invokerVars, clientVars
    <2> QED BY <2>2, <2>3, <2>5, <2>6, <2>7
  <1>2. CASE Close(i)
    <2>1. PICK c \in Clients : c = got[i]
      BY <1>2 DEF HoldsCreated, Close
    <2>2. /\ pc[i] = "close" /\ pc' = [pc EXCEPT ![i] = "destroyed"]
          /\ state' = [state EXCEPT ![c] = "closed"]
          /\ UNCHANGED <<mapVars, tries, got, invokerVars, activeNum, rq>>
      BY <1>2, <2>1 DEF Close, Go
    <2>3. TypeOK'  BY <2>2 DEF TypeOK, Points, mapVars, invokerVars
    <2>4. HoldsCreated'  BY <2>2 DEF HoldsCreated, TypeOK, mapVars, invokerVars
    <2>5. \A d \in Clients : Users(d)' = Users(d)  BY <2>2 DEF Users, TypeOK
    <2>6. CountExact'  BY <2>2, <2>5, SameUsers
    <2>7. CallingHasClient'  BY <2>2 DEF CallingHasClient, invokerVars
    <2>8. NoLeak'  BY <2>1, <2>2 DEF NoLeak, TypeOK, invokerVars
    <2> QED BY <2>3, <2>4, <2>6, <2>7, <2>8
  <1> QED BY <1>1, <1>2

\* A request enters, is answered, or is refused by the guard.
LEMMA RequestInv ==
  ASSUME ClientsInv, NEW r \in Requests,
         Guard(r) \/ Reply(r) \/ \E i \in Invokers : Invoke(r, i)
  PROVE  ClientsInv'
PROOF
  <1> USE ExchangeClientsAssumption DEF ClientsInv
  <1>1. UNCHANGED <<mapVars, pc, tries, got, invokerVars, clientVars>>
    BY DEF Guard, Reply, Invoke
  <1>2. PICK q \in [at : {"idle", "checked", "calling"}, on : Invokers \cup {None}] :
          /\ rq' = [rq EXCEPT ![r] = q]
          /\ q.at # "idle" => q.on \in Invokers
          /\ q.at = "calling" => client[q.on] # None
    <2> DEFINE QType == [at : {"idle", "checked", "calling"}, on : Invokers \cup {None}]
    <2>1. CASE Reply(r)
      <3> DEFINE q == [at |-> "idle", on |-> None]
      <3>1. rq' = [rq EXCEPT ![r] = q]  BY <2>1 DEF Reply
      <3> WITNESS q \in QType
      <3> QED BY <3>1
    <2>2. CASE \E i \in Invokers : Invoke(r, i)
      <3>1. PICK i \in Invokers : Invoke(r, i)  BY <2>2
      <3> DEFINE q == [at |-> "checked", on |-> i]
      <3>2. rq' = [rq EXCEPT ![r] = q]  BY <3>1 DEF Invoke
      <3> WITNESS q \in QType
      <3> QED BY <3>2
    <2>3. CASE Guard(r)
      <3>1. rq[r].on \in Invokers  BY <2>3 DEF Guard, HoldsCreated
      <3>2. CASE client[rq[r].on] # None /\ available[rq[r].on]
        <4> DEFINE q == [at |-> "calling", on |-> rq[r].on]
        <4>1. rq' = [rq EXCEPT ![r] = q]  BY <2>3, <3>2 DEF Guard
        <4>2. q \in QType  BY <3>1
        <4> WITNESS q \in QType
        <4> QED BY <3>1, <3>2, <4>1
      <3>3. CASE ~(client[rq[r].on] # None /\ available[rq[r].on])
        <4> DEFINE q == [at |-> "idle", on |-> None]
        <4>1. rq' = [rq EXCEPT ![r] = q]  BY <2>3, <3>3 DEF Guard
        <4> WITNESS q \in QType
        <4> QED BY <4>1
      <3> QED BY <3>2, <3>3
    <2> QED BY <2>1, <2>2, <2>3
  <1>3. TypeOK'  BY <1>1, <1>2 DEF TypeOK, mapVars, invokerVars, clientVars
  <1>4. HoldsCreated'
    BY <1>1, <1>2 DEF HoldsCreated, TypeOK, mapVars, invokerVars, clientVars
  <1>5. \A c \in Clients : Users(c)' = Users(c)  BY <1>1 DEF Users
  <1>6. CountExact'  BY <1>1, <1>5, SameUsers DEF clientVars
  <1>7. CallingHasClient'
    BY <1>1, <1>2 DEF CallingHasClient, TypeOK, invokerVars
  <1>8. NoLeak'  BY <1>1 DEF NoLeak, invokerVars, clientVars
  <1> QED BY <1>3, <1>4, <1>6, <1>7, <1>8

\* Every step keeps the invariant.
LEMMA NextInv == ClientsInv /\ [Next]_vars => ClientsInv'
PROOF
  <1> SUFFICES ASSUME ClientsInv, [Next]_vars PROVE ClientsInv'  OBVIOUS
  <1>1. ASSUME NEW i \in Invokers, ReferStep(i) \/ Destroy(i) \/ DestroyStep(i)
        PROVE  ClientsInv'
    BY <1>1, ReferInv, DialInv, IncreaseInv, DecreaseInv, SetClientInv, DeleteCloseInv
    DEF ReferStep, DestroyStep
  <1>2. ASSUME NEW r \in Requests,
               Guard(r) \/ Reply(r) \/ \E i \in Invokers : Invoke(r, i)
        PROVE  ClientsInv'
    BY <1>2, RequestInv
  <1>3. ASSUME UNCHANGED vars PROVE ClientsInv'
    <2>1. \A c \in Clients : Users(c)' = Users(c)  BY <1>3 DEF Users, vars
    <2>2. CountExact'  BY <1>3, <2>1, SameUsers DEF ClientsInv, vars
    <2> QED BY <1>3, <2>2 DEF ClientsInv, TypeOK, HoldsCreated, CallingHasClient, NoLeak, vars
  <1> QED BY <1>1, <1>2, <1>3 DEF Next

\* Every reachable state of the shared clients satisfies the invariant.
THEOREM ClientsInvariance == Spec => []ClientsInv
  BY InitInv, NextInv, PTL DEF Spec

\* IncreaseActiveNumber and DecreaseActiveNumber keep an exact count of the
\* invokers of a client, whatever getExchangeClient and Destroy interleave.
THEOREM CountsAreExact == Spec => []CountExact
  BY ClientsInvariance, PTL DEF ClientsInv

\* A client without users has been closed or is about to be: Destroy of the
\* last user never misses the zero.
THEOREM ClientsAreNotLeaked == Spec => []NoLeak
  BY ClientsInvariance, PTL DEF ClientsInv

\* Past setClient in Destroy no request of the invoker is in flight.
THEOREM DestroyDrains == Spec => []DrainedBeforeClose
PROOF
  <1>1. ClientsInv => DrainedBeforeClose
    BY DEF ClientsInv, DrainedBeforeClose, CallingHasClient, HoldsCreated, Reading
  <1> QED BY <1>1, ClientsInvariance, PTL
=============================================================================
