--------------------------- MODULE ExchangeProofs ---------------------------
(* Proofs about the exchange layer, for any number of invocations,         *)
(* heartbeats and attempts.                                                *)
EXTENDS Exchange, TLAPS

\* Most steps are first-order, and Zenon is the quickest to find them.
USE ZenonT(3), SMT, Zenon, SMTT(20)

\* A key is in Registered exactly when the worker that drew it registers.
LEMMA RegisteredDef ==
  \A k : k \in Registered <=> \E w \in Workers : Registers(w) /\ k \in mine[w]
BY DEF Registered

\* The two-way requests are the registered ones.
LEMMA TwoWayRegistered == \A k : IsTwoWay(k) <=> k \in Registered
BY RegisteredDef DEF IsTwoWay

\* Registered changes only when a worker draws an id.
LEMMA RegisteredSame ==
  ASSUME mine' = mine, kind' = kind
  PROVE  Registered' = Registered
BY DEF Registered, Registers

\* The initial state satisfies the invariant.
LEMMA InitInv == Init => ExchangeInv
<1> SUFFICES ASSUME Init PROVE ExchangeInv
  OBVIOUS
<1>1. TypeOK
  BY DEF Init, TypeOK, Ends, Key
<1>2. Registered = {}
  BY RegisteredDef DEF Init
<1>3. Fresh
  BY DEF Init, Fresh
<1>4. Current
  BY DEF Init, Current
<1>5. Stages
  BY <1>2 DEF Init, Stages
<1>6. Replies
  BY DEF Init, Replies
<1>7. TableExact
  BY <1>2 DEF Init, TableExact
<1>8. NoPanic /\ CompletedOnce
  BY DEF Init, NoPanic, CompletedOnce
<1>9. ReplyIsOwn
  BY DEF Init, ReplyIsOwn, Workers
<1> QED
  BY <1>1, <1>3, <1>4, <1>5, <1>6, <1>7, <1>8, <1>9 DEF ExchangeInv

\* Drawing an id and storing the entry.
LEMMA PrepareInv ==
  ASSUME ExchangeInv, NEW w \in Workers, Prepare(w)
  PROVE  ExchangeInv'
<1> DEFINE e == End(w)
           k == <<e, SequenceID(e)>>
<1>1. e \in Ends /\ sequence[e] \in Nat /\ k \in Key
  BY DEF ExchangeInv, TypeOK, End, Ends, Key, SequenceID
<1>2. \A v \in Workers : k \notin mine[v]
  BY <1>1 DEF ExchangeInv, TypeOK, Fresh, SequenceID, Key
<1>3. k \notin requests /\ k \notin served
  BY <1>2 DEF ExchangeInv, Stages
<1>4. /\ sequence' = [sequence EXCEPT ![e] = SequenceID(e)]
      /\ mine' = [mine EXCEPT ![w] = @ \cup {k}]
      /\ cur' = [cur EXCEPT ![w] = k]
      /\ pc' = [pc EXCEPT ![w] = "prepared"]
      /\ attempts' = [attempts EXCEPT ![w] = @ + 1]
      /\ kind' = kind
      /\ AddPendingResponse(w, k)
      /\ pc[w] \in {"idle", "err"}
  BY DEF Prepare
<1>5. UNCHANGED <<wireVars, doneVars>>
  BY DEF Prepare
<1>6. \A j : j \in Registered' <=> (j \in Registered \/ (j = k /\ Registers(w)))
  BY <1>4 DEF Registered, Registers, ExchangeInv, TypeOK
<1>7. TypeOK'
  BY <1>1, <1>4, <1>5 DEF ExchangeInv, TypeOK, wireVars, doneVars, SequenceID,
     AddPendingResponse
<1>8. Fresh'
  BY <1>1, <1>2, <1>4 DEF ExchangeInv, TypeOK, Fresh, SequenceID, Key
<1>9. Current'
  BY <1>3, <1>4, <1>5 DEF ExchangeInv, TypeOK, Current, wireVars
<1>10. Stages'
  BY <1>3, <1>4, <1>5, <1>6 DEF ExchangeInv, TypeOK, Stages, wireVars, doneVars
<1>11. Replies'
  <2> SUFFICES ASSUME NEW c \in Callers PROVE Replies!(c)'
    BY DEF Replies
  <2>1. mine[c] \subseteq mine'[c] /\ mine'[c] \subseteq mine[c] \cup {k}
    BY <1>4 DEF ExchangeInv, TypeOK, Workers
  <2>2. k \notin decoded \cup loaded \cup taken \cup completed
    BY <1>3 DEF ExchangeInv, Stages
  <2> QED
    BY <2>1, <2>2, <1>5 DEF ExchangeInv, Replies, wireVars, doneVars
<1>12. TableExact'
  <2>1. k \notin taken \cup completed
    BY <1>3 DEF ExchangeInv, Stages
  <2> QED
    BY <2>1, <1>4, <1>5, <1>6 DEF ExchangeInv, TableExact, AddPendingResponse, doneVars
<1>13. NoPanic' /\ CompletedOnce'
  BY <1>5 DEF ExchangeInv, NoPanic, CompletedOnce, doneVars
<1>14. ReplyIsOwn'
  BY <1>4, <1>5 DEF ExchangeInv, TypeOK, ReplyIsOwn, doneVars, Workers
<1> QED
  BY <1>7, <1>8, <1>9, <1>10, <1>11, <1>12, <1>13, <1>14 DEF ExchangeInv

\* An attempt that fails before it draws an id.
LEMMA PrepareFailsInv ==
  ASSUME ExchangeInv, NEW w \in Workers, PrepareFails(w)
  PROVE  ExchangeInv'
<1>1. /\ pc[w] \in {"idle", "err"}
      /\ pc' = [pc EXCEPT ![w] = "err"]
      /\ attempts' = [attempts EXCEPT ![w] = @ + 1]
      /\ UNCHANGED <<tableVars, kind, mine, cur, wireVars, doneVars>>
  BY DEF PrepareFails
<1>2. Registered' = Registered
  BY <1>1, RegisteredSame
<1>3. TypeOK'
  BY <1>1 DEF ExchangeInv, TypeOK, tableVars, wireVars, doneVars
<1>4. Fresh' /\ Stages' /\ Replies' /\ TableExact' /\ NoPanic' /\ CompletedOnce'
  BY <1>1, <1>2 DEF ExchangeInv, Fresh, Stages, Replies, TableExact, NoPanic,
     CompletedOnce, tableVars, wireVars, doneVars
<1>5. Current'
  BY <1>1 DEF ExchangeInv, TypeOK, Current, wireVars
<1>6. ReplyIsOwn'
  BY <1>1 DEF ExchangeInv, TypeOK, ReplyIsOwn, Workers, doneVars
<1> QED
  BY <1>3, <1>4, <1>5, <1>6 DEF ExchangeInv

\* Writing the request: the key was unsent, so no answer to it exists.
LEMMA TransferOKInv ==
  ASSUME ExchangeInv, NEW w \in Workers, TransferOK(w)
  PROVE  ExchangeInv'
<1>1. /\ pc[w] = "prepared"
      /\ requests' = requests \cup {cur[w]}
      /\ pc' = [pc EXCEPT ![w] = AfterWrite(w)]
      /\ UNCHANGED <<tableVars, kind, attempts, mine, cur, up, answers, served,
                     exceptions, doneVars>>
  BY DEF TransferOK
<1>2. cur[w] \in mine[w] /\ cur[w] \notin served
  BY <1>1 DEF ExchangeInv, Current
<1>3. Registered' = Registered
  BY <1>1, RegisteredSame
<1>4. AfterWrite(w) \in {"waiting", "returned"}
  BY DEF AfterWrite
<1>5. TypeOK'
  BY <1>1, <1>2, <1>4 DEF ExchangeInv, TypeOK, tableVars, doneVars
<1>6. Fresh'
  BY <1>1 DEF ExchangeInv, Fresh, tableVars
<1>7. Current'
  <2> SUFFICES ASSUME NEW v \in Workers PROVE Current!(v)'
    BY DEF Current
  <2>1. CASE v = w
    BY <2>1, <1>1, <1>2, <1>4 DEF ExchangeInv, TypeOK, AfterWrite
  <2>2. CASE v # w
    <3>1. pc'[v] = pc[v] /\ cur'[v] = cur[v] /\ mine'[v] = mine[v]
          /\ kind' = kind
      BY <2>2, <1>1 DEF ExchangeInv, TypeOK
    <3>2. pc[v] = "prepared" => cur[v] # cur[w]
      BY <2>2, <1>2 DEF ExchangeInv, Current, Fresh
    <3> QED
      BY <3>1, <3>2, <1>1 DEF ExchangeInv, Current
  <2> QED
    BY <2>1, <2>2
<1>8. Stages'
  BY <1>1, <1>2, <1>3 DEF ExchangeInv, Stages, doneVars
<1>9. Replies' /\ TableExact' /\ NoPanic' /\ CompletedOnce'
  BY <1>1, <1>3 DEF ExchangeInv, Replies, TableExact, NoPanic, CompletedOnce,
     tableVars, doneVars
<1>10. ReplyIsOwn'
  <2> SUFFICES ASSUME NEW c \in Callers, pc'[c] = "returned", kind'[c] = "sync"
               PROVE  reply'[c] \in mine'[c]
    BY DEF ReplyIsOwn
  <2>1. c \in Workers
    BY DEF Workers
  <2>2. c # w
    BY <1>1, <2>1 DEF ExchangeInv, TypeOK, AfterWrite
  <2> QED
    BY <1>1, <2>1, <2>2 DEF ExchangeInv, TypeOK, ReplyIsOwn, doneVars
<1> QED
  BY <1>5, <1>6, <1>7, <1>8, <1>9, <1>10 DEF ExchangeInv

\* The steps of a worker that only move its control point to a value other
\* than "prepared".
LEMMA ControlInv ==
  ASSUME ExchangeInv, NEW w \in Workers,
         NEW p \in {"waiting", "returned", "err"},
         pc[w] \in {"prepared", "waiting"},
         pc' = [pc EXCEPT ![w] = p],
         p = "waiting" => IsBeat(w) \/ kind[w] = "sync",
         w \in Callers /\ p = "returned" /\ kind[w] = "sync" => reply[w] \in mine[w],
         UNCHANGED <<tableVars, kind, attempts, mine, cur, wireVars, doneVars>>
  PROVE  ExchangeInv'
<1>1. Registered' = Registered
  BY RegisteredSame
<1>2. TypeOK'
  BY DEF ExchangeInv, TypeOK, tableVars, wireVars, doneVars
<1>3. Fresh' /\ Stages' /\ Replies' /\ TableExact' /\ NoPanic' /\ CompletedOnce'
  BY <1>1 DEF ExchangeInv, Fresh, Stages, Replies, TableExact, NoPanic,
     CompletedOnce, tableVars, wireVars, doneVars
<1>4. Current'
  BY DEF ExchangeInv, TypeOK, Current, wireVars
<1>5. ReplyIsOwn'
  BY DEF ExchangeInv, TypeOK, ReplyIsOwn, Workers, doneVars
<1> QED
  BY <1>2, <1>3, <1>4, <1>5 DEF ExchangeInv

\* Failing to write, returning and timing out.
LEMMA WorkerInv ==
  ASSUME ExchangeInv, NEW w \in Workers,
         TransferFails(w) \/ Return(w) \/ Timeout(w)
  PROVE  ExchangeInv'
<1>1. CASE TransferFails(w)
  <2> DEFINE p == IF IsBeat(w) THEN "waiting" ELSE "err"
  <2>1. p \in {"waiting", "returned", "err"} /\ p # "returned"
        /\ (p = "waiting" => IsBeat(w))
    OBVIOUS
  <2> QED
    BY <1>1, <2>1, ControlInv DEF TransferFails
<1>2. CASE Return(w)
  <2> DEFINE p == IF cur[w] \in exceptions THEN "err" ELSE "returned"
  <2>1. p \in {"waiting", "returned", "err"} /\ p # "waiting"
    OBVIOUS
  <2>2. w \in Callers /\ p = "returned" => reply[w] \in mine[w]
    BY <1>2 DEF Return, ExchangeInv, Replies, Current
  <2> QED
    BY <1>2, <2>1, <2>2, ControlInv DEF Return
<1>3. CASE Timeout(w)
  BY <1>3, ControlInv DEF Timeout
<1> QED
  BY <1>1, <1>2, <1>3

\* Losing and opening the session.
LEMMA SessionInv ==
  ASSUME ExchangeInv, SessionLost \/ SessionOpened
  PROVE  ExchangeInv'
<1>1. /\ up' \in BOOLEAN
      /\ requests' \subseteq requests /\ answers' \subseteq answers
      /\ UNCHANGED <<tableVars, callVars, served, exceptions, doneVars>>
  BY DEF SessionLost, SessionOpened
<1>2. Registered' = Registered
  BY <1>1, RegisteredSame DEF callVars
<1>3. TypeOK'
  BY <1>1 DEF ExchangeInv, TypeOK, tableVars, callVars, doneVars
<1>4. Current'
  BY <1>1 DEF ExchangeInv, Current, callVars
<1>5. Stages'
  BY <1>1, <1>2 DEF ExchangeInv, Stages, callVars, doneVars
<1>6. Fresh' /\ Replies' /\ TableExact' /\ NoPanic' /\ CompletedOnce' /\ ReplyIsOwn'
  BY <1>1, <1>2 DEF ExchangeInv, Fresh, Replies, TableExact, NoPanic,
     CompletedOnce, ReplyIsOwn, tableVars, callVars, doneVars
<1> QED
  BY <1>3, <1>4, <1>5, <1>6 DEF ExchangeInv

\* The peer serves a request, with a value, an exception or a panic: the
\* request leaves the wire, so it is served only once.
LEMMA ServeInv ==
  ASSUME ExchangeInv, NEW k \in requests,
         Serve(k) \/ ServeException(k) \/ ServePanics(k)
  PROVE  ExchangeInv'
<1>1. /\ requests' = requests \ {k}
      /\ served' = served \cup {k}
      /\ answers \subseteq answers' /\ answers' \subseteq answers \cup {k}
      /\ answers' # answers => IsTwoWay(k)
      /\ exceptions \subseteq exceptions' /\ exceptions' \subseteq exceptions \cup {k}
      /\ UNCHANGED <<tableVars, callVars, up, doneVars>>
  BY DEF Serve, ServeException, ServePanics
<1>2. k \notin served
  BY DEF ExchangeInv, Stages
<1>3. k \notin answers \cup decoded \cup loaded \cup taken \cup completed
  BY <1>2 DEF ExchangeInv, Stages
<1>4. Registered' = Registered
  BY <1>1, RegisteredSame DEF callVars
<1>5. TypeOK'
  BY <1>1 DEF ExchangeInv, TypeOK, tableVars, callVars, doneVars
<1>6. Current'
  BY <1>1 DEF ExchangeInv, Current, callVars
<1>7. Stages'
  BY <1>1, <1>2, <1>3, <1>4, TwoWayRegistered
     DEF ExchangeInv, Stages, callVars, doneVars
<1>8. Replies'
  BY <1>1, <1>3 DEF ExchangeInv, Replies, callVars, doneVars
<1>9. Fresh' /\ TableExact' /\ NoPanic' /\ CompletedOnce' /\ ReplyIsOwn'
  BY <1>1, <1>4 DEF ExchangeInv, Fresh, TableExact, NoPanic,
     CompletedOnce, ReplyIsOwn, tableVars, callVars, doneVars
<1> QED
  BY <1>5, <1>6, <1>7, <1>8, <1>9 DEF ExchangeInv

\* Decoding an answer: its entry is in the table, and the Reply written is
\* that of the invocation that drew the key.
LEMMA DecodeInv ==
  ASSUME ExchangeInv, NEW k \in answers, Decode(k)
  PROVE  ExchangeInv'
<1>1. /\ answers' = answers \ {k}
      /\ decoded' = decoded \cup {k} /\ arrived' = arrived \cup {k}
      /\ panicked' = (panicked \/ (~IsHeartbeat(k) /\ k \notin pendingResponses))
      /\ reply' = [c \in Callers |->
                     IF k \in mine[c] /\ k \in pendingResponses /\ k \notin exceptions
                       THEN k ELSE reply[c]]
      /\ UNCHANGED <<tableVars, callVars, up, requests, served, exceptions,
                     loaded, taken, completed, twice>>
  BY DEF Decode
<1>2. /\ k \in served /\ k \in Registered
      /\ k \notin decoded \cup loaded \cup taken \cup completed
  BY DEF ExchangeInv, Stages
<1>3. k \in pendingResponses
  BY <1>2 DEF ExchangeInv, TableExact
<1>4. Registered' = Registered
  BY <1>1, RegisteredSame DEF callVars
<1>5. TypeOK'
  BY <1>1, <1>3 DEF ExchangeInv, TypeOK, tableVars, callVars, NoPanic
<1>6. Current' /\ Fresh' /\ TableExact' /\ NoPanic' /\ CompletedOnce'
  BY <1>1, <1>3, <1>4 DEF ExchangeInv, Current, Fresh, TableExact,
     NoPanic, CompletedOnce, tableVars, callVars
<1>7. Stages'
  BY <1>1, <1>2, <1>4 DEF ExchangeInv, Stages, callVars
<1>8. \A c \in Callers : reply'[c] = reply[c] \/ (reply'[c] = k /\ k \in mine[c])
  BY <1>1
<1>9. Replies'
  <2> SUFFICES ASSUME NEW c \in Callers PROVE Replies!(c)'
    BY DEF Replies
  <2>1. mine' = mine /\ exceptions' = exceptions
    BY <1>1 DEF callVars
  <2>2. k \in mine[c] /\ k \notin exceptions => reply'[c] \in mine[c]
    BY <1>1, <1>3
  <2> QED
    BY <2>1, <2>2, <1>1, <1>8 DEF ExchangeInv, Replies
<1>10. ReplyIsOwn'
  BY <1>1, <1>8 DEF ExchangeInv, ReplyIsOwn, callVars
<1> QED
  BY <1>5, <1>6, <1>7, <1>9, <1>10 DEF ExchangeInv

\* Handling an answer: its entry is loaded, then deleted, then completed.
LEMMA HandleLoadInv ==
  ASSUME ExchangeInv, NEW k \in decoded, HandleLoad(k)
  PROVE  ExchangeInv'
<1>1. /\ decoded' = decoded \ {k}
      /\ loaded \subseteq loaded' /\ loaded' \subseteq loaded \cup {k}
      /\ UNCHANGED <<tableVars, callVars, wireVars, taken, completed, twice, reply, panicked,
                     arrived>>
  BY DEF HandleLoad
<1>2. k \in served \cap Registered /\ k \notin answers \cup loaded \cup taken \cup completed
  BY DEF ExchangeInv, Stages
<1>3. Registered' = Registered
  BY <1>1, RegisteredSame DEF callVars
<1>4. TypeOK'
  BY <1>1 DEF ExchangeInv, TypeOK, tableVars, callVars, wireVars
<1>5. Stages'
  BY <1>1, <1>2, <1>3 DEF ExchangeInv, Stages, callVars, wireVars
<1>6. Replies'
  BY <1>1 DEF ExchangeInv, Replies, callVars, wireVars
<1>7. Current' /\ Fresh' /\ TableExact' /\ NoPanic' /\ CompletedOnce' /\ ReplyIsOwn'
  BY <1>1, <1>3 DEF ExchangeInv, Current, Fresh, TableExact, NoPanic,
     CompletedOnce, ReplyIsOwn, tableVars, callVars, wireVars
<1> QED
  BY <1>4, <1>5, <1>6, <1>7 DEF ExchangeInv

\* The handler deletes the entry it has loaded.
LEMMA HandleDeleteInv ==
  ASSUME ExchangeInv, NEW k \in loaded, HandleDelete(k)
  PROVE  ExchangeInv'
<1>1. /\ loaded' = loaded \ {k} /\ taken' = taken \cup {k}
      /\ pendingResponses' = pendingResponses \ {k}
      /\ UNCHANGED <<sequence, callVars, wireVars, decoded, completed, twice, reply, panicked,
                     arrived>>
  BY DEF HandleDelete
<1>2. k \in served \cap Registered /\ k \notin answers \cup decoded \cup taken \cup completed
  BY DEF ExchangeInv, Stages
<1>3. Registered' = Registered
  BY <1>1, RegisteredSame DEF callVars
<1>4. TypeOK'
  BY <1>1 DEF ExchangeInv, TypeOK, callVars, wireVars
<1>5. Stages'
  BY <1>1, <1>2, <1>3 DEF ExchangeInv, Stages, callVars, wireVars
<1>6. Replies'
  BY <1>1 DEF ExchangeInv, Replies, callVars, wireVars
<1>7. TableExact'
  BY <1>1, <1>2, <1>3 DEF ExchangeInv, TableExact
<1>8. Current' /\ Fresh' /\ NoPanic' /\ CompletedOnce' /\ ReplyIsOwn'
  BY <1>1, <1>3 DEF ExchangeInv, Current, Fresh, NoPanic, CompletedOnce,
     ReplyIsOwn, callVars, wireVars
<1> QED
  BY <1>4, <1>5, <1>6, <1>7, <1>8 DEF ExchangeInv

\* The handler closes the Done of the entry it has taken.
LEMMA HandleCompleteInv ==
  ASSUME ExchangeInv, NEW k \in taken, HandleComplete(k)
  PROVE  ExchangeInv'
<1>1. /\ taken' = taken \ {k}
      /\ completed' = completed \cup {k}
      /\ twice' = IF k \in completed THEN twice \cup {k} ELSE twice
      /\ UNCHANGED <<tableVars, callVars, wireVars, decoded, loaded, reply, panicked, arrived>>
  BY DEF HandleComplete
<1>2. k \in served \cap Registered /\ k \notin answers \cup decoded \cup loaded \cup completed
  BY DEF ExchangeInv, Stages
<1>3. Registered' = Registered
  BY <1>1, RegisteredSame DEF callVars
<1>4. TypeOK'
  BY <1>1 DEF ExchangeInv, TypeOK, tableVars, callVars, wireVars
<1>5. Stages'
  BY <1>1, <1>2, <1>3 DEF ExchangeInv, Stages, callVars, wireVars
<1>6. Replies'
  BY <1>1 DEF ExchangeInv, Replies, callVars, wireVars
<1>7. TableExact' /\ CompletedOnce'
  BY <1>1, <1>2, <1>3 DEF ExchangeInv, TableExact, CompletedOnce, tableVars
<1>8. Current' /\ Fresh' /\ NoPanic' /\ ReplyIsOwn'
  BY <1>1, <1>3 DEF ExchangeInv, Current, Fresh, NoPanic,
     ReplyIsOwn, tableVars, callVars, wireVars
<1> QED
  BY <1>4, <1>5, <1>6, <1>7, <1>8 DEF ExchangeInv

\* Every step keeps the invariant.
LEMMA NextInv == ExchangeInv /\ [Next]_vars => ExchangeInv'
<1> SUFFICES ASSUME ExchangeInv, [Next]_vars PROVE ExchangeInv'
  OBVIOUS
<1>1. ASSUME NEW w \in Workers, Worker(w) PROVE ExchangeInv'
  BY <1>1, PrepareInv, PrepareFailsInv, TransferOKInv, WorkerInv DEF Worker
<1>2. CASE SessionLost \/ SessionOpened
  BY <1>2, SessionInv
<1>3. ASSUME NEW k \in requests, Serve(k) \/ ServeException(k) \/ ServePanics(k)
      PROVE  ExchangeInv'
  BY <1>3, ServeInv
<1>4. ASSUME NEW k \in answers, Decode(k) PROVE ExchangeInv'
  BY <1>4, DecodeInv
<1>5. ASSUME NEW k \in decoded, HandleLoad(k) PROVE ExchangeInv'
  BY <1>5, HandleLoadInv
<1>6. ASSUME NEW k \in loaded, HandleDelete(k) PROVE ExchangeInv'
  BY <1>6, HandleDeleteInv
<1>7. ASSUME NEW k \in taken, HandleComplete(k) PROVE ExchangeInv'
  BY <1>7, HandleCompleteInv
<1>8. CASE UNCHANGED vars
  <2>1. Registered' = Registered
    BY <1>8, RegisteredSame DEF vars
  <2> QED
    BY <1>8, <2>1 DEF vars, ExchangeInv, TypeOK, Fresh, Current, Stages,
       Replies, TableExact, NoPanic, CompletedOnce, ReplyIsOwn
<1> QED
  BY <1>1, <1>2, <1>3, <1>4, <1>5, <1>6, <1>7, <1>8 DEF Next, Handles

\* The invariant holds in every behaviour of the exchange layer.
THEOREM Invariance == Spec => []ExchangeInv
<1>1. Init => ExchangeInv
  BY InitInv
<1>2. ExchangeInv /\ [Next]_vars => ExchangeInv'
  BY NextInv
<1> QED
  BY <1>1, <1>2, PTL DEF Spec

\* For any number of invocations, heartbeats and attempts, whatever is lost,
\* late or retried: a returned synchronous call holds an answer to itself.
THEOREM RepliesAreOwn == Spec => []ReplyIsOwn
<1>1. ExchangeInv => ReplyIsOwn
  BY DEF ExchangeInv
<1> QED
  BY <1>1, Invariance, PTL

\* The codec's unchecked dereference of the pending entry never fails, and no
\* Done channel is closed (no Callback run) twice.
THEOREM HandlersNeverPanic == Spec => [](NoPanic /\ CompletedOnce)
<1>1. ExchangeInv => NoPanic /\ CompletedOnce
  BY DEF ExchangeInv
<1> QED
  BY <1>1, Invariance, PTL

\* A handler finds the entry of its answer until it deletes it: none is removed under
\* it, by a timeout, a retry or another handler.
THEOREM HandlersFindTheirEntry == Spec => [](decoded \cup loaded \subseteq pendingResponses)
<1>1. ExchangeInv => decoded \cup loaded \subseteq pendingResponses
  BY DEF ExchangeInv, Stages, TableExact
<1> QED
  BY <1>1, Invariance, PTL

-----------------------------------------------------------------------------
(* Refinement of Rpc.                                                      *)

AState == [c \in Callers |-> CallState(c)]
AExecuted == {c \in Callers : mine[c] \cap served # {}}

\* How a step of the model shows in the abstract specification: one
\* invocation moves, or one is executed, or nothing happens.
LEMMA AbstractMove ==
  ASSUME NEW c \in Callers, NEW s, AState' = [AState EXCEPT ![c] = s],
         AExecuted' = AExecuted,
         \/ s = "open" /\ CallState(c) \in {"idle", "failed"}
         \/ s = "answered" /\ CallState(c) = "open" /\ c \in AExecuted
         \/ s = "sent" /\ CallState(c) = "open"
         \/ s = "failed" /\ CallState(c) \in {"idle", "open"}
  PROVE  Abstract!RpcNext
BY DEF Abstract!RpcNext, Abstract!Open, Abstract!Complete, Abstract!Send,
   Abstract!Fail, AState, AExecuted

\* A request that is served is a step Execute of Rpc.
LEMMA AbstractExecute ==
  ASSUME NEW c \in Callers, AState' = AState, CallState(c) # "idle",
         AExecuted' = AExecuted \cup {c}
  PROVE  Abstract!RpcNext
BY DEF Abstract!RpcNext, Abstract!Execute, AState, AExecuted

\* What Rpc does not see is a stutter.
LEMMA AbstractStutter ==
  ASSUME AState' = AState, AExecuted' = AExecuted
  PROVE  UNCHANGED Abstract!rpcVars
BY DEF Abstract!rpcVars, AState, AExecuted

\* The steps of a caller are steps of its call, or stutter.
LEMMA WorkerRefines ==
  ASSUME ExchangeInv, NEW w \in Workers, Worker(w)
  PROVE  [Abstract!RpcNext]_(Abstract!rpcVars)
<1>1. /\ UNCHANGED <<kind, served, completed>>
      /\ \A v \in Workers : v # w =>
           pc'[v] = pc[v] /\ cur'[v] = cur[v] /\ mine'[v] = mine[v]
  BY DEF Worker, Prepare, PrepareFails, TransferOK, TransferFails, Return, Timeout, ExchangeInv,
     TypeOK, tableVars, wireVars, doneVars
<1>2. \A c \in Callers : c # w => (CallState(c))' = CallState(c)
  BY <1>1 DEF CallState, Workers
<1>3. AExecuted' = AExecuted
  <2>1. ASSUME NEW c \in Callers
        PROVE  (mine[c] \cap served)' = mine[c] \cap served
    <3>1. CASE c # w
      BY <3>1, <1>1 DEF Workers
    <3>2. CASE c = w /\ Prepare(w)
      <4> DEFINE k == <<End(w), SequenceID(End(w))>>
      <4>1. mine'[c] = mine[c] \cup {k}
        BY <3>2 DEF Prepare, ExchangeInv, TypeOK
      <4>2. sequence[End(w)] \in Nat
        BY DEF ExchangeInv, TypeOK, End, Ends
      <4>3. \A v \in Workers : k \notin mine[v]
        BY <4>2 DEF ExchangeInv, TypeOK, Fresh, SequenceID, Key
      <4>4. k \notin served
        BY <4>3 DEF ExchangeInv, Stages
      <4> QED
        BY <4>1, <4>4, <1>1
    <3>3. CASE c = w /\ ~Prepare(w)
      BY <3>3, <1>1 DEF Worker, PrepareFails, TransferOK, TransferFails, Return, Timeout
    <3> QED
      BY <3>1, <3>2, <3>3
  <2> QED
    BY <2>1 DEF AExecuted
<1>4. CASE w \notin Callers
  <2>1. AState' = AState
    BY <1>2, <1>4 DEF AState
  <2> QED
    BY <2>1, <1>3, AbstractStutter
<1>5. CASE w \in Callers
  <2>1. AState' = [AState EXCEPT ![w] = (CallState(w))']
    BY <1>2 DEF AState
  <2>2. CASE Prepare(w)
    <3>1. (CallState(w))' = "open" /\ CallState(w) \in {"idle", "failed"}
      BY <2>2 DEF Prepare, CallState, ExchangeInv, TypeOK
    <3> QED
      BY <3>1, <2>1, <1>3, <1>5, AbstractMove
  <2>3. CASE TransferOK(w)
    <3>1. CallState(w) = "open" /\ cur[w] \notin completed /\ ~IsBeat(w)
      BY <2>3, <1>5, ExchangeAssumption
         DEF TransferOK, CallState, ExchangeInv, Current, Stages, IsBeat
    <3>2. pc'[w] = AfterWrite(w) /\ cur' = cur
      BY <2>3 DEF TransferOK, ExchangeInv, TypeOK
    <3>3. (CallState(w))' \in {"open", "sent"}
      BY <3>1, <3>2, <1>1, <1>5 DEF AfterWrite, CallState, ExchangeInv, TypeOK, Kinds
    <3>4. CASE (CallState(w))' = "open"
      BY <3>1, <3>4, <2>1, <1>3, AbstractStutter DEF AState
    <3>5. CASE (CallState(w))' = "sent"
      BY <3>1, <3>5, <2>1, <1>3, <1>5, AbstractMove
    <3> QED
      BY <3>3, <3>4, <3>5
  <2>4. CASE TransferFails(w) \/ Timeout(w)
    <3>1. (CallState(w))' = "failed" /\ CallState(w) = "open"
      BY <2>4, <1>5, ExchangeAssumption
         DEF TransferFails, Timeout, CallState, ExchangeInv, TypeOK, IsBeat
    <3> QED
      BY <3>1, <2>1, <1>3, <1>5, AbstractMove
  <2>5. CASE Return(w)
    <3>1. CallState(w) = "open" /\ kind[w] = "sync"
      BY <2>5, <1>5, ExchangeAssumption
         DEF Return, CallState, ExchangeInv, Current, IsBeat
    <3>2. w \in AExecuted
      BY <2>5, <1>5 DEF Return, AExecuted, ExchangeInv, Current, Stages
    <3>3. (CallState(w))' \in {"failed", "answered"}
      BY <2>5, <3>1 DEF Return, CallState, ExchangeInv, TypeOK
    <3> QED
      BY <3>1, <3>2, <3>3, <2>1, <1>3, <1>5, AbstractMove
  <2>6. CASE PrepareFails(w)
    <3>1. (CallState(w))' = "failed" /\ CallState(w) \in {"idle", "failed"}
      BY <2>6 DEF PrepareFails, CallState, ExchangeInv, TypeOK
    <3>2. CASE CallState(w) = "idle"
      BY <3>1, <3>2, <2>1, <1>3, <1>5, AbstractMove
    <3>3. CASE CallState(w) = "failed"
      BY <3>1, <3>3, <2>1, <1>3, AbstractStutter DEF AState
    <3> QED
      BY <3>1, <3>2, <3>3
  <2> QED
    BY <2>2, <2>3, <2>4, <2>5, <2>6 DEF Worker
<1> QED
  BY <1>4, <1>5

\* What the server does is Execute, or stutter.
LEMMA ServeRefines ==
  ASSUME ExchangeInv, NEW k \in requests,
         Serve(k) \/ ServeException(k) \/ ServePanics(k)
  PROVE  [Abstract!RpcNext]_(Abstract!rpcVars)
<1>1. served' = served \cup {k} /\ UNCHANGED <<callVars, completed>>
  BY DEF Serve, ServeException, ServePanics, doneVars
<1>2. AState' = AState
  BY <1>1 DEF AState, CallState, callVars
<1>3. CASE \E c \in Callers : k \in mine[c]
  <2>1. PICK c \in Callers : k \in mine[c]
    BY <1>3
  <2>2. AExecuted' = AExecuted \cup {c}
    BY <1>1, <2>1 DEF AExecuted, callVars, ExchangeInv, Fresh, Workers
  <2>3. CallState(c) # "idle"
    BY <2>1 DEF CallState, ExchangeInv, TypeOK, Current, Workers
  <2> QED
    BY <1>2, <2>2, <2>3, AbstractExecute
<1>4. CASE ~\E c \in Callers : k \in mine[c]
  <2>1. AExecuted' = AExecuted
    BY <1>1, <1>4 DEF AExecuted, callVars
  <2> QED
    BY <1>2, <2>1, AbstractStutter
<1> QED
  BY <1>3, <1>4

\* Completing the entry of an asynchronous call that has returned answers it; any
\* other completion is a stutter.
LEMMA HandleCompleteRefines ==
  ASSUME ExchangeInv, NEW k \in taken, HandleComplete(k)
  PROVE  [Abstract!RpcNext]_(Abstract!rpcVars)
<1>1. completed' = completed \cup {k} /\ UNCHANGED <<callVars, served>>
  BY DEF HandleComplete, wireVars
<1>2. AExecuted' = AExecuted
  BY <1>1 DEF AExecuted, callVars
<1>3. k \in served /\ k \notin completed
  BY DEF ExchangeInv, Stages
<1>4. CASE \E c \in Callers : pc[c] = "returned" /\ cur[c] = k /\ kind[c] = "async"
  <2>1. PICK c \in Callers : pc[c] = "returned" /\ cur[c] = k /\ kind[c] = "async"
    BY <1>4
  <2>2. k \in mine[c] /\ c \in AExecuted
    BY <2>1, <1>3 DEF AExecuted, ExchangeInv, Current, Workers
  <2>3. CallState(c) = "open" /\ (CallState(c))' = "answered"
    BY <2>1, <1>1, <1>3 DEF CallState, callVars
  <2>4. ASSUME NEW d \in Callers, d # c PROVE (CallState(d))' = CallState(d)
    <3>1. pc[d] = "returned" => cur[d] # k
      BY <2>2, <2>4 DEF ExchangeInv, Current, Fresh, Workers
    <3> QED
      BY <3>1, <1>1 DEF CallState, callVars, ExchangeInv, TypeOK, Workers
  <2>5. AState' = [AState EXCEPT ![c] = "answered"]
    BY <2>3, <2>4 DEF AState
  <2> QED
    BY <2>2, <2>3, <2>5, <1>2, AbstractMove
<1>5. CASE ~\E c \in Callers : pc[c] = "returned" /\ cur[c] = k /\ kind[c] = "async"
  <2>1. ASSUME NEW c \in Callers PROVE (CallState(c))' = CallState(c)
    BY <1>1, <1>5 DEF CallState, callVars, ExchangeInv, TypeOK, Kinds, Workers
  <2>2. AState' = AState
    BY <2>1 DEF AState
  <2> QED
    BY <2>2, <1>2, AbstractStutter
<1> QED
  BY <1>4, <1>5

\* Every step is a step of Rpc, or a stutter.
LEMMA StepRefines ==
  ExchangeInv /\ [Next]_vars => [Abstract!RpcNext]_(Abstract!rpcVars)
<1> SUFFICES ASSUME ExchangeInv, [Next]_vars
             PROVE  [Abstract!RpcNext]_(Abstract!rpcVars)
  OBVIOUS
<1>1. ASSUME NEW w \in Workers, Worker(w)
      PROVE  [Abstract!RpcNext]_(Abstract!rpcVars)
  BY <1>1, WorkerRefines
<1>2. ASSUME NEW k \in requests, Serve(k) \/ ServeException(k) \/ ServePanics(k)
      PROVE  [Abstract!RpcNext]_(Abstract!rpcVars)
  BY <1>2, ServeRefines
<1>3. ASSUME NEW k \in taken, HandleComplete(k)
      PROVE  [Abstract!RpcNext]_(Abstract!rpcVars)
  BY <1>3, HandleCompleteRefines
<1>4. CASE UNCHANGED <<callVars, served, completed>>
  <2>1. AState' = AState /\ AExecuted' = AExecuted
    BY <1>4 DEF AState, AExecuted, CallState, callVars
  <2> QED
    BY <2>1, AbstractStutter
<1>5. CASE SessionLost \/ SessionOpened \/ UNCHANGED vars
  <2>1. UNCHANGED <<callVars, served, completed>>
    BY <1>5 DEF SessionLost, SessionOpened, vars, callVars, doneVars
  <2> QED
    BY <2>1, <1>4
<1>6. ASSUME NEW k, Decode(k) \/ HandleLoad(k) \/ HandleDelete(k)
      PROVE  [Abstract!RpcNext]_(Abstract!rpcVars)
  <2>1. UNCHANGED <<callVars, served, completed>>
    BY <1>6 DEF Decode, HandleLoad, HandleDelete, wireVars
  <2> QED
    BY <2>1, <1>4
<1> QED
  BY <1>1, <1>2, <1>3, <1>5, <1>6 DEF Next, Handles

\* The initial states are initial states of Rpc.
LEMMA InitRefines == Init => Abstract!RpcInit
<1> SUFFICES ASSUME Init PROVE Abstract!RpcInit
  OBVIOUS
<1>1. \A c \in Callers : CallState(c) = "idle" /\ mine[c] = {}
  BY DEF Init, CallState, Workers
<1> QED
  BY <1>1 DEF Abstract!RpcInit

\* The exchange layer implements Rpc: no invocation succeeds, by its return
\* or by its Callback, that the provider has not executed.
THEOREM Refinement == Spec => ImplementsRpc
<1>1. Spec => []ExchangeInv
  BY Invariance
<1>2. Init => Abstract!RpcInit
  BY InitRefines
<1>3. ExchangeInv /\ [Next]_vars => [Abstract!RpcNext]_(Abstract!rpcVars)
  BY StepRefines
<1> QED
  BY <1>1, <1>2, <1>3, PTL DEF Spec, ImplementsRpc, Abstract!RpcSpec
=============================================================================
