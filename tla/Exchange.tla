------------------------------ MODULE Exchange ------------------------------
(***************************************************************************)
(* The exchange layer of dubbo-go: the request/response correlation of     *)
(* remoting/exchange.go and remoting/exchange_client.go, with the parts of *)
(* remoting/getty and protocol/dubbo that feed it.                         *)
(*                                                                         *)
(* Two processes, the consumer ("client") and the provider ("server"),     *)
(* share one getty session.  Each keeps its own request-id counter and its *)
(* own table of pending responses.  Invocations start at the client only;  *)
(* heartbeats start at both ends.  An invocation is retried by the cluster *)
(* layer up to MaxAttempts times, and all its attempts share the one Reply *)
(* object of the invocation.                                               *)
(*                                                                         *)
(* A request is identified by its Key, the end that issued it and the id   *)
(* it drew.  The wire is a set of keys in each direction: the handlers run *)
(* in a task pool, so answers overtake each other; a lost session loses    *)
(* whatever is on the wire.                                                *)
(***************************************************************************)
EXTENDS Integers, FiniteSets

CONSTANTS
  Callers,      \* the invocations of the client
  Beats,        \* the heartbeats the client sends (OnCron of the client)
  SrvBeats,     \* the heartbeats the server sends (OnCron of the server)
  MaxAttempts,  \* attempts the cluster layer makes for one invocation
  NoKey         \* no request

Ends == {"client", "server"}
Kinds == {"sync", "async", "oneway"}
Workers == Callers \cup Beats \cup SrvBeats
End(w) == IF w \in SrvBeats THEN "server" ELSE "client"
Key == Ends \X Nat

ASSUME ExchangeAssumption ==
  /\ MaxAttempts \in Nat \ {0}
  /\ NoKey \notin Key
  /\ Callers \cap (Beats \cup SrvBeats) = {}
  /\ Beats \cap SrvBeats = {}

VARIABLES
  sequence,          \* the last id drawn at each end
  pendingResponses,  \* the keys of the two pending tables
  pc,                \* where each worker is
  kind,              \* how an invocation is made
  attempts,          \* attempts begun by each worker
  mine,              \* the keys each worker has drawn
  cur,               \* the key of the current attempt
  up,                \* the session is open
  requests,          \* requests on the wire
  answers,           \* answers on the wire
  served,            \* requests whose handler ran at the receiving end
  exceptions,        \* keys the provider answered with an exception
  decoded,           \* answers decoded, handler not yet run
  loaded,            \* answers whose handler has loaded the pending entry
  taken,             \* answers whose handler has deleted it
  completed,         \* keys whose Done is closed or whose Callback has run
  twice,             \* keys completed more than once
  reply,             \* the key whose answer was last decoded into Reply
  panicked,          \* an answer was decoded for which there is no entry
  arrived            \* history: the answers that were decoded

callVars == <<pc, kind, attempts, mine, cur>>
wireVars == <<up, requests, answers, served, exceptions>>
tableVars == <<sequence, pendingResponses>>
doneVars == <<decoded, loaded, taken, completed, twice, reply, panicked, arrived>>
vars == <<sequence, pendingResponses, pc, kind, attempts, mine, cur, up,
          requests, answers, served, exceptions, decoded, loaded, taken,
          completed, twice, reply, panicked, arrived>>

Init ==
  /\ sequence = [e \in Ends |-> 0]
  /\ pendingResponses = {}
  /\ pc = [w \in Workers |-> "idle"]
  /\ kind \in [Callers -> Kinds]
  /\ attempts = [w \in Workers |-> 0]
  /\ mine = [w \in Workers |-> {}]
  /\ cur = [w \in Workers |-> NoKey]
  /\ up = TRUE
  /\ requests = {} /\ answers = {} /\ served = {} /\ exceptions = {}
  /\ decoded = {} /\ loaded = {} /\ taken = {}
  /\ completed = {} /\ twice = {}
  /\ reply = [c \in Callers |-> NoKey]
  /\ panicked = FALSE /\ arrived = {}

IsBeat(w) == w \in Beats \cup SrvBeats
Budget(w) == IF IsBeat(w) THEN 1 ELSE MaxAttempts

\* Oneway requests are sent without an entry in the table.
Registers(w) == IsBeat(w) \/ kind[w] # "oneway"

IsHeartbeat(k) == \E w \in Beats \cup SrvBeats : k \in mine[w]
IsTwoWay(k) == \E w \in Workers : k \in mine[w] /\ Registers(w)

-----------------------------------------------------------------------------
(* The caller.                                                             *)

\* SequenceID: the atomic counter advances by two for every request.
SequenceID(e) == sequence[e] + 2

\* AddPendingResponse: the entry is in the table before the request leaves.
AddPendingResponse(w, k) ==
  pendingResponses' = IF Registers(w) THEN pendingResponses \cup {k}
                                      ELSE pendingResponses

\* Request, AsyncRequest, Send and heartbeat up to the call of the transport;
\* a failed attempt is followed by the next one of the cluster layer.
Prepare(w) ==
  /\ pc[w] \in {"idle", "err"}
  /\ attempts[w] < Budget(w)
  /\ LET k == <<End(w), SequenceID(End(w))>>
     IN /\ sequence' = [sequence EXCEPT ![End(w)] = SequenceID(End(w))]
        /\ AddPendingResponse(w, k)
        /\ mine' = [mine EXCEPT ![w] = @ \cup {k}]
        /\ cur' = [cur EXCEPT ![w] = k]
  /\ attempts' = [attempts EXCEPT ![w] = @ + 1]
  /\ pc' = [pc EXCEPT ![w] = "prepared"]
  /\ UNCHANGED <<kind, wireVars, doneVars>>

\* doInit fails: a client that is not connected, or was closed, cannot dial the
\* provider.  The attempt fails before an id is drawn.
PrepareFails(c) ==
  /\ c \in Callers /\ pc[c] \in {"idle", "err"}
  /\ attempts[c] < MaxAttempts
  /\ attempts' = [attempts EXCEPT ![c] = @ + 1]
  /\ pc' = [pc EXCEPT ![c] = "err"]
  /\ UNCHANGED <<tableVars, kind, mine, cur, wireVars, doneVars>>

\* Where a worker goes once the request is written: a heartbeat and a
\* synchronous call wait, the others return at once.
AfterWrite(w) ==
  IF IsBeat(w) \/ kind[w] = "sync" THEN "waiting" ELSE "returned"

\* The request is written to the session.
TransferOK(w) ==
  /\ pc[w] = "prepared"
  /\ up
  /\ requests' = requests \cup {cur[w]}
  /\ pc' = [pc EXCEPT ![w] = AfterWrite(w)]
  /\ UNCHANGED <<tableVars, kind, attempts, mine, cur, up, answers, served, exceptions,
                 doneVars>>

\* No session, or the package cannot be encoded or written.  The entry stays
\* in the table.  A heartbeat waits for its timeout all the same.
TransferFails(w) ==
  /\ pc[w] = "prepared"
  /\ pc' = [pc EXCEPT ![w] = IF IsBeat(w) THEN "waiting" ELSE "err"]
  /\ UNCHANGED <<tableVars, kind, attempts, mine, cur, wireVars, doneVars>>

\* A variant that returns success without waiting for Done.
ReturnUnanswered(w) ==
  /\ pc[w] = "waiting"
  /\ pc' = [pc EXCEPT ![w] = "returned"]
  /\ UNCHANGED <<tableVars, kind, attempts, mine, cur, wireVars, doneVars>>

\* The select of Client.Request and of heartbeat takes the Done branch.
Return(w) ==
  /\ pc[w] = "waiting"
  /\ cur[w] \in completed
  /\ pc' = [pc EXCEPT ![w] = IF cur[w] \in exceptions THEN "err" ELSE "returned"]
  /\ UNCHANGED <<tableVars, kind, attempts, mine, cur, wireVars, doneVars>>

\* A variant that removes the entry of the request that timed out.
TimeoutRemoves(w) ==
  /\ pc[w] = "waiting"
  /\ pc' = [pc EXCEPT ![w] = "err"]
  /\ pendingResponses' = pendingResponses \ {cur[w]}
  /\ UNCHANGED <<sequence, kind, attempts, mine, cur, wireVars, doneVars>>

\* A variant without the timer.
TimeoutNever(w) == FALSE /\ UNCHANGED vars

\* The select takes the timer branch, whether or not the answer is there.
\* The entry stays in the table.
Timeout(w) ==
  /\ pc[w] = "waiting"
  /\ pc' = [pc EXCEPT ![w] = "err"]
  /\ UNCHANGED <<tableVars, kind, attempts, mine, cur, wireVars, doneVars>>

-----------------------------------------------------------------------------
(* The session and the peer.                                               *)

\* The session breaks; what is on the wire is lost.
SessionLost ==
  /\ up
  /\ up' = FALSE
  /\ requests' = {} /\ answers' = {}
  /\ UNCHANGED <<tableVars, callVars, served, exceptions, doneVars>>

SessionOpened ==
  /\ ~up
  /\ up' = TRUE
  /\ UNCHANGED <<tableVars, callVars, requests, answers, served, exceptions,
                 doneVars>>

\* OnMessage of the peer replies: to every heartbeat, and to an invocation
\* that is two-way with a value.
Serve(k) ==
  /\ k \in requests
  /\ requests' = requests \ {k}
  /\ answers' = IF IsTwoWay(k) THEN answers \cup {k} ELSE answers
  /\ served' = served \cup {k}
  /\ UNCHANGED <<tableVars, callVars, up, exceptions, doneVars>>

\* OnMessage replies with the exception the service returned.
ServeException(k) ==
  /\ k \in requests
  /\ ~IsHeartbeat(k)
  /\ requests' = requests \ {k}
  /\ answers' = IF IsTwoWay(k) THEN answers \cup {k} ELSE answers
  /\ served' = served \cup {k}
  /\ exceptions' = exceptions \cup {k}
  /\ UNCHANGED <<tableVars, callVars, up, doneVars>>

\* OnMessage panics.  The recovering reply has no Result, its encoding fails
\* on the type assertion of EncodeResponse, and nothing is written.
ServePanics(k) ==
  /\ k \in requests
  /\ ~IsHeartbeat(k)
  /\ requests' = requests \ {k}
  /\ served' = served \cup {k}
  /\ UNCHANGED <<tableVars, callVars, up, answers, exceptions, doneVars>>

-----------------------------------------------------------------------------
(* The handler of an answer.                                               *)

\* The codec decodes the answer of an invocation straight into the Reply of
\* the pending entry, which it dereferences without a check.
Decode(k) ==
  /\ k \in answers
  /\ answers' = answers \ {k}
  /\ decoded' = decoded \cup {k} /\ arrived' = arrived \cup {k}
  /\ panicked' = (panicked \/ (~IsHeartbeat(k) /\ k \notin pendingResponses))
  /\ reply' = [c \in Callers |->
                 IF k \in mine[c] /\ k \in pendingResponses /\ k \notin exceptions
                   THEN k ELSE reply[c]]
  /\ UNCHANGED <<tableVars, callVars, up, requests, served, exceptions, loaded,
                 taken, completed, twice>>

\* removePendingResponse loads the entry; without one, Handle returns.
HandleLoad(k) ==
  /\ k \in decoded
  /\ decoded' = decoded \ {k}
  /\ loaded' = IF k \in pendingResponses THEN loaded \cup {k} ELSE loaded
  /\ UNCHANGED <<tableVars, callVars, wireVars, taken, completed, twice, reply, panicked,
                 arrived>>

\* A variant that leaves the entry.
HandleKeeps(k) ==
  /\ k \in loaded
  /\ loaded' = loaded \ {k} /\ taken' = taken \cup {k}
  /\ UNCHANGED <<tableVars, callVars, wireVars, decoded, completed, twice, reply, panicked,
                 arrived>>

\* It deletes the entry it has loaded ...
HandleDelete(k) ==
  /\ k \in loaded
  /\ loaded' = loaded \ {k} /\ taken' = taken \cup {k}
  /\ pendingResponses' = pendingResponses \ {k}
  /\ UNCHANGED <<sequence, callVars, wireVars, decoded, completed, twice, reply, panicked,
                 arrived>>

\* ... and then Handle closes Done, or runs the Callback.
HandleComplete(k) ==
  /\ k \in taken
  /\ taken' = taken \ {k}
  /\ completed' = completed \cup {k}
  /\ twice' = IF k \in completed THEN twice \cup {k} ELSE twice
  /\ UNCHANGED <<tableVars, callVars, wireVars, decoded, loaded, reply, panicked,
                 arrived>>

Handles ==
  \/ \E k \in decoded : HandleLoad(k)
  \/ \E k \in loaded : HandleDelete(k)
  \/ \E k \in taken : HandleComplete(k)

Worker(w) ==
  Prepare(w) \/ PrepareFails(w) \/ TransferOK(w) \/ TransferFails(w) \/ Return(w) \/ Timeout(w)

Next ==
  \/ \E w \in Workers : Worker(w)
  \/ SessionLost \/ SessionOpened
  \/ \E k \in requests : Serve(k) \/ ServeException(k) \/ ServePanics(k)
  \/ \E k \in answers : Decode(k)
  \/ Handles

\* A goroutine that has begun goes on: the cluster layer until an attempt succeeds or
\* none is left, the select until Done or its timer; and so do those that handle
\* answers.
Fairness ==
  /\ \A w \in Workers : WF_vars(pc[w] # "idle" /\ Worker(w))
  /\ WF_vars(Handles)

Spec == Init /\ [][Next]_vars /\ Fairness

-----------------------------------------------------------------------------
(* Properties.                                                             *)

\* Every variable has a value of its type; in particular an id is never
\* negative.
TypeOK ==
  /\ sequence \in [Ends -> Nat]
  /\ pendingResponses \in SUBSET Key
  /\ pc \in [Workers -> {"idle", "prepared", "waiting", "returned", "err"}]
  /\ kind \in [Callers -> Kinds]
  /\ attempts \in [Workers -> Nat]
  /\ mine \in [Workers -> SUBSET Key]
  /\ cur \in [Workers -> Key \cup {NoKey}]
  /\ up \in BOOLEAN
  /\ requests \in SUBSET Key /\ answers \in SUBSET Key
  /\ served \in SUBSET Key /\ exceptions \in SUBSET Key
  /\ decoded \in SUBSET Key /\ loaded \in SUBSET Key /\ taken \in SUBSET Key
  /\ completed \in SUBSET Key /\ twice \in SUBSET Key
  /\ reply \in [Callers -> Key \cup {NoKey}]
  /\ panicked \in BOOLEAN /\ arrived \in SUBSET Key

Registered == UNION {mine[w] : w \in {v \in Workers : Registers(v)}}

\* The pending tables hold exactly the two-way requests that no handler has taken:
\* an entry appears before its request can be answered and leaves only through
\* Response.Handle.  (A timeout therefore leaves its entry.)
TableExact == pendingResponses = Registered \ (taken \cup completed)

\* The codec dereferences the pending entry of the answer it decodes
\* (impl.ProtocolCodec.Decode) without a check: the entry is always there,
\* whatever timed out or was retried meanwhile, so the reader never panics.
NoPanic == ~panicked

\* Response.Handle closes a Done channel, or runs a Callback, at most once
\* for a request: a second close would panic.
CompletedOnce == twice = {}

\* No wake-up is lost: in the end every answer that was decoded, also after the timeout
\* of its request or the retry of its invocation, has found its entry, and
\* Response.Handle has closed its Done or run its Callback.
NoLostWakeup == <>[](arrived \subseteq completed)

\* A synchronous call that returns without an error has in its Reply the
\* answer to one of its own attempts, never that of another request.
ReplyIsOwn ==
  \A c \in Callers :
    pc[c] = "returned" /\ kind[c] = "sync" => reply[c] \in mine[c]

\* Stronger: the Reply is the answer to the attempt that returned.
ReplyIsOfAttempt ==
  \A c \in Callers :
    pc[c] = "returned" /\ kind[c] = "sync" => reply[c] = cur[c]

\* Every synchronous call ends: it returns, or its last attempt fails.
CallEnds ==
  \A c \in Callers :
    (kind[c] = "sync" /\ pc[c] \in {"prepared", "waiting"})
      ~> (pc[c] = "returned" \/ (pc[c] = "err" /\ attempts[c] = MaxAttempts))

-----------------------------------------------------------------------------
(* The inductive invariant behind the safety properties.                   *)

\* Ids are fresh and belong to one worker.
Fresh ==
  /\ \A w \in Workers : \A k \in mine[w] :
       k[1] = End(w) /\ k[2] <= sequence[End(w)]
  /\ \A v, w \in Workers : v # w => mine[v] \cap mine[w] = {}

\* The current attempt is one of the worker's own, unsent while prepared, and
\* only a heartbeat or a synchronous call waits.
Current ==
  \A w \in Workers :
    /\ pc[w] = "idle" => mine[w] = {}
    /\ pc[w] \in {"prepared", "waiting", "returned"} => cur[w] \in mine[w]
    /\ pc[w] = "prepared" => cur[w] \notin requests \cup served
    /\ pc[w] = "waiting" => IsBeat(w) \/ kind[w] = "sync"

\* A request is served at most once, and its answer is in one place only.
Stages ==
  /\ requests \cap served = {}
  /\ \A k \in requests \cup served : \E w \in Workers : k \in mine[w]
  /\ answers \cup decoded \cup loaded \cup taken \cup completed
       \subseteq served \cap Registered
  /\ answers \cap (decoded \cup loaded \cup taken \cup completed) = {}
  /\ decoded \cap (loaded \cup taken \cup completed) = {}
  /\ loaded \cap (taken \cup completed) = {} /\ taken \cap completed = {}
  /\ exceptions \subseteq served

\* Once a value answer of an invocation is decoded its Reply is its own.
Replies ==
  \A c \in Callers :
    /\ reply[c] \in mine[c] \cup {NoKey}
    /\ \A k \in mine[c] \cap (decoded \cup loaded \cup taken \cup completed) :
         k \notin exceptions => reply[c] \in mine[c]

\* The invariant: each request of the exchange layer is in exactly one stage
\* of its life, and the tables agree with it.
ExchangeInv ==
  /\ TypeOK /\ Fresh /\ Current /\ Stages /\ Replies
  /\ TableExact /\ NoPanic /\ CompletedOnce /\ ReplyIsOwn

-----------------------------------------------------------------------------
(* Refinement.  A synchronous call is answered when it returns, an         *)
(* asynchronous one when its Callback has run.                             *)

CallState(c) ==
  CASE pc[c] = "idle" -> "idle"
    [] pc[c] = "err" -> "failed"
    [] pc[c] \in {"prepared", "waiting"} -> "open"
    [] pc[c] = "returned" /\ kind[c] = "sync" -> "answered"
    [] pc[c] = "returned" /\ kind[c] = "oneway" -> "sent"
    [] OTHER -> IF cur[c] \in completed THEN "answered" ELSE "open"

Abstract ==
  INSTANCE Rpc WITH
    state <- [c \in Callers |-> CallState(c)],
    executed <- {c \in Callers : mine[c] \cap served # {}}

\* The exchange layer implements Rpc: no invocation is answered, by its
\* return or by its Callback, that the provider has not executed, and one
\* that has ended successfully is not reopened.
ImplementsRpc == Abstract!RpcSpec
=============================================================================
