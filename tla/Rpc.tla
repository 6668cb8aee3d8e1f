-------------------------------- MODULE Rpc ---------------------------------
(***************************************************************************)
(* What the exchange layer promises the layers above it, without ids,      *)
(* tables, sessions or handlers: an invocation is opened, the provider may *)
(* execute it any number of times while it is or has been open, and it     *)
(* ends in success only if the provider has executed it.  A failed         *)
(* invocation may be opened again.  Timeouts, lost messages and late       *)
(* answers are visible only as failures.                                   *)
(***************************************************************************)
CONSTANT Callers

VARIABLES
  state,    \* of each invocation
  executed  \* the invocations the provider has executed at least once

rpcVars == <<state, executed>>

RpcInit ==
  /\ state = [c \in Callers |-> "idle"]
  /\ executed = {}

Open(c) ==
  /\ state[c] \in {"idle", "failed"}
  /\ state' = [state EXCEPT ![c] = "open"]
  /\ UNCHANGED executed

Execute(c) ==
  /\ state[c] # "idle"
  /\ executed' = executed \cup {c}
  /\ UNCHANGED state

\* The result, or the Callback, reaches the caller.
Complete(c) ==
  /\ state[c] = "open"
  /\ c \in executed
  /\ state' = [state EXCEPT ![c] = "answered"]
  /\ UNCHANGED executed

\* A oneway request has been written; nothing more will be heard of it.
Send(c) ==
  /\ state[c] = "open"
  /\ state' = [state EXCEPT ![c] = "sent"]
  /\ UNCHANGED executed

\* It fails, perhaps before it was opened: there is no connection.
Fail(c) ==
  /\ state[c] \in {"idle", "open"}
  /\ state' = [state EXCEPT ![c] = "failed"]
  /\ UNCHANGED executed

RpcNext ==
  \E c \in Callers : Open(c) \/ Execute(c) \/ Complete(c) \/ Send(c) \/ Fail(c)

RpcSpec == RpcInit /\ [][RpcNext]_rpcVars
=============================================================================
