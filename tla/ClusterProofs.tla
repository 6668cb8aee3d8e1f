--------------------------- MODULE ClusterProofs ----------------------------
(***************************************************************************)
(* For any number of calls and invokers and any parameters, a call selects *)
(* from its list only, and nobody twice, and a failback task is queued at  *)
(* most once; and a call gives up only after it has reached enough of its  *)
(* list.                                                                   *)
(***************************************************************************)
EXTENDS Cluster, FiniteSetTheorems, TLAPS

\* Most steps are first-order, and Zenon is the quickest to find them.
USE ZenonT(3), SMT, Zenon, SMTT(20)

\* getRetries is a number.
LEMMA RetriesType == \A s \in SUBSET Ivks : GetRetries(s) \in Nat
PROOF
  <1> TAKE s \in SUBSET Ivks
  <1>1. Cardinality(s) \in Nat  BY ClusterAssumption, FS_Subset, FS_CardinalityType
  <1>2. \E x \in {Retries, Cardinality(s)} : \A y \in {Retries, Cardinality(s)} : x <= y
    BY <1>1, ClusterAssumption
  <1>3. Min({Retries, Cardinality(s)}) \in {Retries, Cardinality(s)}
    BY <1>2 DEF Min
  <1> QED BY <1>1, <1>3, ClusterAssumption DEF GetRetries

\* The initial state satisfies the invariant.
LEMMA InitInv == Init => ClusterInv
PROOF
  <1> SUFFICES ASSUME Init PROVE ClusterInv  OBVIOUS
  <1> USE ClusterAssumption DEF Init
  <1>1. TypeOK
    <2>1. CallTypeOK  BY DEF CallTypeOK, Points
    <2>2. strategy \in AllStrategies /\ StickyInvoker \in Ivks \cup {None}  OBVIOUS
    <2>3. list \in SUBSET Ivks /\ changes \in 0..MaxChanges /\ taskList \in Seq(Calls)  OBVIOUS
    <2>4. available \in [Ivks -> BOOLEAN]  OBVIOUS
    <2> QED BY <2>1, <2>2, <2>3, <2>4 DEF TypeOK
  <1>2. TasksOnce  BY DEF TasksOnce
  <1>3. \A c \in Calls : CallInv(c)  BY DEF CallInv, ZoneLoops, Fresh, Selection
  <1> QED BY <1>1, <1>2, <1>3 DEF ClusterInv

\* The part of the state that belongs to the other calls stays.
OthersUnchanged(c) ==
  \A d \in Calls \ {c} :
    /\ at'[d] = at[d] /\ invokers'[d] = invokers[d] /\ cand'[d] = cand[d]
    /\ invoked'[d] = invoked[d] /\ tries'[d] = tries[d] /\ ivk'[d] = ivk[d]

\* A step of a call that leaves the task list alone has to care for itself only.
LEMMA StepFrame ==
  ASSUME ClusterInv, NEW c \in Calls, TypeOK', UNCHANGED confVars, OthersUnchanged(c),
         CallInv(c)', at[c] # "queued", taskList' = taskList
  PROVE  ClusterInv'
PROOF
  <1>1. \A d \in Calls \ {c} : CallInv(d)'
    BY DEF ClusterInv, CallInv, ZoneLoops, Fresh, OthersUnchanged, confVars
  <1>2. TasksOnce'
    BY DEF ClusterInv, TasksOnce, OthersUnchanged, TypeOK
  <1> QED BY <1>1, <1>2 DEF ClusterInv

\* The environment and Destroy touch no call.
LEMMA EnvInv ==
  ASSUME ClusterInv, ListChanges \/ (\E i \in Ivks : AvailabilityChanges(i)) \/ Destroy
  PROVE  ClusterInv'
PROOF
  <1> USE ClusterAssumption DEF ClusterInv
  <1>1. UNCHANGED confVars /\ UNCHANGED callVars /\ taskList' \in {taskList, <<>>}
    BY DEF ListChanges, AvailabilityChanges, Destroy, Change, taskVars
  <1>2. TypeOK'
    <2>1. CASE ListChanges
      BY <2>1 DEF ListChanges, Change, TypeOK, CallTypeOK, confVars, callVars, taskVars
    <2>2. CASE \E i \in Ivks : AvailabilityChanges(i)
      BY <2>2 DEF AvailabilityChanges, Change, TypeOK, CallTypeOK, confVars, callVars, taskVars
    <2>3. CASE Destroy
      <3>1. panicked' \in BOOLEAN  BY <2>3 DEF Destroy, TypeOK
      <3>2. taskList' \in Seq(Calls)
        <4>1. <<>> \in Seq(Calls) /\ taskList \in Seq(Calls)  BY DEF TypeOK
        <4> QED BY <1>1, <4>1
      <3>3. taskListState' \in {"nil", "open", "disposed"}
        BY <2>3 DEF Destroy, TypeOK, taskVars
      <3>4. Destroyed' \in BOOLEAN /\ UNCHANGED <<envVars, StickyInvoker>>  BY <2>3 DEF Destroy
      <3> QED
        BY <1>1, <3>1, <3>2, <3>3, <3>4 DEF TypeOK, CallTypeOK, confVars, envVars, callVars
    <2> QED BY <2>1, <2>2, <2>3
  <1>3. TasksOnce'
    BY <1>1 DEF TasksOnce, callVars
  <1>4. \A c \in Calls : CallInv(c)'
    BY <1>1 DEF CallInv, ZoneLoops, Fresh, confVars, callVars
  <1> QED BY <1>2, <1>3, <1>4

\* Invoke starts a call on the current list.
LEMMA InvokeInv ==
  ASSUME ClusterInv, NEW c \in Calls,
         Invoke(c)
  PROVE  ClusterInv'
PROOF
  <1> USE ClusterAssumption DEF Invoke, Begin, Selecting, NeverAsks, Goto, Return
  <1>0. GetRetries(list) \in Nat  BY RetriesType DEF ClusterInv, TypeOK
  <1>1. CallTypeOK'
    <2> USE <1>0 DEF ClusterInv, TypeOK, CallTypeOK
    <2>1. at' \in [Calls -> Points]  BY DEF Points
    <2>2. invokers' \in [Calls -> SUBSET Ivks]  OBVIOUS
    <2>3. cand' \in [Calls -> SUBSET Ivks]  OBVIOUS
    <2>4. invoked' \in [Calls -> SUBSET Ivks]  OBVIOUS
    <2>5. tries' \in [Calls -> Nat]  OBVIOUS
    <2>6. ivk' \in [Calls -> Ivks \cup {None}]  OBVIOUS
    <2>7. res' \in [Calls -> {"none", "ok", "err", "empty"}]  OBVIOUS
    <2> QED BY <2>1, <2>2, <2>3, <2>4, <2>5, <2>6, <2>7
  <1>2. /\ StickyInvoker' \in Ivks \cup {None} /\ panicked' \in BOOLEAN
        /\ taskListState' \in {"nil", "open", "disposed"}
    BY DEF ClusterInv, TypeOK, CallTypeOK, taskVars
  <1>3. /\ UNCHANGED <<confVars, list, available, changes, Destroyed, taskList>>
        /\ at[c] # "queued"
    BY DEF envVars, taskVars
  <1>4. TypeOK'
    BY <1>1, <1>2, <1>3 DEF ClusterInv, TypeOK, confVars
  <1>5. OthersUnchanged(c)
    BY DEF ClusterInv, TypeOK, CallTypeOK, OthersUnchanged
  <1>6. CallInv(c)'
    BY <1>3 DEF ClusterInv, TypeOK, CallTypeOK, CallInv, ZoneLoops, Fresh, Selection, confVars
  <1> QED BY <1>3, <1>4, <1>5, <1>6, StepFrame

\* The points of DoSelect that only the calls of a sticky URL come to.
StickyOnly == {"stickyNil", "stickyCheck", "stickyInvoked", "stickyReturn"}

\* What the sticky part of DoSelect leaves alone, and where it may go; only a sticky
\* URL gets past the reset.
LEMMA StickyFrame ==
  ASSUME ClusterInv, NEW c \in Calls, StickySteps(c)
  PROVE  /\ UNCHANGED stickyRest
         /\ StickyInvoker' \in Ivks \cup {None} /\ panicked' \in BOOLEAN
         /\ ivk' \in [Calls -> Ivks \cup {None}] /\ \A d \in Calls \ {c} : ivk'[d] = ivk[d]
         /\ at' \in [Calls -> Points] /\ \A d \in Calls \ {c} : at'[d] = at[d]
         /\ at[c] \in Selection \ {"select", "reselect", "selected"}
         /\ at'[c] \in {"stickyKnown", "stickyLost", "select", "selected"} \cup StickyOnly
         /\ at'[c] \in StickyOnly \cup {"selected"} => sticky
PROOF
  <1>0. /\ at \in [Calls -> Points] /\ ivk \in [Calls -> Ivks \cup {None}]
        /\ StickyInvoker \in Ivks \cup {None} /\ panicked \in BOOLEAN
        /\ at[c] \in StickyOnly => sticky
    BY DEF ClusterInv, TypeOK, CallTypeOK, CallInv, StickyOnly
  <1>1. CASE StickyKnown(c)
    BY <1>0, <1>1 DEF StickyKnown, Kept, Goto, Points, Selection, StickyOnly
  <1>2. CASE StickyListed(c)
    BY <1>0, <1>2 DEF StickyListed, Kept, Goto, Points, Selection, StickyOnly
  <1>3. CASE StickyReset(c)
    BY <1>0, <1>3 DEF StickyReset, Kept, Goto, Points, Selection, StickyOnly
  <1>4. CASE StickyNil(c)
    BY <1>0, <1>4 DEF StickyNil, Goto, Points, Selection, StickyOnly
  <1>5. CASE StickyCheck(c)
    BY <1>0, <1>5 DEF StickyCheck, Goto, Points, Selection, StickyOnly
  <1>6. CASE StickyInvoked(c)
    BY <1>0, <1>6 DEF StickyInvoked, Goto, Points, Selection, StickyOnly
  <1>7. CASE StickyReturn(c)
    BY <1>0, <1>7 DEF StickyReturn, Goto, Points, Selection, StickyOnly
  <1> QED BY <1>1, <1>2, <1>3, <1>4, <1>5, <1>6, <1>7 DEF StickySteps

\* The sticky part of DoSelect.
LEMMA StickyInv ==
  ASSUME ClusterInv, NEW c \in Calls, StickySteps(c)
  PROVE  ClusterInv'
PROOF
  <1> USE StickyFrame DEF stickyRest
  <1>1. TypeOK'
    BY DEF ClusterInv, TypeOK, CallTypeOK, confVars, envVars, taskVars
  <1>2. OthersUnchanged(c) /\ UNCHANGED confVars /\ taskList' = taskList
    BY DEF OthersUnchanged, taskVars
  <1>3. at[c] # "queued"
    BY DEF Selection, StickyOnly
  <1>4. CallInv(c)'
    BY DEF ClusterInv, CallInv, ZoneLoops, Selection, StickyOnly, confVars
  <1> QED BY <1>1, <1>2, <1>3, <1>4, StepFrame

\* doSelectInvoker returns a fresh member of the list, or nobody.
LEMMA SelectInv ==
  ASSUME ClusterInv, NEW c \in Calls,
         ReselectFails(c) \/ \E i \in Ivks : SelectFirst(c, i) \/ Reselect(c, i)
  PROVE  ClusterInv'
PROOF
  <1> USE ClusterAssumption DEF SelectFirst, Reselect, ReselectFails, Select, Usable, Goto
  <1>1. CallTypeOK'
    <2> USE DEF ClusterInv, TypeOK, CallTypeOK
    <2>1. at' \in [Calls -> Points]
      <3>1. at' = at \/ \E p \in {"selected", "reselect"} : at' = [at EXCEPT ![c] = p]  OBVIOUS
      <3> HIDE DEF SelectFirst, Reselect, ReselectFails
      <3> QED BY <3>1 DEF Points
    <2>2. invokers' \in [Calls -> SUBSET Ivks]  OBVIOUS
    <2>3. cand' \in [Calls -> SUBSET Ivks]  OBVIOUS
    <2>4. invoked' \in [Calls -> SUBSET Ivks]  BY DEF CallInv
    <2>5. tries' \in [Calls -> Nat]  BY DEF CallInv, Selection
    <2>6. ivk' \in [Calls -> Ivks \cup {None}]
      <3>1. ivk' = ivk \/ \E i \in Ivks \cup {None} : ivk' = [ivk EXCEPT ![c] = i]  OBVIOUS
      <3> HIDE DEF SelectFirst, Reselect, ReselectFails
      <3> QED BY <3>1
    <2>7. res' \in [Calls -> {"none", "ok", "err", "empty"}]  OBVIOUS
    <2> QED BY <2>1, <2>2, <2>3, <2>4, <2>5, <2>6, <2>7
  <1>2. /\ StickyInvoker' \in Ivks \cup {None} /\ panicked' \in BOOLEAN
        /\ taskListState' \in {"nil", "open", "disposed"}
    BY DEF ClusterInv, TypeOK, CallTypeOK, taskVars
  <1>3. /\ UNCHANGED <<confVars, list, available, changes, Destroyed, taskList>>
        /\ at[c] # "queued"
    BY DEF envVars, taskVars
  <1>4. TypeOK'
    BY <1>1, <1>2, <1>3 DEF ClusterInv, TypeOK, confVars
  <1>5. OthersUnchanged(c)
    BY DEF ClusterInv, TypeOK, CallTypeOK, OthersUnchanged
  <1>6. CallInv(c)'
    <2>1. /\ UNCHANGED <<strategy, sticky, invokers, invoked, tries>>
          /\ at[c] \in {"select", "reselect"}
      BY DEF confVars
    <2>2. \/ at'[c] = "reselect" /\ cand'[c] \subseteq invokers[c]
          \/ at'[c] = "selected" /\ (ivk'[c] = None \/ Fresh(c)')
      <3> USE DEF ClusterInv, TypeOK, CallTypeOK, CallInv, Fresh
      <3>1. CASE ReselectFails(c)  BY <3>1
      <3>2. ASSUME NEW i \in Ivks, SelectFirst(c, i)
            PROVE  \/ at'[c] = "reselect" /\ cand'[c] \subseteq invokers[c]
                   \/ at'[c] = "selected" /\ (ivk'[c] = None \/ Fresh(c)')
        <4>1. CASE Usable(c, i)  BY <3>2, <4>1
        <4>2. CASE ~Usable(c, i)  BY <3>2, <4>2
        <4> QED BY <4>1, <4>2
      <3>3. ASSUME NEW i \in Ivks, Reselect(c, i)
            PROVE  \/ at'[c] = "reselect" /\ cand'[c] \subseteq invokers[c]
                   \/ at'[c] = "selected" /\ (ivk'[c] = None \/ Fresh(c)')
        BY <3>3
      <3> QED BY <3>1, <3>2, <3>3
    <2> HIDE DEF SelectFirst, Reselect, ReselectFails
    <2> QED BY <2>1, <2>2 DEF ClusterInv, CallInv, ZoneLoops, Selection
  <1> QED BY <1>3, <1>4, <1>5, <1>6, StepFrame

\* What follows the selection.
LEMMA SelectedInv ==
  ASSUME ClusterInv, NEW c \in Calls,
         SelectedFork(c) \/ SelectedOne(c) \/ SelectedNone(c)
  PROVE  ClusterInv'
PROOF
  <1> USE ClusterAssumption DEF SelectedFork, SelectedOne, SelectedNone, NextAttempt, Goto, Return
  <1>1. CallTypeOK'
    <2> USE DEF ClusterInv, TypeOK, CallTypeOK
    <2>1. at' \in [Calls -> Points]  BY DEF Points
    <2>2. invokers' \in [Calls -> SUBSET Ivks]  OBVIOUS
    <2>3. cand' \in [Calls -> SUBSET Ivks]  OBVIOUS
    <2>4. invoked' \in [Calls -> SUBSET Ivks]  BY DEF CallInv
    <2>5. tries' \in [Calls -> Nat]
      <3>1. CASE strategy = "forking"  BY <3>1 DEF CallInv, Selection
      <3>2. CASE strategy # "forking"  BY <3>2
      <3> QED BY <3>1, <3>2
    <2>6. ivk' \in [Calls -> Ivks \cup {None}]  OBVIOUS
    <2>7. res' \in [Calls -> {"none", "ok", "err", "empty"}]  OBVIOUS
    <2> QED BY <2>1, <2>2, <2>3, <2>4, <2>5, <2>6, <2>7
  <1>2. /\ StickyInvoker' \in Ivks \cup {None} /\ panicked' \in BOOLEAN
        /\ taskListState' \in {"nil", "open", "disposed"}
    BY DEF ClusterInv, TypeOK, CallTypeOK, taskVars
  <1>3. /\ UNCHANGED <<confVars, list, available, changes, Destroyed, taskList>>
        /\ at[c] # "queued"
    BY DEF envVars, taskVars
  <1>4. TypeOK'
    BY <1>1, <1>2, <1>3 DEF ClusterInv, TypeOK, confVars
  <1>5. OthersUnchanged(c)
    BY DEF ClusterInv, TypeOK, CallTypeOK, OthersUnchanged
  <1>6. CallInv(c)'
    BY <1>3 DEF ClusterInv, TypeOK, CallTypeOK, CallInv, ZoneLoops, Fresh, Selection, confVars
  <1> QED BY <1>3, <1>4, <1>5, <1>6, StepFrame

\* The invoker answers.
LEMMA AnswerInv ==
  ASSUME ClusterInv, NEW c \in Calls,
         InvokeOK(c) \/ InvokeFails(c) \/ FailbackFails(c)
  PROVE  ClusterInv'
PROOF
  <1> USE ClusterAssumption DEF InvokeOK, InvokeFails, FailbackFails, NextAttempt, Goto, Return
  <1>1. CallTypeOK'
    <2> USE DEF ClusterInv, TypeOK, CallTypeOK
    <2>1. at' \in [Calls -> Points]  BY DEF Points
    <2>2. invokers' \in [Calls -> SUBSET Ivks]  OBVIOUS
    <2>3. cand' \in [Calls -> SUBSET Ivks]  OBVIOUS
    <2>0. ivk[c] \in Ivks  BY DEF CallInv
    <2>4. invoked' \in [Calls -> SUBSET Ivks]
      <3>1. invoked' = [invoked EXCEPT ![c] = invoked[c] \cup {ivk[c]}]  OBVIOUS
      <3>2. invoked[c] \cup {ivk[c]} \in SUBSET Ivks  BY <2>0
      <3> QED BY <3>1, <3>2
    <2>5. tries' \in [Calls -> Nat]  BY DEF CallInv, Selection
    <2>6. ivk' \in [Calls -> Ivks \cup {None}]  OBVIOUS
    <2>7. res' \in [Calls -> {"none", "ok", "err", "empty"}]  OBVIOUS
    <2> QED BY <2>1, <2>2, <2>3, <2>4, <2>5, <2>6, <2>7
  <1>2. /\ StickyInvoker' \in Ivks \cup {None} /\ panicked' \in BOOLEAN
        /\ taskListState' \in {"nil", "open", "disposed"}
    BY DEF ClusterInv, TypeOK, CallTypeOK, taskVars
  <1>3. /\ UNCHANGED <<confVars, list, available, changes, Destroyed, taskList>>
        /\ at[c] # "queued"
    BY DEF envVars, taskVars
  <1>4. TypeOK'
    BY <1>1, <1>2, <1>3 DEF ClusterInv, TypeOK, confVars
  <1>5. OthersUnchanged(c)
    BY DEF ClusterInv, TypeOK, CallTypeOK, OthersUnchanged
  <1>6. CallInv(c)'
    BY <1>3 DEF ClusterInv, TypeOK, CallTypeOK, CallInv, ZoneLoops, Fresh, Selection, confVars
  <1> QED BY <1>3, <1>4, <1>5, <1>6, StepFrame

\* The loops of available and broadcast.
LEMMA LoopInv ==
  ASSUME ClusterInv, NEW c \in Calls,
         LoopEnds(c) \/ \E i \in Ivks : LoopAvailable(c, i) \/ Broadcast(c, i)
  PROVE  ClusterInv'
PROOF
  <1> USE ClusterAssumption DEF LoopEnds, LoopAvailable, Broadcast, Goto, Return
  <1>1. CallTypeOK'
    <2> USE DEF ClusterInv, TypeOK, CallTypeOK
    <2>1. at' \in [Calls -> Points]
      <3>1. at' = at \/ \E q \in {"invoke", "done"} : at' = [at EXCEPT ![c] = q]  OBVIOUS
      <3> HIDE DEF LoopEnds, LoopAvailable, Broadcast
      <3> QED BY <3>1 DEF Points
    <2>2. invokers' \in [Calls -> SUBSET Ivks]  OBVIOUS
    <2>3. cand' \in [Calls -> SUBSET Ivks]  OBVIOUS
    <2>4. invoked' \in [Calls -> SUBSET Ivks]  BY DEF CallInv
    <2>5. tries' \in [Calls -> Nat]  BY DEF CallInv, Selection
    <2>6. ivk' \in [Calls -> Ivks \cup {None}]
      <3>1. ivk' = ivk \/ \E i \in Ivks : ivk' = [ivk EXCEPT ![c] = i]  OBVIOUS
      <3> HIDE DEF LoopEnds, LoopAvailable, Broadcast
      <3> QED BY <3>1
    <2>7. res' \in [Calls -> {"none", "ok", "err", "empty"}]  OBVIOUS
    <2> QED BY <2>1, <2>2, <2>3, <2>4, <2>5, <2>6, <2>7
  <1>2. /\ StickyInvoker' \in Ivks \cup {None} /\ panicked' \in BOOLEAN
        /\ taskListState' \in {"nil", "open", "disposed"}
    BY DEF ClusterInv, TypeOK, CallTypeOK, taskVars
  <1>3. /\ UNCHANGED <<confVars, list, available, changes, Destroyed, taskList>>
        /\ at[c] # "queued"
    BY DEF envVars, taskVars
  <1>4. TypeOK'
    BY <1>1, <1>2, <1>3 DEF ClusterInv, TypeOK, confVars
  <1>5. OthersUnchanged(c)
    BY DEF ClusterInv, TypeOK, CallTypeOK, OthersUnchanged
  <1>6. CallInv(c)'
    <2> USE <1>3 DEF ClusterInv, TypeOK, CallTypeOK, CallInv, ZoneLoops, Fresh, Selection, confVars
    <2>1. CASE LoopEnds(c)  BY <2>1
    <2>2. CASE \E i \in Ivks : LoopAvailable(c, i)  BY <2>2, SMTT(30)
    <2>3. CASE \E i \in Ivks : Broadcast(c, i)  BY <2>3, SMTT(30)
    <2> QED BY <2>1, <2>2, <2>3
  <1> QED BY <1>3, <1>4, <1>5, <1>6, StepFrame

\* The loops of zoneaware, and what it does with what DoSelect returned.
LEMMA ZoneInv ==
  ASSUME ClusterInv, NEW c \in Calls,
         PreferredEnds(c) \/ ZoneEnds(c) \/ SelectedZone(c) \/ \E i \in Ivks : LoopZone(c, i)
  PROVE  ClusterInv'
PROOF
  <1> USE ClusterAssumption DEF PreferredEnds, ZoneEnds, SelectedZone, LoopZone, Goto, Return
  <1>1. CallTypeOK'
    <2> USE DEF ClusterInv, TypeOK, CallTypeOK
    <2>1. at' \in [Calls -> Points]
      <3>1. at' = at \/ \E q \in {"invoke", "zone", "zoneForced", "sticky", "loop", "done"} : at' = [at EXCEPT ![c] = q]  OBVIOUS
      <3> HIDE DEF PreferredEnds, ZoneEnds, SelectedZone, LoopZone
      <3> QED BY <3>1 DEF Points
    <2>2. invokers' \in [Calls -> SUBSET Ivks]  OBVIOUS
    <2>3. cand' \in [Calls -> SUBSET Ivks]  OBVIOUS
    <2>4. invoked' \in [Calls -> SUBSET Ivks]  BY DEF CallInv
    <2>5. tries' \in [Calls -> Nat]  BY DEF CallInv, Selection
    <2>6. ivk' \in [Calls -> Ivks \cup {None}]
      <3>1. ivk' = ivk \/ \E i \in Ivks : ivk' = [ivk EXCEPT ![c] = i]  OBVIOUS
      <3> HIDE DEF PreferredEnds, ZoneEnds, SelectedZone, LoopZone
      <3> QED BY <3>1
    <2>7. res' \in [Calls -> {"none", "ok", "err", "empty"}]  OBVIOUS
    <2> QED BY <2>1, <2>2, <2>3, <2>4, <2>5, <2>6, <2>7
  <1>2. /\ StickyInvoker' \in Ivks \cup {None} /\ panicked' \in BOOLEAN
        /\ taskListState' \in {"nil", "open", "disposed"}
    BY DEF ClusterInv, TypeOK, CallTypeOK, taskVars
  <1>3. /\ UNCHANGED <<confVars, list, available, changes, Destroyed, taskList>>
        /\ at[c] # "queued"
    BY DEF envVars, taskVars, ZoneLoops
  <1>4. TypeOK'
    BY <1>1, <1>2, <1>3 DEF ClusterInv, TypeOK, confVars
  <1>5. OthersUnchanged(c)
    BY DEF ClusterInv, TypeOK, CallTypeOK, OthersUnchanged
  <1>6. CallInv(c)'
    BY <1>3, SMTT(30) DEF ClusterInv, TypeOK, CallTypeOK, CallInv, ZoneLoops, Fresh, Selection, confVars
  <1> QED BY <1>3, <1>4, <1>5, <1>6, StepFrame

\* The wait of forking.
LEMMA PollInv ==
  ASSUME ClusterInv, NEW c \in Calls,
         PollTimeout(c) \/ \E i \in Ivks : PollAnswer(c, i)
  PROVE  ClusterInv'
PROOF
  <1> USE ClusterAssumption DEF PollTimeout, PollAnswer, Return
  <1>1. CallTypeOK'
    <2> USE DEF ClusterInv, TypeOK, CallTypeOK
    <2>1. at' \in [Calls -> Points]  BY DEF Points
    <2>2. invokers' \in [Calls -> SUBSET Ivks]  OBVIOUS
    <2>3. cand' \in [Calls -> SUBSET Ivks]  OBVIOUS
    <2>4. invoked' \in [Calls -> SUBSET Ivks]  BY DEF CallInv
    <2>5. tries' \in [Calls -> Nat]  BY DEF CallInv, Selection
    <2>6. ivk' \in [Calls -> Ivks \cup {None}]  OBVIOUS
    <2>7. res' \in [Calls -> {"none", "ok", "err", "empty"}]  OBVIOUS
    <2> QED BY <2>1, <2>2, <2>3, <2>4, <2>5, <2>6, <2>7
  <1>2. /\ StickyInvoker' \in Ivks \cup {None} /\ panicked' \in BOOLEAN
        /\ taskListState' \in {"nil", "open", "disposed"}
    BY DEF ClusterInv, TypeOK, CallTypeOK, taskVars
  <1>3. /\ UNCHANGED <<confVars, list, available, changes, Destroyed, taskList>>
        /\ at[c] # "queued"
    BY DEF envVars, taskVars
  <1>4. TypeOK'
    BY <1>1, <1>2, <1>3 DEF ClusterInv, TypeOK, confVars
  <1>5. OthersUnchanged(c)
    BY DEF ClusterInv, TypeOK, CallTypeOK, OthersUnchanged
  <1>6. CallInv(c)'
    BY <1>3 DEF ClusterInv, TypeOK, CallTypeOK, CallInv, ZoneLoops, Fresh, Selection, confVars
  <1> QED BY <1>3, <1>4, <1>5, <1>6, StepFrame

\* Put appends a call that is not in the list.
LEMMA RecordInv ==
  ASSUME ClusterInv, NEW c \in Calls, RecordCheck(c) \/ RecordPut(c) \/ CheckRetry(c)
  PROVE  ClusterInv'
PROOF
  <1> USE ClusterAssumption DEF RecordCheck, RecordPut, CheckRetry, Put, Goto, Return
  <1>0. \/ taskList' = taskList
        \/ taskList' = Append(taskList, c) /\ at'[c] = "queued"
    BY DEF ClusterInv, TypeOK, CallTypeOK, taskVars
  <1>1. TypeOK'
    <2>0. CallTypeOK'
      <3> USE DEF ClusterInv, TypeOK, CallTypeOK
      <3>1. at' \in [Calls -> Points]  BY DEF Points
      <3>2. invokers' \in [Calls -> SUBSET Ivks]  OBVIOUS
      <3>3. cand' \in [Calls -> SUBSET Ivks]  OBVIOUS
      <3>4. invoked' \in [Calls -> SUBSET Ivks]  OBVIOUS
      <3>5. tries' \in [Calls -> Nat]  OBVIOUS
      <3>6. ivk' \in [Calls -> Ivks \cup {None}]  OBVIOUS
      <3>7. res' \in [Calls -> {"none", "ok", "err", "empty"}]  OBVIOUS
      <3> QED BY <3>1, <3>2, <3>3, <3>4, <3>5, <3>6, <3>7
    <2>1. taskList' \in Seq(Calls)  BY <1>0 DEF ClusterInv, TypeOK
    <2>2. UNCHANGED <<confVars, envVars, Destroyed, StickyInvoker, taskListState, panicked>>
      BY DEF taskVars
    <2> QED BY <2>0, <2>1, <2>2 DEF ClusterInv, TypeOK, confVars, envVars
  <1>2. OthersUnchanged(c)
    BY DEF ClusterInv, TypeOK, CallTypeOK, OthersUnchanged
  <1>3. CallInv(c)'
    BY SMTT(30) DEF ClusterInv, TypeOK, CallTypeOK, CallInv, ZoneLoops, Fresh, Selection, confVars
  <1>4. UNCHANGED confVars /\ at[c] \in {"record", "put", "retried"}  OBVIOUS
  <1>5. CASE taskList' = taskList
    BY <1>1, <1>2, <1>3, <1>4, <1>5, StepFrame
  <1>6. CASE taskList' = Append(taskList, c) /\ at'[c] = "queued"
    <2>1. \A n \in 1..Len(taskList) : taskList[n] # c
      BY <1>4 DEF ClusterInv, TasksOnce
    <2>2. /\ Len(taskList') = Len(taskList) + 1
          /\ \A n \in 1..Len(taskList) : taskList'[n] = taskList[n]
          /\ taskList'[Len(taskList) + 1] = c
      BY <1>6 DEF ClusterInv, TypeOK
    <2>3. Len(taskList) \in Nat /\ \A n \in 1..Len(taskList) : taskList[n] \in Calls
      BY DEF ClusterInv, TypeOK
    <2>4. TasksOnce'
      BY <1>2, <1>6, <2>1, <2>2, <2>3, SMTT(30) DEF ClusterInv, TasksOnce, OthersUnchanged
    <2>5. \A d \in Calls \ {c} : CallInv(d)'
      BY <1>2, <1>4 DEF ClusterInv, CallInv, ZoneLoops, Fresh, OthersUnchanged, confVars
    <2> QED BY <1>1, <1>3, <2>4, <2>5 DEF ClusterInv
  <1> QED BY <1>0, <1>5, <1>6

\* The ticker takes the first task out of the list before it runs.
LEMMA TickInv ==
  ASSUME ClusterInv, Tick
  PROVE  ClusterInv'
PROOF
  <1> USE ClusterAssumption
  <1>1. PICK c \in Calls : c = Head(taskList) /\ c = taskList[1]
    BY DEF Tick, ClusterInv, TypeOK
  <1>2. /\ at' = [at EXCEPT ![c] = "sticky"]
        /\ invoked' = [invoked EXCEPT ![c] = {ivk[c]}]
        /\ taskList' = Tail(taskList) /\ taskList # <<>>
        /\ UNCHANGED <<confVars, envVars, Destroyed, StickyInvoker, invokers, cand, tries, ivk,
                       res, taskListState, panicked>>
    BY <1>1 DEF Tick, Goto
  <1>3. at[c] = "queued" /\ ivk[c] \in Ivks /\ strategy = "failback"
    <2>1. 1 \in 1..Len(taskList)  BY <1>2 DEF ClusterInv, TypeOK
    <2>2. at[c] = "queued"  BY <1>1, <2>1 DEF ClusterInv, TasksOnce
    <2> QED BY <2>2 DEF ClusterInv, TypeOK, CallTypeOK, CallInv
  <1>4. TypeOK'
    <2>1. CallTypeOK'
      <3>1. at' \in [Calls -> Points]
        BY <1>2, <1>3 DEF ClusterInv, TypeOK, CallTypeOK, Points
      <3>2. invokers' \in [Calls -> SUBSET Ivks]
        BY <1>2, <1>3 DEF ClusterInv, TypeOK, CallTypeOK, Points
      <3>3. cand' \in [Calls -> SUBSET Ivks]
        BY <1>2, <1>3 DEF ClusterInv, TypeOK, CallTypeOK, Points
      <3>4. invoked' \in [Calls -> SUBSET Ivks]
        BY <1>2, <1>3 DEF ClusterInv, TypeOK, CallTypeOK, Points
      <3>5. tries' \in [Calls -> Nat]
        BY <1>2, <1>3 DEF ClusterInv, TypeOK, CallTypeOK, Points
      <3>6. ivk' \in [Calls -> Ivks \cup {None}]
        BY <1>2, <1>3 DEF ClusterInv, TypeOK, CallTypeOK, Points
      <3>7. res' \in [Calls -> {"none", "ok", "err", "empty"}]
        BY <1>2, <1>3 DEF ClusterInv, TypeOK, CallTypeOK, Points
      <3> QED BY <3>1, <3>2, <3>3, <3>4, <3>5, <3>6, <3>7 DEF CallTypeOK
    <2>2. taskList' \in Seq(Calls)  BY <1>2 DEF ClusterInv, TypeOK
    <2> QED BY <1>2, <2>1, <2>2 DEF ClusterInv, TypeOK, confVars, envVars
  <1>5. \A d \in Calls : CallInv(d)'
    <2>1. CallInv(c)'
      BY <1>2, <1>3 DEF ClusterInv, TypeOK, CallTypeOK, CallInv, ZoneLoops, Fresh, confVars
    <2>2. \A d \in Calls \ {c} : CallInv(d)'
      BY <1>2 DEF ClusterInv, TypeOK, CallTypeOK, CallInv, ZoneLoops, Fresh, confVars
    <2> QED BY <2>1, <2>2
  <1>6. TasksOnce'
    <2>1. /\ Len(taskList) \in Nat /\ Len(taskList') = Len(taskList) - 1
          /\ \A n \in 1..Len(taskList') : taskList'[n] = taskList[n + 1]
      BY <1>2 DEF ClusterInv, TypeOK
    <2>2. \A n \in 1..Len(taskList') : n + 1 \in 1..Len(taskList) /\ taskList'[n] # c
      BY <1>1, <2>1 DEF ClusterInv, TasksOnce
    <2>3. \A n \in 1..Len(taskList') : taskList'[n] \in Calls /\ at'[taskList'[n]] = "queued"
      BY <1>2, <2>1, <2>2 DEF ClusterInv, TasksOnce, TypeOK, CallTypeOK
    <2> QED BY <2>1, <2>2, <2>3, SMTT(30) DEF ClusterInv, TasksOnce
  <1> QED BY <1>4, <1>5, <1>6 DEF ClusterInv

\* Every step preserves the invariant.
LEMMA NextInv == ClusterInv /\ [Next]_vars => ClusterInv'
PROOF
  <1> SUFFICES ASSUME ClusterInv, [Next]_vars PROVE ClusterInv'  OBVIOUS
  <1>1. CASE UNCHANGED vars
    <2>1. TypeOK'  BY <1>1 DEF ClusterInv, TypeOK, CallTypeOK, vars
    <2>2. TasksOnce' /\ \A c \in Calls : CallInv(c)'
      BY <1>1 DEF ClusterInv, TasksOnce, CallInv, ZoneLoops, Fresh, vars
    <2> QED BY <2>1, <2>2 DEF ClusterInv
  <1>2. CASE ListChanges \/ (\E i \in Ivks : AvailabilityChanges(i)) \/ Destroy
    BY <1>2, EnvInv
  <1>3. CASE Tick  BY <1>3, TickInv
  <1>4. CASE \E c \in Calls : Invoke(c)  BY <1>4, InvokeInv
  <1>5. ASSUME NEW c \in Calls, CallStep(c) PROVE ClusterInv'
    <2>1. CASE StickySteps(c)
      BY <2>1, StickyInv
    <2>2. CASE ReselectFails(c)  BY <2>2, SelectInv
    <2>3. CASE SelectedFork(c) \/ SelectedOne(c) \/ SelectedNone(c)  BY <2>3, SelectedInv
    <2>4. CASE InvokeOK(c) \/ InvokeFails(c) \/ FailbackFails(c)  BY <2>4, AnswerInv
    <2>5. CASE LoopEnds(c) \/ PollTimeout(c)  BY <2>5, LoopInv, PollInv
    <2>8. CASE PreferredEnds(c) \/ ZoneEnds(c) \/ SelectedZone(c)  BY <2>8, ZoneInv
    <2>6. CASE RecordCheck(c) \/ RecordPut(c) \/ CheckRetry(c)  BY <2>6, RecordInv
    <2>7. ASSUME NEW i \in Ivks,
                 SelectFirst(c, i) \/ Reselect(c, i) \/ LoopAvailable(c, i) \/ Broadcast(c, i)
                   \/ PollAnswer(c, i) \/ LoopZone(c, i)
          PROVE  ClusterInv'
      BY <2>7, SelectInv, LoopInv, PollInv, ZoneInv
    <2> QED BY <1>5, <2>1, <2>2, <2>3, <2>4, <2>5, <2>6, <2>7, <2>8 DEF CallStep
  <1> QED BY <1>1, <1>2, <1>3, <1>4, <1>5 DEF Next

\* ClusterInv is an invariant: the cluster invokers keep their types and the
\* facts that tie a call's point to its candidates, for any number of calls.
THEOREM ClusterInvariance == Spec => []ClusterInv
PROOF
  <1>1. Init => ClusterInv  BY InitInv
  <1>2. ClusterInv /\ [Next]_vars => ClusterInv'  BY NextInv
  <1> QED BY <1>1, <1>2, PTL DEF Spec

\* DoSelect returns a member of the list it was given, and nobody the call has
\* invoked before unless there is no other, when the URL is not sticky.
THEOREM SelectionIsFresh == Spec => []SelectsFresh
PROOF
  <1>1. ClusterInv => SelectsFresh  BY DEF ClusterInv, CallInv, SelectsFresh
  <1> QED BY <1>1, ClusterInvariance, PTL

\* A failed call of failback has one task: it waits in the list or runs.
THEOREM OneTask == Spec => []TasksOnce
PROOF
  <1>1. ClusterInv => TasksOnce  BY DEF ClusterInv
  <1> QED BY <1>1, ClusterInvariance, PTL
-----------------------------------------------------------------------------

(* ReachesEnough: what a call has done so far, at each of its points.      *)

\* Nothing has changed yet, and the URL is not sticky.
Still == ~sticky /\ ~Destroyed /\ changes = 0

\* Where the loop and the poll are found, and how far a broadcast got: everyone on
\* the list was called or is still a candidate.
PlaceInv(c) ==
  /\ at[c] = "loop" => strategy \in {"available", "broadcast", "zoneaware"}
  /\ at[c] = "poll" => strategy = "forking"
  /\ strategy = "broadcast" =>
       /\ at[c] \in {"idle", "loop", "done"}
       /\ at[c] = "loop" => invoked[c] \cup cand[c] = invokers[c]
       /\ at[c] = "done" /\ (res[c] = "ok" \/ invoked[c] # {}) => invoked[c] = invokers[c]

\* Selections of failover and forking: whoever was refused had been called, so
\* nobody is selected only when all or four were.
PickInv(c) ==
  /\ invoked[c] \subseteq list
  /\ at[c] = "reselect" => list \ cand[c] \subseteq invoked[c]
  /\ at[c] = "selected" /\ ivk[c] = None => invoked[c] = list \/ Cardinality(invoked[c]) >= 4

\* Every attempt that is over was enough.
FailoverInv(c) ==
  /\ at[c] \in Selection \cup {"invoke"} =>
       tries[c] <= GetRetries(list) /\ Enough(invoked[c], list, GetRetries(list) - tries[c])
  /\ at[c] = "done" /\ res[c] = "err" => Enough(invoked[c], list, Retries + 1)

ForkingInv(c) ==
  /\ at[c] \in Selection => tries[c] <= Forks /\ Enough(invoked[c], list, Forks - tries[c])
  /\ at[c] = "poll" => Enough(invoked[c], list, Forks)

\* The loops pass over nobody they look for, and DoSelect finds somebody at once.
ZoneawareInv(c) ==
  /\ at[c] \notin {"loop", "reselect"}
  /\ at[c] = "selected" => ivk[c] # None
  /\ at[c] = "preferred" => list \cap Preferred \subseteq cand[c]
  /\ at[c] \in {"zone", "zoneForced"} =>
       list \cap Preferred = {} /\ list \cap InZone \subseteq cand[c]
  /\ at[c] = "done" /\ list \cap (Preferred \cup InZone) # {} => invoked[c] # {}

StillInv(c) ==
  /\ at[c] # "idle" => invokers[c] = list
  /\ strategy \in {"failover", "forking"} => PickInv(c)
  /\ strategy = "failover" => FailoverInv(c)
  /\ strategy = "forking" => ForkingInv(c)
  /\ strategy = "zoneaware" => ZoneawareInv(c)

\* The inductive invariant from which ReachesEnough follows.
ReachInv ==
  /\ \A c \in Calls : PlaceInv(c)
  /\ Still => (\A i \in Ivks : available[i]) /\ \A c \in Calls : StillInv(c)

\* Subsets of the invokers are counted.
LEMMA Counted ==
  ASSUME NEW l \in SUBSET Ivks, NEW s \in SUBSET l
  PROVE  /\ IsFiniteSet(s) /\ Cardinality(s) \in Nat /\ Cardinality(l) \in Nat
         /\ Cardinality(s) <= Cardinality(l)
         /\ Cardinality(s) = Cardinality(l) => s = l
PROOF
  <1>1. IsFiniteSet(l) /\ IsFiniteSet(s)  BY ClusterAssumption, FS_Subset
  <1> QED BY <1>1, FS_Subset, FS_CardinalityType

\* One more attempt that finds nobody.
LEMMA EnoughNobody ==
  ASSUME NEW l \in SUBSET Ivks, NEW s \in SUBSET l, NEW n \in Nat,
         Enough(s, l, n), s = l \/ Cardinality(s) >= 4
  PROVE  Enough(s, l, n + 1)
PROOF
  <1>1. Cardinality(s) \in Nat  BY Counted
  <1> QED BY <1>1, SMT DEF Enough

\* One more attempt that calls somebody fresh, or the only one there is.
LEMMA EnoughFresh ==
  ASSUME NEW l \in SUBSET Ivks, NEW s \in SUBSET l, NEW i \in l, NEW n \in Nat,
         Enough(s, l, n), i \notin s \/ l = {i}
  PROVE  s \cup {i} \subseteq l /\ Enough(s \cup {i}, l, n + 1)
PROOF
  <1>1. IsFiniteSet(s) /\ Cardinality(s) \in Nat  BY Counted
  <1>2. CASE i \notin s
    <2>1. Cardinality(s \cup {i}) = Cardinality(s) + 1  BY <1>1, <1>2, FS_AddElement
    <2>2. Cardinality(s) >= n \/ Cardinality(s) >= 4
      BY <1>1, <1>2, SMT DEF Enough
    <2>3. Cardinality(s) <= n  BY DEF Enough
    <2>4. Cardinality(s) + 1 <= n + 1 /\ (Cardinality(s) + 1 < n + 1 => Cardinality(s) + 1 >= 4)
      BY <1>1, <2>2, <2>3, SMT
    <2> QED BY <2>1, <2>4, Zenon DEF Enough
  <1>3. CASE i \in s
    <2>1. s \cup {i} = s /\ s = l  BY <1>3
    <2>2. Enough(s, l, n + 1)  BY <2>1, EnoughNobody
    <2> QED BY <2>1, <2>2
  <1> QED BY <1>2, <1>3

\* getRetries asks for fewer attempts only when the list is as short.
LEMMA EnoughRetries ==
  ASSUME NEW l \in SUBSET Ivks, NEW s \in SUBSET l, Enough(s, l, GetRetries(l) + 1)
  PROVE  Enough(s, l, Retries + 1)
PROOF
  <1> DEFINE k == Cardinality(l)
             m == GetRetries(l)
  <1>1. k \in Nat /\ Cardinality(s) \in Nat /\ Cardinality(s) <= k /\ Retries \in Nat
    BY Counted, ClusterAssumption
  <1>2. \E x \in {Retries, k} : \A y \in {Retries, k} : x <= y
    BY <1>1
  <1>3. m \in {Retries, k} /\ \A y \in {Retries, k} : m <= y
    BY <1>2 DEF Min, GetRetries
  <1> HIDE DEF k, m
  <1>4. Cardinality(s) <= m + 1 /\ (Cardinality(s) < m + 1 => s = l \/ Cardinality(s) >= 4)
    BY DEF Enough, m
  <1> QED BY <1>1, <1>3, <1>4, SMT DEF Enough

\* When everyone refused had been called, the reselection ends because all or four
\* were.
LEMMA RefusedCalled ==
  ASSUME NEW l \in SUBSET Ivks, NEW s \in SUBSET l, NEW r \in SUBSET l, l \ r \subseteq s,
         r = {} \/ Cardinality(l \ r) > 3
  PROVE  s = l \/ Cardinality(s) >= 4
PROOF
  <1>1. CASE r = {}  BY <1>1
  <1>2. CASE Cardinality(l \ r) > 3
    <2>1. s \in SUBSET Ivks /\ l \ r \in SUBSET s  OBVIOUS
    <2>2. /\ Cardinality(l \ r) \in Nat /\ Cardinality(s) \in Nat
          /\ Cardinality(l \ r) <= Cardinality(s)
      BY <2>1, Counted
    <2> QED BY <1>2, <2>2, SMT
  <1> QED BY <1>1, <1>2

\* Where nobody is to be called, or nobody is listed, none is enough.
LEMMA EnoughNone == ASSUME NEW l \in SUBSET Ivks, NEW n \in Nat, n = 0 \/ l = {}
                    PROVE  Enough({}, l, n)
PROOF
  <1>1. Cardinality({}) = 0  BY FS_EmptySet, Zenon
  <1> QED BY <1>1, SMT DEF Enough

\* The initial state satisfies the count of those reached.
LEMMA ReachInit == Init => ReachInv
PROOF
  <1> SUFFICES ASSUME Init PROVE ReachInv  OBVIOUS
  <1>1. \A c \in Calls : at[c] = "idle" /\ invoked[c] = {}  BY DEF Init
  <1>2. \A i \in Ivks : available[i]  BY DEF Init
  <1> QED BY <1>1, <1>2 DEF ReachInv, PlaceInv, StillInv, PickInv, FailoverInv, ForkingInv,
             ZoneawareInv, Selection

\* A step of a call has to care for itself only.
LEMMA ReachFrame ==
  ASSUME ReachInv, NEW c \in Calls, UNCHANGED <<confVars, envVars, Destroyed>>,
         OthersUnchanged(c), \A d \in Calls \ {c} : res'[d] = res[d],
         PlaceInv(c)', Still => StillInv(c)'
  PROVE  ReachInv'
PROOF
  <1>1. \A d \in Calls \ {c} : PlaceInv(d)'
    BY DEF ReachInv, PlaceInv, OthersUnchanged, confVars
  <1>2. Still' = Still /\ available' = available
    BY DEF Still, confVars, envVars
  <1>3. Still => \A d \in Calls \ {c} : StillInv(d)'
    BY DEF ReachInv, StillInv, PickInv, FailoverInv, ForkingInv, ZoneawareInv,
           OthersUnchanged, confVars, envVars
  <1> QED BY <1>1, <1>2, <1>3 DEF ReachInv

\* The environment and Destroy end the stillness, and touch no call.
LEMMA EnvReach ==
  ASSUME ClusterInv, ReachInv,
         ListChanges \/ (\E i \in Ivks : AvailabilityChanges(i)) \/ Destroy
  PROVE  ReachInv'
PROOF
  <1>1. UNCHANGED <<confVars, callVars>>
    BY DEF ListChanges, AvailabilityChanges, Destroy, Change
  <1>2. changes' = changes + 1 \/ Destroyed'
    BY DEF ListChanges, AvailabilityChanges, Destroy, Change
  <1>3. changes' # 0 \/ Destroyed'
    <2>1. changes \in Nat  BY DEF ClusterInv, TypeOK
    <2> QED BY <1>2, <2>1
  <1>4. ~Still'  BY <1>3 DEF Still
  <1>5. \A c \in Calls : PlaceInv(c)'
    BY <1>1 DEF ReachInv, PlaceInv, confVars, callVars
  <1> QED BY <1>4, <1>5 DEF ReachInv

\* A call starts: nobody was called, and everyone on the list is to be looked at.
LEMMA InvokeReach ==
  ASSUME ClusterInv, ReachInv, NEW c \in Calls, Invoke(c)
  PROVE  ReachInv'
PROOF
  <1>1. /\ UNCHANGED <<confVars, envVars, Destroyed>> /\ OthersUnchanged(c)
        /\ \A d \in Calls \ {c} : res'[d] = res[d]
    BY DEF ClusterInv, TypeOK, CallTypeOK, OthersUnchanged, Invoke, Begin, Goto, Return
  <1>2. list \in SUBSET Ivks /\ invoked[c] = {} /\ invokers'[c] = list /\ Forks \in Nat
    BY ClusterAssumption DEF ClusterInv, TypeOK, CallTypeOK, CallInv, Invoke
  <1>3. \/ /\ at'[c] = "done" /\ res'[c] # "ok" /\ invoked'[c] = {} /\ (list = {} \/ Destroyed)
        \/ /\ at'[c] = "sticky" /\ strategy \in Selecting /\ invoked'[c] = {}
           /\ strategy = "failover" => tries'[c] = GetRetries(list)
        \/ /\ at'[c] = "loop" /\ strategy \in {"available", "broadcast"}
           /\ invoked'[c] = {} /\ cand'[c] = list
        \/ /\ at'[c] = "preferred" /\ strategy = "zoneaware"
           /\ invoked'[c] = {} /\ cand'[c] = list
        \/ /\ strategy = "forking" /\ invoked'[c] = {} /\ tries'[c] = Forks
           /\ at'[c] = "sticky" \/ (at'[c] = "poll" /\ Forks = 0)
        \/ /\ strategy = "forking" /\ at'[c] = "poll" /\ invoked'[c] = list
           /\ Forks > Cardinality(list)
    <2>0. /\ DOMAIN at = Calls /\ DOMAIN cand = Calls /\ DOMAIN invoked = Calls
          /\ DOMAIN tries = Calls /\ DOMAIN res = Calls
          /\ at = [d \in Calls |-> at[d]] /\ cand = [d \in Calls |-> cand[d]]
          /\ invoked = [d \in Calls |-> invoked[d]] /\ tries = [d \in Calls |-> tries[d]]
          /\ res = [d \in Calls |-> res[d]]
      BY DEF ClusterInv, TypeOK, CallTypeOK
    <2>1. CASE /\ list = {} \/ Destroyed
               /\ \E r \in {"empty", "err"} : Return(c, r)
               /\ UNCHANGED invoked
      BY <1>2, <2>0, <2>1 DEF Return
    <2>2. CASE Begin(c) /\ UNCHANGED invoked
      <3>1. CASE strategy \in Selecting
        <4>1. /\ at' = [at EXCEPT ![c] = "sticky"]
              /\ tries' = [tries EXCEPT ![c] =
                             IF strategy = "failover" THEN GetRetries(list) ELSE 0]
          BY <2>2, <3>1 DEF Begin, Goto, Selecting
        <4>2. at'[c] = "sticky"  BY <2>0, <4>1
        <4>3. strategy = "failover" => tries'[c] = GetRetries(list)  BY <2>0, <4>1
        <4> QED BY <1>2, <2>2, <3>1, <4>2, <4>3
      <3>2. CASE strategy \in {"available", "broadcast"}
        BY <1>2, <2>0, <2>2, <3>2 DEF Begin, Goto, Selecting
      <3>3. CASE strategy = "zoneaware"  BY <1>2, <2>0, <2>2, <3>3 DEF Begin, Goto, Selecting
      <3>4. CASE strategy = "forking"
        <4>1. /\ at' = [at EXCEPT ![c] = IF Forks = 0 THEN "poll" ELSE "sticky"]
              /\ tries' = [tries EXCEPT ![c] = Forks]
          BY <2>2, <3>4 DEF Begin, Goto, Selecting
        <4>2. tries'[c] = Forks /\ (at'[c] = "sticky" \/ (at'[c] = "poll" /\ Forks = 0))
          BY <2>0, <4>1
        <4> QED BY <1>2, <2>2, <3>4, <4>2
      <3> QED BY <2>2, <3>1, <3>2, <3>3, <3>4 DEF Begin
    <2>3. CASE /\ strategy = "forking" /\ Forks > Cardinality(list) /\ Goto(c, "poll")
               /\ invoked' = [invoked EXCEPT ![c] = list]
      BY <2>0, <2>3 DEF Goto
    <2> QED BY <2>1, <2>2, <2>3 DEF Invoke
  <1>4. PlaceInv(c)'
    BY <1>1, <1>2, <1>3 DEF PlaceInv, Selecting, confVars
  <1>5. ASSUME Still PROVE StillInv(c)'
    <2>0. strategy' = strategy /\ list' = list /\ ~Destroyed
      BY <1>1, <1>5 DEF confVars, envVars, Still
    <2>1. CASE strategy = "failover"
      <3>1. invoked'[c] = {}  BY <1>3, <2>1
      <3>2. PickInv(c)'  BY <1>3, <2>0, <2>1, <3>1 DEF PickInv
      <3>3. CASE at'[c] = "done"
        <4>1. list = {}  BY <1>3, <2>0, <2>1, <3>3
        <4>2. Enough({}, list, Retries + 1)  BY <1>2, <4>1, EnoughNone, ClusterAssumption
        <4> QED BY <1>2, <2>0, <2>1, <3>1, <3>2, <3>3, <4>2 DEF StillInv, FailoverInv, Selection
      <3>4. CASE at'[c] = "sticky"
        <4>1. GetRetries(list) \in Nat /\ tries'[c] = GetRetries(list)
          BY <1>2, <1>3, <2>1, <3>4, RetriesType
        <4>2. tries'[c] <= GetRetries(list) /\ GetRetries(list) - tries'[c] = 0
          BY <4>1, SMT
        <4>3. Enough({}, list, 0)  BY <1>2, EnoughNone
        <4> QED BY <1>2, <2>0, <2>1, <3>1, <3>2, <3>4, <4>2, <4>3 DEF StillInv, FailoverInv, GetRetries
      <3> QED BY <1>3, <2>1, <3>3, <3>4
    <2>2. CASE strategy = "forking"
      <3>1. invoked'[c] \in {{}, list} /\ at'[c] \in {"done", "sticky", "poll"}
        BY <1>3, <2>2 DEF Selecting
      <3>2. PickInv(c)'  BY <2>0, <3>1 DEF PickInv
      <3>3. CASE at'[c] = "done"
        BY <1>2, <2>0, <2>2, <3>2, <3>3 DEF StillInv, ForkingInv, Selection
      <3>4. CASE at'[c] = "sticky"
        <4>1. tries'[c] = Forks /\ invoked'[c] = {}  BY <1>3, <2>2, <3>4 DEF Selecting
        <4>2. tries'[c] <= Forks /\ Forks - tries'[c] = 0  BY <1>2, <4>1, SMT
        <4>3. Enough({}, list, 0)  BY <1>2, EnoughNone
        <4> QED BY <1>2, <2>0, <2>2, <3>2, <3>4, <4>1, <4>2, <4>3 DEF StillInv, ForkingInv
      <3>5. CASE at'[c] = "poll"
        <4>1. \/ Forks = 0 /\ invoked'[c] = {}
              \/ Forks > Cardinality(list) /\ invoked'[c] = list
          BY <1>3, <2>2, <3>5
        <4>2. CASE Forks = 0 /\ invoked'[c] = {}
          <5>1. Enough({}, list, Forks)  BY <1>2, <4>2, EnoughNone
          <5> QED BY <1>2, <2>0, <2>2, <3>2, <3>5, <4>2, <5>1 DEF StillInv, ForkingInv, Selection
        <4>3. CASE Forks > Cardinality(list) /\ invoked'[c] = list
          <5>1. Cardinality(list) \in Nat  BY <1>2, Counted
          <5>2. Cardinality(list) <= Forks  BY <1>2, <4>3, <5>1, SMT
          <5>3. Enough(list, list, Forks)  BY <5>2 DEF Enough
          <5> QED BY <1>2, <2>0, <2>2, <3>2, <3>5, <4>3, <5>3 DEF StillInv, ForkingInv, Selection
        <4> QED BY <4>1, <4>2, <4>3
      <3> QED BY <3>1, <3>3, <3>4, <3>5
    <2>3. CASE strategy = "zoneaware"
      <3>1. /\ at'[c] \in {"done", "preferred"}
            /\ at'[c] = "done" => list = {}
            /\ at'[c] = "preferred" => cand'[c] = list
        BY <1>3, <2>0, <2>3 DEF Selecting
      <3> QED BY <1>2, <2>0, <2>3, <3>1 DEF StillInv, ZoneawareInv
    <2> QED BY <1>2, <2>0, <2>1, <2>2, <2>3 DEF StillInv
  <1> QED BY <1>1, <1>4, <1>5, ReachFrame

\* The sticky part of DoSelect selects nobody for a URL that is not sticky.
LEMMA StickyReach ==
  ASSUME ClusterInv, ReachInv, NEW c \in Calls, StickySteps(c)
  PROVE  ReachInv'
PROOF
  <1>1. /\ UNCHANGED <<confVars, envVars, Destroyed, invokers, cand, invoked, tries, res>>
        /\ OthersUnchanged(c)
    BY StickyFrame DEF stickyRest, OthersUnchanged
  <1>2. at[c] \in Selection /\ at'[c] \in Selection
    BY StickyFrame DEF Selection, StickyOnly
  <1>3. PlaceInv(c)'
    BY <1>1, <1>2 DEF ReachInv, PlaceInv, Selection, StickyOnly, confVars
  <1>4. ASSUME Still PROVE StillInv(c)'
    <2>1. at'[c] \in {"stickyKnown", "stickyLost", "select"} /\ at[c] # "idle"
      BY <1>2, <1>4, StickyFrame DEF Still, Selection, StickyOnly
    <2>2. StillInv(c)  BY <1>4 DEF ReachInv
    <2> QED
      BY <1>1, <1>2, <2>1, <2>2 DEF StillInv, PickInv, FailoverInv, ForkingInv, ZoneawareInv,
         confVars, envVars
  <1> QED BY <1>1, <1>3, <1>4, ReachFrame

\* While nothing changes everyone is available, and a choice is refused only because
\* it was called before.
LEMMA SelectReach ==
  ASSUME ClusterInv, ReachInv, NEW c \in Calls,
         ReselectFails(c) \/ \E i \in Ivks : SelectFirst(c, i) \/ Reselect(c, i)
  PROVE  ReachInv'
PROOF
  <1>1. /\ UNCHANGED <<confVars, envVars, Destroyed, invokers, invoked, tries, res>>
        /\ OthersUnchanged(c) /\ at[c] \in {"select", "reselect"}
    BY DEF ClusterInv, TypeOK, CallTypeOK, OthersUnchanged, SelectFirst, Reselect,
           ReselectFails, Select, Goto
  <1>2. at'[c] \in {"reselect", "selected"}
    BY DEF ClusterInv, TypeOK, CallTypeOK, SelectFirst, Reselect, ReselectFails, Select, Goto
  <1>3. PlaceInv(c)'
    BY <1>1, <1>2 DEF ReachInv, PlaceInv, confVars
  <1>4. ASSUME Still PROVE StillInv(c)'
    <2>0. /\ StillInv(c) /\ CallInv(c) /\ invokers[c] = list /\ list \in SUBSET Ivks
          /\ \A i \in Ivks : available[i]
      BY <1>1, <1>4 DEF ReachInv, StillInv, ClusterInv, TypeOK
    <2>1. \/ at'[c] = "selected" /\ ivk'[c] # None
          \/ /\ at'[c] = "reselect"
             /\ \E i \in invoked[c] : \/ at[c] = "select" /\ cand'[c] = list \ {i}
                                      \/ at[c] = "reselect" /\ cand'[c] = cand[c] \ {i}
          \/ at[c] = "reselect" /\ Exhausted(c) /\ at'[c] = "selected"
      <3> USE DEF Goto
      <3>0. /\ at = [d \in Calls |-> at[d]] /\ cand = [d \in Calls |-> cand[d]]
            /\ ivk = [d \in Calls |-> ivk[d]]
        BY DEF ClusterInv, TypeOK, CallTypeOK
      <3>1. CASE ReselectFails(c)  BY <3>0, <3>1 DEF ReselectFails, Select
      <3>2. ASSUME NEW i \in Ivks, Reselect(c, i)
            PROVE  \/ at'[c] = "selected" /\ ivk'[c] # None
                   \/ /\ at'[c] = "reselect" /\ i \in invoked[c] /\ at[c] = "reselect"
                      /\ cand'[c] = cand[c] \ {i}
        BY <2>0, <3>0, <3>2, ClusterAssumption DEF Reselect, Select
      <3>3. ASSUME NEW i \in Ivks, SelectFirst(c, i)
            PROVE  \/ at'[c] = "selected" /\ ivk'[c] # None
                   \/ /\ at'[c] = "reselect" /\ i \in invoked[c] /\ at[c] = "select"
                      /\ cand'[c] = list \ {i}
        <4>1. CASE Usable(c, i)
          BY <3>0, <3>3, <4>1, ClusterAssumption DEF SelectFirst, Select
        <4>2. CASE ~Usable(c, i)
          <5>1. i \in invoked[c] /\ invokers[c] # {i}  BY <2>0, <4>2 DEF Usable
          <5> QED BY <2>0, <3>0, <3>3, <4>2, <5>1 DEF SelectFirst
        <4> QED BY <4>1, <4>2
      <3> QED BY <3>1, <3>2, <3>3
    <2>2. CASE strategy \in {"failover", "forking"}
      <3>1. PickInv(c)'
        <4>1. PickInv(c) /\ list' = list /\ invoked'[c] = invoked[c]
          BY <1>1, <2>0, <2>2 DEF StillInv, envVars
        <4>2. at'[c] = "reselect" => list' \ cand'[c] \subseteq invoked'[c]
          BY <2>1, <4>1 DEF PickInv
        <4>3. at'[c] = "selected" /\ ivk'[c] = None =>
                invoked[c] = list \/ Cardinality(invoked[c]) >= 4
          <5> SUFFICES ASSUME at'[c] = "selected", ivk'[c] = None
                       PROVE  invoked[c] = list \/ Cardinality(invoked[c]) >= 4
            OBVIOUS
          <5>1. at[c] = "reselect" /\ Exhausted(c)  BY <2>1
          <5>2. /\ invoked[c] \in SUBSET list /\ cand[c] \in SUBSET list
                /\ list \ cand[c] \subseteq invoked[c]
            BY <2>0, <4>1, <5>1 DEF PickInv, CallInv
          <5>3. cand[c] = {} \/ Cardinality(list \ cand[c]) > 3
            BY <2>0, <5>1 DEF Exhausted
          <5> QED BY <2>0, <5>2, <5>3, RefusedCalled
        <4> QED BY <4>1, <4>2, <4>3 DEF PickInv
      <3> QED
        BY <1>1, <1>2, <2>0, <2>2, <3>1 DEF StillInv, FailoverInv, ForkingInv, Selection,
           confVars, envVars
    <2>3. CASE strategy = "zoneaware"
      <3>1. invoked[c] = {} /\ at[c] # "reselect"
        BY <1>1, <2>0, <2>3 DEF CallInv, StillInv, ZoneawareInv
      <3>2. at'[c] = "selected" /\ ivk'[c] # None  BY <2>1, <3>1
      <3> QED BY <1>1, <2>0, <2>3, <3>2 DEF StillInv, ZoneawareInv, confVars, envVars
    <2> QED BY <1>1, <2>0, <2>2, <2>3 DEF StillInv, confVars, envVars
  <1> QED BY <1>1, <1>3, <1>4, ReachFrame

\* An attempt of failover is over, and was enough.
LEMMA AttemptReach ==
  ASSUME ClusterInv, NEW c \in Calls, Still, strategy = "failover",
         NextAttempt(c), UNCHANGED <<confVars, envVars>>,
         invokers[c] = list, invoked'[c] \subseteq list, tries[c] <= GetRetries(list),
         Enough(invoked'[c], list, (GetRetries(list) - tries[c]) + 1)
  PROVE  StillInv(c)'
PROOF
  <1>0. /\ list \in SUBSET Ivks /\ list' = list /\ strategy' = "failover" /\ ~Destroyed
        /\ GetRetries(list) \in Nat /\ tries[c] \in Nat /\ tries \in [Calls -> Nat]
        /\ at = [d \in Calls |-> at[d]] /\ res = [d \in Calls |-> res[d]]
        /\ invokers = [d \in Calls |-> invokers[d]]
    BY RetriesType DEF ClusterInv, TypeOK, CallTypeOK, Still, confVars, envVars
  <1>1. CASE tries[c] = 0 \/ list = {}
    <2>1. at'[c] = "done" /\ invokers'[c] = list
      BY <1>0, <1>1 DEF NextAttempt, Return
    <2>2. Enough(invoked'[c], list, Retries + 1)
      <3>1. CASE tries[c] = 0
        <4>1. (GetRetries(list) - tries[c]) + 1 = GetRetries(list) + 1  BY <1>0, <3>1, SMT
        <4>2. Enough(invoked'[c], list, GetRetries(list) + 1)  BY <4>1
        <4> QED BY <1>0, <4>2, EnoughRetries
      <3>2. CASE list = {}
        <4>1. invoked'[c] = {}  BY <3>2
        <4>2. Enough({}, list, Retries + 1)  BY <1>0, <3>2, EnoughNone, ClusterAssumption
        <4> QED BY <4>1, <4>2
      <3> QED BY <1>1, <3>1, <3>2
    <2> QED BY <1>0, <2>1, <2>2 DEF StillInv, PickInv, FailoverInv, Selection
  <1>2. CASE tries[c] # 0 /\ list # {}
    <2>1. at'[c] = "sticky" /\ invokers'[c] = list
      BY <1>0, <1>2 DEF NextAttempt, Goto
    <2>2. tries' = [tries EXCEPT ![c] = @ - 1]
      BY <1>0, <1>2 DEF NextAttempt
    <2>3. tries'[c] = tries[c] - 1  BY <1>0, <2>2
    <2>4. /\ tries'[c] <= GetRetries(list)
          /\ GetRetries(list) - tries'[c] = (GetRetries(list) - tries[c]) + 1
      BY <1>0, <1>2, <2>3, SMT
    <2>5. Enough(invoked'[c], list, GetRetries(list) - tries'[c])  BY <2>4
    <2>6. GetRetries(list') = GetRetries(list)  BY <1>0
    <2>7. FailoverInv(c)'  BY <1>0, <2>1, <2>4, <2>5, <2>6 DEF FailoverInv, GetRetries
    <2> QED BY <1>0, <2>1, <2>7 DEF StillInv, PickInv
  <1> QED BY <1>1, <1>2

\* What follows the selection: forking counts whom it got, failover goes on when it
\* got nobody.
LEMMA SelectedReach ==
  ASSUME ClusterInv, ReachInv, NEW c \in Calls,
         SelectedFork(c) \/ SelectedOne(c) \/ SelectedNone(c)
  PROVE  ReachInv'
PROOF
  <1>1. /\ UNCHANGED <<confVars, envVars, Destroyed, cand, ivk>>
        /\ OthersUnchanged(c) /\ at[c] = "selected"
        /\ \A d \in Calls \ {c} : res'[d] = res[d]
    BY DEF ClusterInv, TypeOK, CallTypeOK, OthersUnchanged, SelectedFork, SelectedOne,
           SelectedNone, NextAttempt, Goto, Return
  <1>2. at'[c] # "loop" /\ (at'[c] = "poll" => strategy = "forking")
    BY <1>1 DEF ClusterInv, TypeOK, CallTypeOK, SelectedFork, SelectedOne,
       SelectedNone, NextAttempt, Goto, Return
  <1>3. PlaceInv(c)'
    BY <1>1, <1>2 DEF ReachInv, PlaceInv, confVars
  <1>4. ASSUME Still PROVE StillInv(c)'
    <2>0. /\ StillInv(c) /\ CallInv(c) /\ invokers[c] = list /\ list \in SUBSET Ivks
          /\ tries[c] \in Nat /\ ~sticky /\ Forks \in Nat /\ GetRetries(list) \in Nat
          /\ at = [d \in Calls |-> at[d]] /\ invoked = [d \in Calls |-> invoked[d]]
          /\ tries = [d \in Calls |-> tries[d]]
      BY <1>1, <1>4, RetriesType, ClusterAssumption
      DEF ReachInv, StillInv, ClusterInv, TypeOK, CallTypeOK, Still
    <2>1. CASE SelectedOne(c)
      <3>1. /\ at'[c] = "invoke" /\ strategy \notin {"forking", "zoneaware"}
            /\ UNCHANGED <<invokers, invoked, tries, res>>
        BY <2>0, <2>1 DEF SelectedOne, Goto
      <3> QED BY <1>1, <2>0, <3>1 DEF StillInv, PickInv, FailoverInv, Selection, confVars, envVars
    <2>2. CASE SelectedNone(c)
      <3>1. CASE strategy = "failover"
        <4>1. /\ NextAttempt(c) /\ invoked' = invoked /\ ivk[c] = None
          BY <2>2, <3>1 DEF SelectedNone
        <4>2. PickInv(c) /\ FailoverInv(c)  BY <2>0, <3>1 DEF StillInv
        <4>3. /\ invoked[c] \in SUBSET list /\ tries[c] <= GetRetries(list)
              /\ Enough(invoked[c], list, GetRetries(list) - tries[c])
              /\ invoked[c] = list \/ Cardinality(invoked[c]) >= 4
          BY <1>1, <4>1, <4>2 DEF PickInv, FailoverInv, Selection
        <4>4. GetRetries(list) - tries[c] \in Nat  BY <2>0, <4>3, SMT
        <4>5. Enough(invoked[c], list, (GetRetries(list) - tries[c]) + 1)
          BY <2>0, <4>3, <4>4, EnoughNobody
        <4> QED BY <1>1, <1>4, <2>0, <3>1, <4>1, <4>3, <4>5, AttemptReach
      <3>2. CASE strategy # "failover"
        <4>1. UNCHANGED <<at, invokers, tries, res, invoked>> /\ strategy \notin {"forking", "zoneaware"}
          BY <2>2, <3>2 DEF SelectedNone
        <4> QED BY <1>1, <2>0, <3>2, <4>1 DEF StillInv, confVars, envVars
      <3> QED BY <3>1, <3>2
    <2>3. CASE SelectedFork(c)
      <3> DEFINE n == Forks - tries[c]
      <3>1. /\ strategy = "forking" /\ UNCHANGED <<invokers, res>>
            /\ invoked'[c] = invoked[c] \cup ({ivk[c]} \ {None})
            /\ at'[c] = IF tries[c] = 1 THEN "poll" ELSE "sticky"
            /\ tries'[c] = tries[c] - 1
        BY <2>0, <2>3 DEF SelectedFork, Goto
      <3>2. /\ invoked[c] \in SUBSET list /\ tries[c] <= Forks /\ Enough(invoked[c], list, n)
            /\ ivk[c] = None => invoked[c] = list \/ Cardinality(invoked[c]) >= 4
            /\ ivk[c] # None => /\ ivk[c] \in list
                                /\ ivk[c] \notin invoked[c] \/ list = {ivk[c]}
            /\ tries[c] > 0
        BY <1>1, <2>0, <3>1 DEF StillInv, PickInv, ForkingInv, CallInv, Fresh, Selection
      <3>3. n \in Nat  BY <2>0, <3>2, SMT
      <3>4. invoked'[c] \subseteq list /\ Enough(invoked'[c], list, n + 1)
        <4> HIDE DEF n
        <4>1. CASE ivk[c] = None
          <5>1. invoked'[c] = invoked[c]  BY <3>1, <4>1
          <5> QED BY <2>0, <3>2, <3>3, <4>1, <5>1, EnoughNobody
        <4>2. CASE ivk[c] # None
          <5>1. invoked'[c] = invoked[c] \cup {ivk[c]}  BY <3>1, <4>2
          <5> QED BY <2>0, <3>2, <3>3, <4>2, <5>1, EnoughFresh
        <4> QED BY <4>1, <4>2
      <3>5. /\ tries'[c] <= Forks /\ n + 1 = Forks - tries'[c]
            /\ tries[c] = 1 => n + 1 = Forks
        BY <2>0, <3>1, <3>2, SMT
      <3>6. PickInv(c)'  BY <1>1, <3>1, <3>4 DEF PickInv, envVars
      <3>7. ForkingInv(c)'
        <4>1. Enough(invoked'[c], list, Forks - tries'[c])  BY <3>4, <3>5
        <4>2. tries[c] = 1 => Enough(invoked'[c], list, Forks)  BY <3>4, <3>5
        <4>3. list' = list  BY <1>1 DEF envVars
        <4>4. CASE tries[c] = 1
          BY <3>1, <4>2, <4>3, <4>4 DEF ForkingInv, Selection
        <4>5. CASE tries[c] # 1
          BY <3>1, <3>5, <4>1, <4>3, <4>5 DEF ForkingInv, Selection
        <4> QED BY <4>4, <4>5
      <3> QED BY <1>1, <2>0, <3>1, <3>6, <3>7 DEF StillInv, confVars, envVars
    <2> QED BY <2>1, <2>2, <2>3
  <1> QED BY <1>1, <1>3, <1>4, ReachFrame

\* The invoker answers: it was somebody fresh.
LEMMA AnswerReach ==
  ASSUME ClusterInv, ReachInv, NEW c \in Calls,
         InvokeOK(c) \/ InvokeFails(c) \/ FailbackFails(c)
  PROVE  ReachInv'
PROOF
  <1>1. /\ UNCHANGED <<confVars, envVars, Destroyed, cand, ivk>>
        /\ OthersUnchanged(c) /\ at[c] = "invoke"
        /\ \A d \in Calls \ {c} : res'[d] = res[d]
        /\ invoked' = [invoked EXCEPT ![c] = @ \cup {ivk[c]}]
    BY DEF ClusterInv, TypeOK, CallTypeOK, OthersUnchanged, InvokeOK, InvokeFails,
           FailbackFails, NextAttempt, Goto, Return
  <1>2. at'[c] \notin {"loop", "poll"}
    BY <1>1 DEF ClusterInv, TypeOK, CallTypeOK, InvokeOK, InvokeFails, FailbackFails,
       NextAttempt, Goto, Return
  <1>3. PlaceInv(c)'
    BY <1>1, <1>2 DEF ReachInv, PlaceInv, confVars
  <1>4. ASSUME Still PROVE StillInv(c)'
    <2>0. /\ StillInv(c) /\ CallInv(c) /\ invokers[c] = list /\ list \in SUBSET Ivks
          /\ tries[c] \in Nat /\ GetRetries(list) \in Nat /\ ~sticky
          /\ at = [d \in Calls |-> at[d]] /\ invoked = [d \in Calls |-> invoked[d]]
          /\ res = [d \in Calls |-> res[d]]
      BY <1>1, <1>4, RetriesType
      DEF ReachInv, StillInv, ClusterInv, TypeOK, CallTypeOK, Still
    <2>1. /\ invoked'[c] = invoked[c] \cup {ivk[c]} /\ ivk[c] \in list
          /\ ivk[c] \notin invoked[c] \/ list = {ivk[c]}
          /\ strategy # "forking"
      BY <1>1, <2>0 DEF CallInv, Fresh
    <2>2. CASE strategy = "failover"
      <3>1. /\ invoked[c] \in SUBSET list /\ tries[c] <= GetRetries(list)
            /\ Enough(invoked[c], list, GetRetries(list) - tries[c])
        BY <1>1, <2>0, <2>2 DEF StillInv, PickInv, FailoverInv
      <3>2. GetRetries(list) - tries[c] \in Nat  BY <2>0, <3>1, SMT
      <3>3. /\ invoked'[c] \subseteq list
            /\ Enough(invoked'[c], list, (GetRetries(list) - tries[c]) + 1)
        BY <2>0, <2>1, <3>1, <3>2, EnoughFresh
      <3>4. CASE InvokeOK(c)
        <4>1. at'[c] = "done" /\ res'[c] = "ok" /\ invokers' = invokers
          BY <2>0, <3>4 DEF InvokeOK, Return
        <4> QED
          BY <1>1, <2>0, <2>2, <3>3, <4>1 DEF StillInv, PickInv, FailoverInv, Selection,
             confVars, envVars
      <3>5. CASE InvokeFails(c)
        <4>1. NextAttempt(c)  BY <2>2, <3>5 DEF InvokeFails
        <4> QED BY <1>1, <1>4, <2>0, <2>2, <3>1, <3>3, <4>1, AttemptReach
      <3>6. ~FailbackFails(c)  BY <2>2 DEF FailbackFails
      <3> QED BY <3>4, <3>5, <3>6
    <2>3. CASE strategy # "failover"
      <3>1. /\ invokers' = invokers
            /\ strategy = "zoneaware" => at'[c] = "done"
        BY <2>0, <2>3 DEF InvokeOK, InvokeFails, FailbackFails, Return
      <3> QED
        BY <1>1, <2>0, <2>1, <2>3, <3>1 DEF StillInv, ZoneawareInv, confVars, envVars
    <2> QED BY <2>2, <2>3
  <1> QED BY <1>1, <1>3, <1>4, ReachFrame

\* The loops of available and broadcast; zoneaware never comes to its last one.
LEMMA LoopReach ==
  ASSUME ClusterInv, ReachInv, NEW c \in Calls,
         LoopEnds(c) \/ \E i \in Ivks : LoopAvailable(c, i) \/ Broadcast(c, i)
  PROVE  ReachInv'
PROOF
  <1>1. /\ UNCHANGED <<confVars, envVars, Destroyed, invokers>>
        /\ OthersUnchanged(c) /\ at[c] = "loop"
        /\ \A d \in Calls \ {c} : res'[d] = res[d]
    BY DEF ClusterInv, TypeOK, CallTypeOK, OthersUnchanged, LoopEnds, LoopAvailable, Broadcast,
           Goto, Return
  <1>0. /\ at = [d \in Calls |-> at[d]] /\ invoked = [d \in Calls |-> invoked[d]]
        /\ cand = [d \in Calls |-> cand[d]] /\ res = [d \in Calls |-> res[d]]
        /\ PlaceInv(c) /\ CallInv(c)
    BY DEF ClusterInv, ReachInv, TypeOK, CallTypeOK
  <1>2. CASE strategy = "broadcast"
    <2>1. invoked[c] \cup cand[c] = invokers[c]  BY <1>0, <1>1, <1>2 DEF PlaceInv
    <2>2. ASSUME LoopEnds(c) PROVE PlaceInv(c)'
      <3>1. at'[c] = "done" /\ invoked' = invoked /\ cand[c] = {}
        BY <1>0, <2>2 DEF LoopEnds, Return
      <3> QED BY <1>1, <1>2, <2>1, <3>1 DEF PlaceInv, confVars
    <2>3. ASSUME NEW i \in Ivks, Broadcast(c, i) PROVE PlaceInv(c)'
      <3>1. /\ at'[c] = "loop" /\ i \in cand[c] /\ cand'[c] = cand[c] \ {i}
            /\ invoked'[c] = invoked[c] \cup {i}
        BY <1>0, <1>1, <2>3 DEF Broadcast
      <3> QED BY <1>1, <1>2, <2>1, <3>1 DEF PlaceInv, confVars
    <2>4. PlaceInv(c)'
      BY <1>2, <2>2, <2>3 DEF LoopAvailable
    <2>5. Still => StillInv(c)'
      BY <1>1, <1>2 DEF ReachInv, StillInv, confVars, envVars
    <2> QED BY <1>1, <2>4, <2>5, ReachFrame
  <1>3. CASE strategy \in {"available", "zoneaware"}
    <2>1. at'[c] \in {"loop", "invoke", "done"}
      BY <1>0, <1>1, <1>3 DEF LoopEnds, LoopAvailable, Broadcast, Goto, Return
    <2>2. PlaceInv(c)'  BY <1>1, <1>3, <2>1 DEF PlaceInv, confVars
    <2>3. Still => StillInv(c)'
      BY <1>1, <1>3 DEF ReachInv, StillInv, ZoneawareInv, confVars, envVars
    <2> QED BY <1>1, <2>2, <2>3, ReachFrame
  <1> QED BY <1>0, <1>1, <1>2, <1>3 DEF PlaceInv

\* The loops of zoneaware drop nobody they look for.
LEMMA ZoneReach ==
  ASSUME ClusterInv, ReachInv, NEW c \in Calls,
         PreferredEnds(c) \/ ZoneEnds(c) \/ SelectedZone(c) \/ \E i \in Ivks : LoopZone(c, i)
  PROVE  ReachInv'
PROOF
  <1>1. /\ UNCHANGED <<confVars, envVars, Destroyed, invokers, invoked, tries>>
        /\ OthersUnchanged(c) /\ at[c] # "idle"
        /\ \A d \in Calls \ {c} : res'[d] = res[d]
    BY DEF ClusterInv, TypeOK, CallTypeOK, OthersUnchanged, PreferredEnds, ZoneEnds,
           SelectedZone, LoopZone, ZoneLoops, Goto, Return
  <1>0. /\ at = [d \in Calls |-> at[d]] /\ ivk = [d \in Calls |-> ivk[d]]
        /\ cand = [d \in Calls |-> cand[d]] /\ res = [d \in Calls |-> res[d]]
        /\ CallInv(c) /\ list \in SUBSET Ivks /\ ivk[c] \in Ivks \cup {None}
    BY DEF ClusterInv, TypeOK, CallTypeOK
  <1>2. strategy = "zoneaware"
    BY <1>0 DEF CallInv, PreferredEnds, ZoneEnds, SelectedZone, LoopZone, ZoneLoops
  <1>3. at'[c] # "poll"
    BY <1>0 DEF PreferredEnds, ZoneEnds, SelectedZone, LoopZone, ZoneLoops, Goto, Return
  <1>4. PlaceInv(c)'  BY <1>1, <1>2, <1>3 DEF PlaceInv, confVars
  <1>5. ASSUME Still PROVE StillInv(c)'
    <2>0. ZoneawareInv(c) /\ invokers[c] = list /\ \A i \in Ivks : available[i]
      BY <1>1, <1>2, <1>5 DEF ReachInv, StillInv
    <2>1. list' = list /\ strategy' = "zoneaware" /\ invokers'[c] = list
      BY <1>1, <1>2, <2>0 DEF confVars, envVars
    <2>2. CASE PreferredEnds(c)
      <3>1. /\ at[c] = "preferred" /\ cand[c] = {} /\ cand'[c] = list
            /\ at'[c] \in {"zone", "zoneForced", "sticky"}
        BY <1>0, <2>0, <2>2 DEF PreferredEnds, Goto
      <3>2. ZoneawareInv(c)'  BY <2>0, <2>1, <3>1 DEF ZoneawareInv
      <3> QED BY <2>1, <3>2 DEF StillInv
    <2>3. CASE ZoneEnds(c)
      <3>1. /\ at[c] \in {"zone", "zoneForced"} /\ cand[c] = {}
            /\ at'[c] \in {"done", "sticky"}
        BY <1>0, <2>3 DEF ZoneEnds, Goto, Return
      <3>2. list \cap (Preferred \cup InZone) = {}  BY <2>0, <3>1 DEF ZoneawareInv
      <3>3. ZoneawareInv(c)'  BY <2>1, <3>1, <3>2 DEF ZoneawareInv
      <3> QED BY <2>1, <3>3 DEF StillInv
    <2>4. CASE SelectedZone(c)
      <3>1. ivk[c] # None /\ available[ivk[c]]
        BY <1>0, <2>0, <2>4 DEF ZoneawareInv, SelectedZone
      <3>2. at'[c] = "invoke"  BY <1>0, <2>4, <3>1 DEF SelectedZone, Goto
      <3>3. ZoneawareInv(c)'  BY <2>1, <3>2 DEF ZoneawareInv
      <3> QED BY <2>1, <3>3 DEF StillInv
    <2>5. ASSUME NEW i \in Ivks, LoopZone(c, i) PROVE StillInv(c)'
      <3>1. at[c] \in ZoneLoops  BY <2>5 DEF LoopZone
      <3>2. CASE Matches(c, i)
        <4>1. at'[c] = "invoke"  BY <1>0, <2>0, <2>5, <3>2 DEF LoopZone, Goto
        <4>2. ZoneawareInv(c)'  BY <2>1, <4>1 DEF ZoneawareInv
        <4> QED BY <2>1, <4>2 DEF StillInv
      <3>3. CASE ~Matches(c, i)
        <4>1. at' = at /\ cand'[c] = cand[c] \ {i}
          BY <1>0, <2>5, <3>3 DEF LoopZone
        <4>2. IF at[c] = "preferred" THEN i \notin Preferred ELSE i \notin InZone
          BY <3>3 DEF Matches
        <4>3. ZoneawareInv(c)'
          BY <2>0, <2>1, <3>1, <4>1, <4>2 DEF ZoneawareInv, ZoneLoops
        <4> QED BY <2>1, <4>3 DEF StillInv
      <3> QED BY <3>2, <3>3
    <2> QED BY <2>2, <2>3, <2>4, <2>5
  <1> QED BY <1>1, <1>4, <1>5, ReachFrame

\* The wait of forking.
LEMMA PollReach ==
  ASSUME ClusterInv, ReachInv, NEW c \in Calls,
         PollTimeout(c) \/ \E i \in Ivks : PollAnswer(c, i)
  PROVE  ReachInv'
PROOF
  <1>1. /\ UNCHANGED <<confVars, envVars, Destroyed, invokers, cand, invoked, tries, ivk>>
        /\ OthersUnchanged(c) /\ at[c] = "poll" /\ at'[c] = "done"
        /\ \A d \in Calls \ {c} : res'[d] = res[d]
    BY DEF ClusterInv, TypeOK, CallTypeOK, OthersUnchanged, PollTimeout, PollAnswer, Return
  <1>2. strategy = "forking"  BY <1>1 DEF ReachInv, PlaceInv
  <1>3. PlaceInv(c)'  BY <1>1, <1>2 DEF PlaceInv, confVars
  <1>4. Still => StillInv(c)'
    BY <1>1, <1>2 DEF ReachInv, StillInv, PickInv, ForkingInv, Selection, confVars, envVars
  <1> QED BY <1>1, <1>3, <1>4, ReachFrame

\* The tasks of failback.
LEMMA TaskReach ==
  ASSUME ClusterInv, ReachInv,
         Tick \/ \E c \in Calls : RecordCheck(c) \/ RecordPut(c) \/ CheckRetry(c)
  PROVE  ReachInv'
PROOF
  <1>1. PICK c \in Calls :
          \/ RecordCheck(c) \/ RecordPut(c) \/ CheckRetry(c)
          \/ Tick /\ c = Head(taskList) /\ at[c] = "queued"
    <2>1. ASSUME Tick PROVE \E c \in Calls : c = Head(taskList) /\ at[c] = "queued"
      <3>1. taskList \in Seq(Calls) /\ taskList # <<>>  BY <2>1 DEF Tick, ClusterInv, TypeOK
      <3>2. 1 \in 1..Len(taskList) /\ Head(taskList) = taskList[1] /\ Head(taskList) \in Calls
        BY <3>1
      <3> QED BY <3>2 DEF ClusterInv, TasksOnce
    <2> QED BY <2>1
  <1>2. /\ UNCHANGED <<confVars, envVars, Destroyed, invokers>>
        /\ at[c] \in {"record", "put", "queued", "retried"}
    BY <1>1 DEF Tick, RecordCheck, RecordPut, CheckRetry
  <1>3. OthersUnchanged(c) /\ \A d \in Calls \ {c} : res'[d] = res[d]
    BY <1>1 DEF ClusterInv, TypeOK, CallTypeOK, OthersUnchanged, Tick, RecordCheck, RecordPut,
       CheckRetry, Put, Goto, Return
  <1>4. at'[c] \notin {"loop", "poll"}
    BY <1>1 DEF ClusterInv, TypeOK, CallTypeOK, Tick, RecordCheck, RecordPut, CheckRetry, Put,
       Goto, Return
  <1>5. strategy = "failback"  BY <1>2 DEF ClusterInv, CallInv
  <1>6. PlaceInv(c)'  BY <1>2, <1>4, <1>5 DEF PlaceInv, confVars
  <1>7. Still => StillInv(c)'
    BY <1>2, <1>5 DEF ReachInv, StillInv, confVars, envVars
  <1> QED BY <1>2, <1>3, <1>6, <1>7, ReachFrame

\* Every step preserves the invariant.
LEMMA ReachStep == ClusterInv /\ ReachInv /\ [Next]_vars => ReachInv'
PROOF
  <1> SUFFICES ASSUME ClusterInv, ReachInv, [Next]_vars PROVE ReachInv'  OBVIOUS
  <1>1. CASE UNCHANGED vars
    BY <1>1 DEF ReachInv, PlaceInv, Still, StillInv, PickInv, FailoverInv, ForkingInv,
       ZoneawareInv, vars
  <1>2. CASE ListChanges \/ (\E i \in Ivks : AvailabilityChanges(i)) \/ Destroy
    BY <1>2, EnvReach
  <1>3. CASE Tick  BY <1>3, TaskReach
  <1>4. CASE \E c \in Calls : Invoke(c)  BY <1>4, InvokeReach
  <1>5. ASSUME NEW c \in Calls, CallStep(c) PROVE ReachInv'
    <2>1. CASE StickySteps(c)
      BY <2>1, StickyReach
    <2>2. CASE ReselectFails(c)  BY <2>2, SelectReach
    <2>3. CASE SelectedFork(c) \/ SelectedOne(c) \/ SelectedNone(c)  BY <2>3, SelectedReach
    <2>4. CASE InvokeOK(c) \/ InvokeFails(c) \/ FailbackFails(c)  BY <2>4, AnswerReach
    <2>5. CASE LoopEnds(c) \/ PollTimeout(c)  BY <2>5, LoopReach, PollReach
    <2>6. CASE PreferredEnds(c) \/ ZoneEnds(c) \/ SelectedZone(c)  BY <2>6, ZoneReach
    <2>7. CASE RecordCheck(c) \/ RecordPut(c) \/ CheckRetry(c)  BY <2>7, TaskReach
    <2>8. ASSUME NEW i \in Ivks,
                 SelectFirst(c, i) \/ Reselect(c, i) \/ LoopAvailable(c, i) \/ Broadcast(c, i)
                   \/ PollAnswer(c, i) \/ LoopZone(c, i)
          PROVE  ReachInv'
      BY <2>8, SelectReach, LoopReach, PollReach, ZoneReach
    <2> QED BY <1>5, <2>1, <2>2, <2>3, <2>4, <2>5, <2>6, <2>7, <2>8 DEF CallStep
  <1> QED BY <1>1, <1>2, <1>3, <1>4, <1>5 DEF Next

\* A call gives up only after it has called enough: while nothing changes failover
\* has tried, and forking has asked, as many different invokers as their parameters
\* say, all of the list, or at least the four that one selection may refuse;
\* zoneaware passes over nobody preferred or in the zone; and a broadcast never
\* answers before everyone was called.
THEOREM EnoughAreReached == Spec => []ReachesEnough
PROOF
  <1>1. Init => ReachInv  BY ReachInit
  <1>2. ClusterInv /\ ReachInv /\ [Next]_vars => ReachInv'  BY ReachStep
  <1>3. ReachInv => ReachesEnough
    BY DEF ReachInv, Still, PlaceInv, StillInv, FailoverInv, ForkingInv, ZoneawareInv,
           ReachesEnough
  <1> QED BY <1>1, <1>2, <1>3, ClusterInvariance, PTL DEF Spec
=============================================================================
