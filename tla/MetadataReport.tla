---------------------------- MODULE MetadataReport ----------------------------
(***************************************************************************)
(* The delegate of the metadata reports (metadata/report/delegate): each   *)
(* definition is stored in the metadata center by a goroutine of its own,  *)
(* one whose goroutine panics is kept and retried by a scheduled job, and  *)
(* another job stores all of them again once a day.  The two maps are      *)
(* guarded by a read-write lock each, which a job holds for reading while  *)
(* it walks its map.  With sync.report a definition is stored by the       *)
(* caller first, and by a goroutine as well.                               *)
(***************************************************************************)
EXTENDS Integers

CONSTANTS
  Ids,          \* identifiers; every publication makes one
  RetryLimit,   \* retry.times
  NonFailTimes, \* retryTimesIfNonFail
  MaxErrors, MaxPanics, MaxDays

Jobs == {"retry", "cycle"}
Callers == {"go", "publisher"} \cup Jobs
\* Of storeMetadataTask: what it does next.
Stages == {"all", "drop", "store", "keep"}

VARIABLES
  sync,        \* syncReport
  published,
  all,         \* allMetadataReports
  failed,      \* failedReports
  stored,      \* what the metadata center has
  logged,      \* those whose store returned an error, which is logged
  tasks,       \* for each caller, identifier and stage, the tasks that are there
  job,         \* where each job is, and what it has yet to visit
  started, cleared, retryCounter, \* the scheduler of the retries
  errors, panics, days

dataVars == <<published, all, failed, stored, logged>>
jobVars == <<job, started, cleared, retryCounter, days>>
vars == <<sync, dataVars, tasks, jobVars, errors, panics>>

Init ==
  /\ sync \in BOOLEAN
  /\ published = {} /\ all = {} /\ failed = {} /\ stored = {} /\ logged = {}
  /\ tasks = [c \in Callers |-> [d \in Ids |-> [s \in Stages |-> 0]]]
  /\ job = [j \in Jobs |-> [at |-> "idle", left |-> {}]]
  /\ started = FALSE /\ cleared = FALSE /\ retryCounter = 0
  /\ errors = 0 /\ panics = 0 /\ days = 0

\* The job that holds the lock of its map for reading keeps writers out.
Free(j) == job[j].at # "loop"

\* A task has come from a stage to the next; a caller that is done with its own
\* starts a goroutine for the same definition.
Moved(c, d, s, t) == [tasks EXCEPT ![c][d][s] = @ - 1, ![c][d][t] = @ + 1]
Done(c, d, s) ==
  IF c = "go" THEN [tasks EXCEPT ![c][d][s] = @ - 1]
  ELSE [tasks EXCEPT ![c][d][s] = @ - 1, !["go"][d]["all"] = @ + 1]

\* StoreProviderMetadata and StoreConsumerMetadata.
Stores(c, d) ==
  tasks' = IF sync THEN [tasks EXCEPT ![c][d]["all"] = @ + 1]
                   ELSE [tasks EXCEPT !["go"][d]["all"] = @ + 1]

-----------------------------------------------------------------------------
Publish(d) ==
  /\ d \notin published /\ published' = published \cup {d}
  /\ Stores("publisher", d)
  /\ UNCHANGED <<sync, all, failed, stored, logged, jobVars, errors, panics>>

(* storeMetadataTask                                                       *)

PutAll(c, d) ==
  /\ tasks[c][d]["all"] > 0 /\ Free("cycle")
  /\ all' = all \cup {d} /\ tasks' = Moved(c, d, "all", "drop")
  /\ UNCHANGED <<sync, published, failed, stored, logged, jobVars, errors, panics>>

DropFailed(c, d) ==
  /\ tasks[c][d]["drop"] > 0 /\ Free("retry")
  /\ failed' = failed \ {d} /\ tasks' = Moved(c, d, "drop", "store")
  /\ UNCHANGED <<sync, published, all, stored, logged, jobVars, errors, panics>>

\* The metadata center takes the definition,
Store(c, d) ==
  /\ tasks[c][d]["store"] > 0
  /\ stored' = stored \cup {d} /\ tasks' = Done(c, d, "store")
  /\ UNCHANGED <<sync, published, all, failed, logged, jobVars, errors, panics>>

\* or returns an error, which is logged and no more,
StoreErrs(c, d) ==
  /\ tasks[c][d]["store"] > 0 /\ errors < MaxErrors /\ errors' = errors + 1
  /\ logged' = logged \cup {d} /\ tasks' = Done(c, d, "store")
  /\ UNCHANGED <<sync, published, all, failed, stored, jobVars, panics>>

\* or there is a panic: the definition cannot be marshalled, or there is no report.
StorePanics(c, d) ==
  /\ tasks[c][d]["store"] > 0 /\ panics < MaxPanics /\ panics' = panics + 1
  /\ tasks' = Moved(c, d, "store", "keep")
  /\ UNCHANGED <<sync, dataVars, jobVars, errors>>

\* A variant whose recovery keeps only the first failure.
KeepFirst(c, d) ==
  /\ tasks[c][d]["keep"] > 0 /\ Free("retry")
  /\ failed' = (IF started THEN failed ELSE failed \cup {d}) /\ started' = TRUE
  /\ tasks' = Done(c, d, "keep")
  /\ UNCHANGED <<sync, published, all, stored, logged, job, cleared, retryCounter, days,
                 errors, panics>>

\* A variant whose recovery does not start the retries.
KeepOnly(c, d) ==
  /\ tasks[c][d]["keep"] > 0 /\ Free("retry")
  /\ failed' = failed \cup {d} /\ tasks' = Done(c, d, "keep")
  /\ UNCHANGED <<sync, published, all, stored, logged, jobVars, errors, panics>>

\* The deferred function: the definition is kept, and the retries are started.
KeepFailed(c, d) ==
  /\ tasks[c][d]["keep"] > 0 /\ Free("retry")
  /\ failed' = failed \cup {d} /\ started' = TRUE
  /\ tasks' = Done(c, d, "keep")
  /\ UNCHANGED <<sync, published, all, stored, logged, job, cleared, retryCounter, days,
                 errors, panics>>

-----------------------------------------------------------------------------
(* The two jobs.                                                           *)

\* The retry is due: it is counted, and beyond the limit the scheduler is cleared.
RetryDue ==
  /\ started /\ ~cleared /\ job["retry"].at = "idle"
  /\ retryCounter' = retryCounter + 1
  /\ IF retryCounter' > RetryLimit
       THEN cleared' = TRUE /\ UNCHANGED job
       ELSE job' = [job EXCEPT !["retry"].at = "lock"] /\ UNCHANGED cleared
  /\ UNCHANGED <<sync, dataVars, tasks, started, days, errors, panics>>

\* Every day all definitions are due.
CycleDue ==
  /\ days < MaxDays /\ days' = days + 1 /\ job["cycle"].at = "idle"
  /\ job' = [job EXCEPT !["cycle"].at = "lock"]
  /\ UNCHANGED <<sync, dataVars, tasks, started, cleared, retryCounter, errors, panics>>

\* The map is locked for reading and walked; if there was nothing to retry, and not for
\* the first times, the scheduler is cleared.
Walks(j) ==
  LET map == IF j = "retry" THEN failed ELSE all IN
  /\ job[j].at = "lock"
  /\ job' = [job EXCEPT ![j] = IF map = {} THEN [at |-> "idle", left |-> {}]
                               ELSE [at |-> "loop", left |-> map]]
  /\ cleared' = (cleared \/ (j = "retry" /\ map = {} /\ retryCounter > NonFailTimes))
  /\ UNCHANGED <<sync, dataVars, tasks, started, retryCounter, days, errors, panics>>

\* The job itself is not storing a definition.
Returned(j) == \A d \in Ids, s \in Stages : tasks[j][d][s] = 0

Visits(j, d) ==
  /\ job[j].at = "loop" /\ d \in job[j].left /\ Returned(j)
  /\ job' = [job EXCEPT ![j].left = @ \ {d}] /\ Stores(j, d)
  /\ UNCHANGED <<sync, dataVars, started, cleared, retryCounter, days, errors, panics>>

Unlocks(j) ==
  /\ job[j].at = "loop" /\ job[j].left = {} /\ Returned(j)
  /\ job' = [job EXCEPT ![j].at = "idle"]
  /\ UNCHANGED <<sync, dataVars, tasks, started, cleared, retryCounter, days, errors, panics>>

Task ==
  \E c \in Callers, d \in Ids :
    \/ PutAll(c, d) \/ DropFailed(c, d) \/ KeepFailed(c, d)
    \/ Store(c, d) \/ StoreErrs(c, d) \/ StorePanics(c, d)
Walk == \E j \in Jobs : Walks(j) \/ Unlocks(j) \/ \E d \in Ids : Visits(j, d)

Next ==
  \/ \E d \in Ids : Publish(d)
  \/ Task \/ Walk \/ RetryDue \/ CycleDue

\* The goroutines run, and the scheduler runs its job again and again.
Fairness == WF_vars(Task) /\ WF_vars(Walk) /\ WF_vars(RetryDue)

Spec == Init /\ [][Next]_vars /\ Fairness

-----------------------------------------------------------------------------
(* Properties.                                                             *)

\* The values of the variables; and a definition that was published is stored, or its
\* error was logged, or it is among the failed ones, or a task is at it: between delete
\* and the deferred function no interleaving of two tasks of one definition loses it.
\* What a retry has visited is being stored again when the retry lets go of the lock.
NothingLost ==
  /\ failed \subseteq all /\ all \subseteq published
  /\ stored \cup logged \subseteq all
  /\ \A c \in Callers, d \in Ids, s \in Stages : tasks[c][d][s] \in Nat
  /\ \A d \in published :
       \/ d \in stored \cup logged \cup failed
       \/ \E c \in Callers, s \in Stages : tasks[c][d][s] > 0
  /\ job["retry"].at = "loop" =>
       \A d \in failed \ job["retry"].left :
         \E c \in Callers, s \in {"all", "drop"} : tasks[c][d][s] > 0

\* Without sync.report, a definition that was published is stored in the end, unless its
\* error was logged, or it has failed and the retries are used up.
Reported ==
  \A d \in Ids :
    (d \in published) ~> (sync \/ d \in stored \cup logged \/ (cleared /\ d \in failed))

\* A job that has locked its map comes to its end.  With sync.report it does not: the
\* job holds for reading the lock that storeMetadataTask, called by it, wants for writing.
JobsEnd == \A j \in Jobs : (job[j].at = "loop") ~> (job[j].at = "idle")
=============================================================================
