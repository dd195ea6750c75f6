----------------------------- MODULE Deployment -----------------------------
(***************************************************************************)
(* One database and what a deployment runs against it: the bootstrap of the *)
(* login roles, the migration runners of several releases, the API, and    *)
(* the workers with their loop and their heartbeat row.                    *)
(*                                                                         *)
(* A release is the sequence of digests of its migrations.  Time is the    *)
(* age of heartbeat rows, in heartbeat intervals of ten seconds.           *)
(***************************************************************************)
EXTENDS Nothing, Naturals, Sequences, FiniteSets

CONSTANTS
  Migrators, Servers, Workers,  \* Processes, each started at most once.
  PlanOf,                       \* The migrations of each process's release.
  StaleAfter,                   \* WORKER_STALE_AFTER_SECONDS, in intervals.
  KeepFor                       \* The seven days a dead row is kept, in intervals.

Plans == {PlanOf[p] : p \in Migrators \cup Servers \cup Workers}

Histories == Seq(UNION {{q[n] : n \in 1 .. Len(q)} : q \in Plans})

ASSUME DeploymentAssumption ==
  /\ Plans \subseteq Histories \ {<<>>}
  /\ None \notin Migrators
  /\ {StaleAfter, KeepFor} \subseteq Nat /\ StaleAfter < KeepFor

VARIABLES
  roles,     \* The login roles exist.
  schema,    \* [tables, applied]: which of the two tables exist, and the digests.
  lock,      \* The runner that holds the advisory lock.
  migrator,  \* [at, work]: its step and the history inside its transaction.
  server,    \* "down", "verified", "listening" or "closed".
  worker,    \* [at, stop, failed, heart, late, dead]: see DeploymentTypeOK.
  row        \* A worker's heartbeat row, [age, stopped], or None.

deploymentVars == <<roles, schema, lock, migrator, server, worker, row>>

Idle == [at |-> "down", stop |-> FALSE, failed |-> FALSE, heart |-> "off", late |-> 0, dead |-> 0]

\* A worker of an earlier day, killed, whose row is there.
LongDead == [Idle EXCEPT !.at = "ended", !.failed = TRUE, !.dead = StaleAfter + 1]

DeploymentInit ==
  /\ roles = FALSE
  /\ \/ schema = [tables |-> "none", applied |-> <<>>]
     \/ \E q \in Plans : schema = [tables |-> "no ledger", applied |-> SubSeq(q, 1, 1)]
     \/ \E q \in Plans : schema = [tables |-> "both", applied |-> q]
  /\ lock = None
  /\ migrator = [m \in Migrators |-> [at |-> "down", work |-> <<>>]]
  /\ server = [s \in Servers |-> "down"]
  /\ \E ended \in SUBSET Workers :
       /\ worker = [w \in Workers |-> IF w \in ended THEN LongDead ELSE Idle]
       /\ row = [w \in Workers |-> IF w \in ended THEN [age |-> KeepFor, stopped |-> FALSE] ELSE None]

(***************************************************************************)
(* What a process reads before it connects; refused, it ends.              *)
(***************************************************************************)

\* Every secret comes from one place, the variable or its file.
SecretsResolve == BOOLEAN

\* The API's quotas, port and identity; the worker's endpoints, caps and limits.
ApiSettingsParse == BOOLEAN
WorkerSettingsParse == BOOLEAN

\* Bundle, report and registry of consumers, canonical and of one replayable run.
ReplayEvidenceLoads == BOOLEAN

(***************************************************************************)
(* Roles and migrations.                                                   *)
(***************************************************************************)

\* The bootstrap is one transaction that creates or alters every role.
BootstrapRoles ==
  /\ ~roles
  /\ roles' = TRUE
  /\ UNCHANGED <<schema, lock, migrator, server, worker, row>>

\* A migrator connects and waits for the lock, at most the statement timeout.
MigratorStarts(m) ==
  /\ migrator[m].at = "down" /\ roles
  /\ migrator' = [migrator EXCEPT ![m].at = "waiting"]
  /\ UNCHANGED <<roles, schema, lock, server, worker, row>>

\* Fault: the runner goes ahead without the advisory lock.
MayLockAlways(m) == TRUE

MayLock(m) == lock = None

\* Fault: only the number of the versions is compared.
AgreesInLength(h, plan) == Len(h) <= Len(plan)

Agrees(h, plan) == Len(h) <= Len(plan) /\ h = SubSeq(plan, 1, Len(h))

\* verifyMigrationHistory: "refused" stands for its four error codes.
HistoryKind(s, plan) ==
  IF s.tables = "none" THEN "fresh"
  ELSE IF s.tables = "no ledger" \/ s.applied = <<>> \/ ~Agrees(s.applied, plan) THEN "refused"
  ELSE IF Len(s.applied) = Len(plan) THEN "current"
  ELSE "pending"

\* The lock is taken, the history read and verified.  A current database only
\* gets its grants, another one a transaction.
MigratorLocks(m) ==
  /\ migrator[m].at = "waiting" /\ MayLock(m)
  /\ LET kind == HistoryKind(schema, PlanOf[m]) IN
       /\ migrator' = [migrator EXCEPT
            ![m] = [at |-> CASE kind = "refused" -> "refused" [] kind = "current" -> "done"
                             [] OTHER -> "applying",
                    work |-> IF kind \in {"fresh", "pending"} THEN schema.applied ELSE <<>>]]
       /\ lock' = IF kind \in {"fresh", "pending"} THEN m ELSE lock
  /\ UNCHANGED <<roles, schema, server, worker, row>>

\* Fault: every migration is committed when it is applied.
VisibleAtOnce(m, work) == [tables |-> "both", applied |-> work]

\* What an applied version leaves behind before the transaction ends: nothing
\* another session sees.
Visible(m, work) == schema

\* The next pending migration runs; its objects must not be there yet.
ApplyMigration(m) ==
  /\ migrator[m].at = "applying" /\ Len(migrator[m].work) < Len(PlanOf[m])
  /\ LET n == Len(migrator[m].work) + 1
         work == Append(migrator[m].work, PlanOf[m][n]) IN
       IF n <= Len(schema.applied)
       THEN /\ migrator' = [migrator EXCEPT ![m].at = "conflict"]
            /\ lock' = IF lock = m THEN None ELSE lock
            /\ UNCHANGED schema
       ELSE /\ migrator' = [migrator EXCEPT ![m].work = work]
            /\ schema' = Visible(m, work)
            /\ UNCHANGED lock
  /\ UNCHANGED <<roles, server, worker, row>>

\* Ledger and grants are written, the target verified, the transaction committed.
MigratorCommits(m) ==
  /\ migrator[m].at = "applying" /\ Len(migrator[m].work) = Len(PlanOf[m])
  /\ Agrees(migrator[m].work, PlanOf[m])
  /\ IF Len(schema.applied) < Len(PlanOf[m]) \/ schema.applied = migrator[m].work
     THEN /\ schema' = [tables |-> "both", applied |-> migrator[m].work]
          /\ \E at \in {"done", "failed"} : migrator' = [migrator EXCEPT ![m].at = at]
     ELSE /\ migrator' = [migrator EXCEPT ![m].at = "conflict"]
          /\ UNCHANGED schema
  /\ lock' = IF lock = m THEN None ELSE lock
  /\ UNCHANGED <<roles, server, worker, row>>

\* The wait times out, a statement fails or the process dies: the transaction is
\* rolled back, the lock released with the session.
MigratorFails(m) ==
  /\ migrator[m].at \in {"waiting", "applying"}
  /\ migrator' = [migrator EXCEPT ![m].at = "failed"]
  /\ lock' = IF lock = m THEN None ELSE lock
  /\ UNCHANGED <<roles, schema, server, worker, row>>

(***************************************************************************)
(* The API.                                                                *)
(***************************************************************************)

\* The exact ledger of the release, no version less and none more.
IsExact(p) == schema = [tables |-> "both", applied |-> PlanOf[p]]

ServerStarts(s) ==
  /\ server[s] = "down" /\ roles
  /\ \E secrets \in SecretsResolve, settings \in ApiSettingsParse :
       server' = [server EXCEPT
         ![s] = IF secrets /\ settings /\ IsExact(s) THEN "verified" ELSE "closed"]
  /\ UNCHANGED <<roles, schema, lock, migrator, worker, row>>

\* The recording is loaded, or found to be unavailable, and the port opened.
ServerListens(s) ==
  /\ server[s] = "verified"
  /\ server' = [server EXCEPT ![s] = "listening"]
  /\ UNCHANGED <<roles, schema, lock, migrator, worker, row>>

\* Fault: stopped rows are counted.
CountedStopped(w) == row[w] # None

Counted(w) == row[w] # None /\ ~row[w].stopped

\* The newest row of the release that is not stopped decides.
WorkerState(s) ==
  LET rows == {w \in Workers : PlanOf[w] = PlanOf[s] /\ Counted(w)} IN
  IF rows = {} THEN "missing"
  ELSE IF \E w \in rows : row[w].age <= StaleAfter THEN "ready"
  ELSE "stale"

Readiness(s) ==
  [schema |-> IF IsExact(s) THEN "ready" ELSE "mismatch",
   worker |-> IF IsExact(s) THEN WorkerState(s) ELSE "unavailable",
   status |-> IF IsExact(s) /\ WorkerState(s) = "ready" THEN "ready" ELSE "not-ready"]

(***************************************************************************)
(* The workers.                                                            *)
(***************************************************************************)

Running(w) == worker[w].at \in {"top", "busy", "sleeping"}

WorkerStarts(w) ==
  /\ worker[w].at = "down" /\ roles
  /\ \E secrets \in SecretsResolve, settings \in WorkerSettingsParse,
        evidence \in ReplayEvidenceLoads :
       worker' = [worker EXCEPT
         ![w].at = IF secrets /\ settings /\ evidence /\ IsExact(w) THEN "verified" ELSE "ended"]
  /\ UNCHANGED <<roles, schema, lock, migrator, server, row>>

\* The row is inserted, the loop begins and its timer runs.
HeartbeatStarts(w) ==
  /\ worker[w].at = "verified"
  /\ worker' = [worker EXCEPT ![w].at = "top", ![w].heart = "timer"]
  /\ row' = [row EXCEPT ![w] = [age |-> 0, stopped |-> FALSE]]
  /\ UNCHANGED <<roles, schema, lock, migrator, server>>

StopSignal(w) ==
  /\ Running(w) /\ ~worker[w].stop
  /\ worker' = [worker EXCEPT ![w].stop = TRUE]
  /\ UNCHANGED <<roles, schema, lock, migrator, server, row>>

TimerFires(w) ==
  /\ Running(w) /\ worker[w].heart = "timer"
  /\ worker' = [worker EXCEPT ![w].heart = "refreshing"]
  /\ UNCHANGED <<roles, schema, lock, migrator, server, row>>

Expired(w, o) == o # w /\ row[o] # None /\ row[o].age > KeepFor

\* The refresh commits: its own row is new, the rows of the long dead go.  A
\* commit whose answer is lost counts as a failure.
Refreshes(w) ==
  /\ worker[w].heart = "refreshing" /\ Counted(w)
  /\ row' = [o \in Workers |->
       IF o = w THEN [row[w] EXCEPT !.age = 0] ELSE IF Expired(w, o) THEN None ELSE row[o]]
  /\ \E lost \in BOOLEAN :
       worker' = [worker EXCEPT ![w].failed = lost,
                    ![w].heart = IF lost \/ worker[w].at = "closing" THEN "off" ELSE "timer"]
  /\ UNCHANGED <<roles, schema, lock, migrator, server>>

\* The database refuses, or the row is gone: the failure is recorded.
RefreshFails(w) ==
  /\ worker[w].heart = "refreshing"
  /\ worker' = [worker EXCEPT ![w].failed = TRUE, ![w].heart = "off"]
  /\ UNCHANGED <<roles, schema, lock, migrator, server, row>>

\* Fault: it is only looked at while a command is processed.
MayTakeBlindly(w) == TRUE

\* The failure is looked at before a command is taken.
MayTake(w) == ~worker[w].failed

Take(w) ==
  /\ worker[w].at = "top" /\ ~worker[w].stop /\ MayTake(w)
  /\ worker' = [worker EXCEPT ![w].at = "busy",
                  ![w].late = IF worker[w].failed THEN 1 ELSE @]
  /\ UNCHANGED <<roles, schema, lock, migrator, server, row>>

\* The command in hand is always awaited: it ends, there was none, or it throws,
\* and with a failure recorded the loop leaves.
Processed(w) ==
  /\ worker[w].at = "busy"
  /\ \E result \in {"top", "sleeping", "closing"} :
       worker' = [worker EXCEPT
         ![w].at = IF worker[w].failed THEN "closing" ELSE result,
         ![w].failed = @ \/ result = "closing"]
  /\ UNCHANGED <<roles, schema, lock, migrator, server, row>>

Wakes(w) ==
  /\ worker[w].at = "sleeping"
  /\ worker' = [worker EXCEPT ![w].at = "top"]
  /\ UNCHANGED <<roles, schema, lock, migrator, server, row>>

LoopEnds(w) ==
  /\ worker[w].at = "top" /\ (worker[w].stop \/ worker[w].failed)
  /\ worker' = [worker EXCEPT ![w].at = "closing"]
  /\ UNCHANGED <<roles, schema, lock, migrator, server, row>>

\* The timer is cleared and a refresh under way awaited; after a stop without a
\* failure the row is marked, if the database takes it.
MarksStopped(w) == worker[w].stop /\ ~worker[w].failed

WorkerEnds(w) ==
  /\ worker[w].at = "closing" /\ worker[w].heart # "refreshing"
  /\ \E marks \in {MarksStopped(w), FALSE} :
       row' = [row EXCEPT ![w] = IF marks /\ Counted(w) THEN [@ EXCEPT !.stopped = TRUE] ELSE @]
  /\ worker' = [worker EXCEPT ![w].at = "ended", ![w].heart = "off"]
  /\ UNCHANGED <<roles, schema, lock, migrator, server>>

WorkerDies(w) ==
  /\ Running(w)
  /\ worker' = [worker EXCEPT ![w].at = "ended", ![w].heart = "off", ![w].failed = TRUE]
  /\ UNCHANGED <<roles, schema, lock, migrator, server, row>>

\* An interval passes: rows age, and so does the end of an ended worker.
IntervalPasses ==
  /\ \E w \in Workers : row[w] # None
  /\ row' = [w \in Workers |->
       IF row[w] = None THEN None
       ELSE [row[w] EXCEPT !.age = IF @ > KeepFor THEN @ ELSE @ + 1]]
  /\ worker' = [w \in Workers |->
       IF worker[w].at = "ended" /\ worker[w].dead <= StaleAfter
       THEN [worker[w] EXCEPT !.dead = @ + 1] ELSE worker[w]]
  /\ UNCHANGED <<roles, schema, lock, migrator, server>>

MigratorStep(m) ==
  MigratorStarts(m) \/ MigratorLocks(m) \/ ApplyMigration(m) \/ MigratorCommits(m) \/ MigratorFails(m)

WorkerStep(w) ==
  \/ HeartbeatStarts(w) \/ Refreshes(w) \/ RefreshFails(w) \/ Take(w) \/ Processed(w)
  \/ Wakes(w) \/ LoopEnds(w) \/ WorkerEnds(w)

DeploymentNext ==
  \/ BootstrapRoles \/ IntervalPasses
  \/ \E m \in Migrators : MigratorStep(m)
  \/ \E s \in Servers : ServerStarts(s) \/ ServerListens(s)
  \/ \E w \in Workers :
       WorkerStarts(w) \/ StopSignal(w) \/ TimerFires(w) \/ WorkerDies(w) \/ WorkerStep(w)

DeploymentSpec == DeploymentInit /\ [][DeploymentNext]_deploymentVars

(***************************************************************************)
(* What a deployment promises.                                             *)
(***************************************************************************)

\* Types of the deployment's state (deployment-heartbeat.ts, migration-runner.ts).
DeploymentTypeOK ==
  /\ roles \in BOOLEAN
  /\ schema.tables \in {"none", "no ledger", "both"} /\ schema.applied \in Histories
  /\ lock \in Migrators \cup {None}
  /\ \A m \in Migrators :
       /\ migrator[m].at \in {"down", "waiting", "applying", "done", "refused", "failed", "conflict"}
       /\ migrator[m].work \in Histories
  /\ \A s \in Servers : server[s] \in {"down", "verified", "listening", "closed"}
  /\ worker \in [Workers ->
       [at : {"down", "verified", "top", "busy", "sleeping", "closing", "ended"},
        stop : BOOLEAN, failed : BOOLEAN, heart : {"off", "timer", "refreshing"},
        late : 0 .. 1, dead : 0 .. StaleAfter + 1]]
  /\ \A w \in Workers :
       row[w] # None => row[w].age \in 0 .. KeepFor + 1 /\ row[w].stopped \in BOOLEAN

\* What other sessions see of the schema is the whole plan of one release, or what
\* was there: no part of a plan, no mixture of two (migration-runner.ts:376-391).
WholePlansOnly == schema.tables = "both" => schema.applied \in Plans

\* A runner whose release fits the database is never stopped by another runner's
\* work: it waits for it and finds the database current (migration-runner.ts:363).
RunnersTakeTurns == \A m \in Migrators : migrator[m].at # "conflict"

\* When an API says ready a worker of its release runs, or ended other than by a
\* clean stop, and less than the stale limit ago (deployment-readiness.ts:16-38).
ReadyMeansServed ==
  \A s \in Servers : server[s] = "listening" /\ Readiness(s).status = "ready" =>
    \E w \in Workers :
      /\ PlanOf[w] = PlanOf[s] /\ row[w] # None
      /\ worker[w].at = "ended" => worker[w].dead <= StaleAfter /\ ~row[w].stopped

\* No command is taken after a failed refresh was recorded (bootstrap.ts:210-222).
NoneTakenAfterFailure == \A w \in Workers : worker[w].late = 0

\* A row is marked stopped only when its worker ended by a signal and without a
\* failure: a marked row hides no worker (bootstrap.ts:307).
MarkedRowsAreEnded ==
  \A w \in Workers : row[w] # None /\ row[w].stopped =>
    worker[w].at = "ended" /\ worker[w].stop /\ ~worker[w].failed

\* Roles, migrations, readiness and workers together keep what the runbook of a
\* deployment counts on.
DeploymentPromise ==
  /\ WholePlansOnly /\ RunnersTakeTurns /\ ReadyMeansServed
  /\ NoneTakenAfterFailure /\ MarkedRowsAreEnded
=============================================================================
