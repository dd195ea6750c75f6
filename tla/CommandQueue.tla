---------------------------- MODULE CommandQueue ----------------------------
(***************************************************************************)
(* The persisted command queue: the command rows of PostgreSQL, the run    *)
(* journals committed together with them, and the worker processes that    *)
(* claim, renew, complete and retry commands (apps/api/src/postgres.ts,    *)
(* createRunWorker in apps/worker/src/worker.ts).                          *)
(*                                                                         *)
(* What a handler does is left open here: it ends with any of the outcomes *)
(* the constants allow, or throws.  RunPipeline gives the handlers.        *)
(*                                                                         *)
(* Every repository call is one transaction, hence one action.  A claim    *)
(* token is a fresh UUID written with attempts + 1 in one statement, so    *)
(* the attempt number itself stands for the token; 0 is SQL NULL.  Clocks  *)
(* are abstracted to one bit per row, "elapsed": available_at (a queued    *)
(* row) or lease_expires_at (a leased row) is in the past.  Which of the   *)
(* claimable rows a claim picks (ORDER BY ... SKIP LOCKED) is left open.   *)
(***************************************************************************)
EXTENDS RunJournal, FiniteSets

CONSTANTS
  Workers,       \* worker processes
  Runs,          \* runs
  Commands,      \* command rows that may come to exist
  RunOf,         \* the run of a command
  StageOf,       \* the stage a failure of a command is charged to
  Auxiliary,     \* commands that never touch the journal (VERIFY_DEPLOYED_CONSUMER)
  Roots,         \* commands createRun inserts with the run (RUN_PREFLIGHT)
  ApiCommands,   \* commands the API may insert later
  Unhandled,     \* commands whose kind has no registered handler
  Outcomes,      \* what a handler may append: sequences of [type, info]
  MaxAttempts,   \* attempts after which a retryable failure is final
  ClaimBound     \* bound of the model: the attempt from which nothing goes wrong

ASSUME QueueAssumption ==
  /\ NoCommand \notin Commands
  /\ RunOf \in [Commands -> Runs]
  /\ StageOf \in [Commands -> {StageNames[k] : k \in 1..6}]
  /\ Auxiliary \subseteq Commands
  /\ Roots \subseteq Commands
  /\ ApiCommands \subseteq Commands
  /\ Unhandled \subseteq Commands
  /\ Outcomes \subseteq Seq([type : LifecycleTypes \ {"RUN_CREATED"}, info : Infos])
  /\ MaxAttempts \in Nat \ {0}
  /\ ClaimBound \in Nat

VARIABLES
  journal,   \* committed events of each run
  cmd,       \* the row of each command
  worker     \* the worker processes

queueVars == <<journal, cmd, worker>>

Status  == {"absent", "queued", "leased", "succeeded", "dead", "cancelled"}
Failure == {"retry", "wait", "terminal"}
Phase   == {"idle", "claimed", "leased", "running", "failing"}

CommandRow == [status : Status, attempts : Nat, token : Nat, elapsed : BOOLEAN]

\* lease_token is NULL exactly when the row is not leased.
RowOK(row) ==
  /\ row.token = IF row.status = "leased" THEN row.attempts ELSE 0
  /\ row.status = "absent" => row.attempts = 0

\* seen: length of the journal the handler loaded; failure: what it will report.
WorkerState == [pc : Phase, cmd : Commands \cup {NoCommand}, token : Nat,
                seen : Nat, failure : Failure \cup {"none"}]

\* Types of the state; a row has a lease token exactly while it is leased, that
\* of its latest claim (run_commands and the SET clauses of POSTGRES_QUERIES).
QueueTypeOK ==
  /\ journal \in [Runs -> Seq(Event(Commands))]
  /\ cmd \in [Commands -> CommandRow] /\ \A c \in Commands : RowOK(cmd[c])
  /\ worker \in [Workers -> WorkerState]

Absent == [status |-> "absent", attempts |-> 0, token |-> 0, elapsed |-> FALSE]
Fresh  == [status |-> "queued", attempts |-> 0, token |-> 0, elapsed |-> TRUE]

Idle == [pc |-> "idle", cmd |-> NoCommand, token |-> 0, seen |-> 0, failure |-> "none"]

QueueInit ==
  /\ journal = [r \in Runs |-> <<RunCreated>>]
  /\ cmd = [c \in Commands |-> IF c \in Roots THEN Fresh ELSE Absent]
  /\ worker = [w \in Workers |-> Idle]

---------------------------------------------------------------------------
(* Rows and leases.                                                        *)

Busy(w) == worker[w].pc # "idle"

JournalOf(c) == journal[RunOf[c]]

\* Fault: a lease that nobody gave back is never taken over.
ClaimableQueued(c) == cmd[c].status = "queued" /\ cmd[c].elapsed

\* A row the claim query selects.
Claimable(c) == cmd[c].status \in {"queued", "leased"} /\ cmd[c].elapsed

\* Fault: the lease is matched by its row alone.
LeaseLiveOfAnyone(w) ==
  /\ Busy(w)
  /\ cmd[worker[w].cmd].status = "leased" /\ ~cmd[worker[w].cmd].elapsed

\* The WHERE clause of completeCommand, retryCommand and renewLease.
LeaseLive(w) ==
  /\ Busy(w)
  /\ cmd[worker[w].cmd].status = "leased"
  /\ cmd[worker[w].cmd].token = worker[w].token
  /\ ~cmd[worker[w].cmd].elapsed

\* Fault: the token survives the end of the lease.
ReleasedWithToken(c, s) == [cmd[c] EXCEPT !.status = s, !.elapsed = FALSE]

\* A row leaving the leased state loses its token and its lease deadline.
Released(c, s) == [cmd[c] EXCEPT !.status = s, !.token = 0, !.elapsed = FALSE]

\* A failure that the attempts of the command have made final.
Classify(w, f) == IF worker[w].token >= MaxAttempts THEN "terminal" ELSE f

\* Fault: only a command in recovery is resumed, an expired lease is not told.
ClaimEventsOfRecovery(c, n) ==
  IF n > 1 /\ c \notin Auxiliary /\ Unresolved(JournalOf(c), c)
    THEN <<RecoveryEvent("RUN_RESUMED", c, n)>> ELSE <<>>

\* Recovery evidence a claim of attempt n appends before it returns work: the
\* lease of attempt n - 1 expired and nothing tells it yet ...
TellsExpiry(c, n) ==
  /\ n > 1 /\ c \notin Auxiliary
  /\ ~Unresolved(JournalOf(c), c)
  /\ \/ LastResumed(JournalOf(c), c, n - 1)
     \/ RecentAt(JournalOf(c), c) = {} /\ n = 2

\* ... and the attempt resumes what the journal still shows of the command.
TellsResume(c, n) ==
  /\ n > 1 /\ c \notin Auxiliary
  /\ RecentAt(JournalOf(c), c) # {} \/ n = 2

ClaimEvents(c, n) ==
  (IF TellsExpiry(c, n) THEN <<RecoveryEvent("STAGE_RETRY_SCHEDULED", c, n - 1)>> ELSE <<>>)
    \o (IF TellsResume(c, n) THEN <<RecoveryEvent("RUN_RESUMED", c, n)>> ELSE <<>>)

\* The journal accepts what the next claim of the command has to tell.
Reclaimable(c) == AcceptsAll(JournalOf(c), ClaimEvents(c, cmd[c].attempts + 1))

---------------------------------------------------------------------------
(* The API and the clock.                                                  *)

\* The API inserts a command (the checks before the insert are RunPipeline's).
Enqueue(c) ==
  /\ cmd[c].status = "absent"
  /\ cmd' = [cmd EXCEPT ![c] = Fresh]
  /\ UNCHANGED <<journal, worker>>

\* The backoff of a queued row or the lease of a leased row runs out.
DeadlinePasses(c) ==
  /\ ~cmd[c].elapsed
  /\ \/ cmd[c].status = "queued"
     \/ cmd[c].status = "leased" /\ cmd[c].attempts < ClaimBound
  /\ cmd' = [cmd EXCEPT ![c].elapsed = TRUE]
  /\ UNCHANGED <<journal, worker>>

---------------------------------------------------------------------------
(* One turn of a worker: processOne.                                       *)

\* When the journal refuses the recovery evidence the claim rolls back, processOne
\* rejects and the worker process ends: no step of the model.
Claim(w, c) ==
  /\ worker[w].pc = "idle" /\ Claimable(c) /\ Reclaimable(c)
  /\ LET n == cmd[c].attempts + 1 IN
     /\ journal' = [journal EXCEPT ![RunOf[c]] = @ \o ClaimEvents(c, n)]
     /\ cmd' = [cmd EXCEPT ![c] = [status |-> "leased", attempts |-> n,
                                   token |-> n, elapsed |-> FALSE]]
     /\ worker' = [worker EXCEPT ![w] = [Idle EXCEPT !.pc = "claimed",
                                               !.cmd = c, !.token = n]]

Goto(w, p) == worker' = [worker EXCEPT ![w].pc = p]

FailWith(w, f) == worker' = [worker EXCEPT ![w].pc = "failing", ![w].failure = f]

HandlerMissing(w) ==
  /\ worker[w].pc = "claimed" /\ worker[w].cmd \in Unhandled
  /\ FailWith(w, "terminal")
  /\ UNCHANGED <<journal, cmd>>

\* The first renewal, awaited before the handler runs.
Renew(w) ==
  /\ worker[w].pc = "claimed" /\ worker[w].cmd \notin Unhandled
  /\ IF LeaseLive(w) THEN Goto(w, "leased") ELSE FailWith(w, Classify(w, "retry"))
  /\ UNCHANGED <<journal, cmd>>

\* The handler loads the run's journal in a snapshot of its own.
Load(w) ==
  /\ worker[w].pc = "leased"
  /\ worker' = [worker EXCEPT ![w].pc = "running",
                              ![w].seen = Len(JournalOf(worker[w].cmd))]
  /\ UNCHANGED <<journal, cmd>>

\* The handler throws, or the renewals that run beside it were rejected.
HandlerThrows(w, f) ==
  /\ worker[w].pc = "running"
  /\ FailWith(w, IF f = "terminal" THEN f ELSE Classify(w, f))
  /\ UNCHANGED <<journal, cmd>>

OutcomeEvents(c, out) == [i \in 1..Len(out) |-> LifecycleEvent(c, i, out[i])]

\* Events carry the sequence numbers that follow the snapshot; the lease is
\* checked last, in the same transaction.
CompletionAccepted(w, out) ==
  LET c == worker[w].cmd IN
  /\ out # <<>> => worker[w].seen = Len(JournalOf(c))
  /\ AcceptsAll(JournalOf(c), OutcomeEvents(c, out))
  /\ LeaseLive(w)

\* Events, child commands and the end of the lease in one transaction.  A child
\* whose idempotency key exists is not inserted again.
Complete(w, out, children) ==
  /\ worker[w].pc = "running"
  /\ CompletionAccepted(w, out)
  /\ LET c == worker[w].cmd IN
     /\ journal' = [journal EXCEPT ![RunOf[c]] = @ \o OutcomeEvents(c, out)]
     /\ cmd' = [d \in Commands |->
                  IF d = c THEN Released(c, "succeeded")
                  ELSE IF d \in children /\ cmd[d].status = "absent" THEN Fresh
                  ELSE cmd[d]]
  /\ worker' = [worker EXCEPT ![w] = Idle]

\* The transaction rolls back; its error is an ordinary retryable failure.
CompletionRefused(w, out) ==
  /\ worker[w].pc = "running"
  /\ ~CompletionAccepted(w, out)
  /\ FailWith(w, Classify(w, "retry"))
  /\ UNCHANGED <<journal, cmd>>

\* Fault: a retry is announced for the attempt that will follow.
RetryEventsAhead(c, f) ==
  IF c \in Auxiliary THEN <<>>
  ELSE IF f # "terminal" THEN <<RecoveryEvent("STAGE_RETRY_SCHEDULED", c, cmd[c].attempts + 1)>>
  ELSE IF Terminal(JournalOf(c)) THEN <<>>
  ELSE <<LifecycleEvent(c, 1, [type |-> "RUN_FAILED", info |-> StageOf[c]])>>

\* What retryCommand appends.
RetryEvents(c, f) ==
  IF c \in Auxiliary THEN <<>>
  ELSE CASE f = "wait"  -> <<RecoveryEvent("STAGE_WAITING", c, cmd[c].attempts)>>
         [] f = "retry" -> <<RecoveryEvent("STAGE_RETRY_SCHEDULED", c, cmd[c].attempts)>>
         [] f = "terminal" ->
              IF Terminal(JournalOf(c)) THEN <<>>
              ELSE <<LifecycleEvent(c, 1, [type |-> "RUN_FAILED", info |-> StageOf[c]])>>

\* Fault: any final failure cancels the rest of the run.
CancelledByAnyone(c, f) ==
  {d \in Commands : /\ f = "terminal" /\ d # c /\ RunOf[d] = RunOf[c]
                    /\ cmd[d].status \in {"queued", "leased"}}

\* Fault: the cancellation does not look at the status.
CancelledWholeRun(c, f) ==
  {d \in Commands : /\ f = "terminal" /\ c \notin Auxiliary
                    /\ d # c /\ RunOf[d] = RunOf[c]}

\* A final failure of a non-auxiliary command cancels the rest of its run.
Cancelled(c, f) ==
  {d \in Commands : /\ f = "terminal" /\ c \notin Auxiliary
                    /\ d # c /\ RunOf[d] = RunOf[c]
                    /\ cmd[d].status \in {"queued", "leased"}}

\* Fault: the lease is not checked.
RetryAcceptedAlways(w) ==
  AcceptsAll(JournalOf(worker[w].cmd), RetryEvents(worker[w].cmd, worker[w].failure))

RetryAccepted(w) ==
  LET c == worker[w].cmd IN
  /\ LeaseLive(w)
  /\ AcceptsAll(JournalOf(c), RetryEvents(c, worker[w].failure))

Retry(w) ==
  /\ worker[w].pc = "failing"
  /\ RetryAccepted(w)
  /\ LET c == worker[w].cmd
         f == worker[w].failure IN
     /\ journal' = [journal EXCEPT ![RunOf[c]] = @ \o RetryEvents(c, f)]
     /\ cmd' = [d \in Commands |->
                  IF d = c THEN Released(c, IF f = "terminal" THEN "dead" ELSE "queued")
                  ELSE IF d \in Cancelled(c, f) THEN Released(d, "cancelled")
                  ELSE cmd[d]]
  /\ worker' = [worker EXCEPT ![w] = Idle]

\* A stale lease or a journal that refuses the event: the transaction rolls
\* back, processOne rejects and the worker process ends.
RetryRefused(w) ==
  /\ worker[w].pc = "failing"
  /\ ~RetryAccepted(w)
  /\ worker' = [worker EXCEPT ![w] = Idle]
  /\ UNCHANGED <<journal, cmd>>

---------------------------------------------------------------------------
(* Worker processes stop at any point; the platform starts them again.      *)

Crash(w) ==
  /\ Busy(w) /\ worker[w].token < ClaimBound
  /\ worker' = [worker EXCEPT ![w] = Idle]
  /\ UNCHANGED <<journal, cmd>>

\* The commands of the run that worker w works for.
Siblings(w) == {d \in Commands : Busy(w) /\ RunOf[d] = RunOf[worker[w].cmd]}

\* What worker w may do next.
Turn(w) ==
  \/ \E c \in Commands : Claim(w, c)
  \/ HandlerMissing(w) \/ Renew(w) \/ Load(w)
  \/ \E f \in Failure : HandlerThrows(w, f)
  \/ \E out \in Outcomes :
       \/ CompletionRefused(w, out)
       \/ \E children \in SUBSET Siblings(w) : Complete(w, out, children)
  \/ Retry(w) \/ RetryRefused(w)
  \/ Crash(w)

QueueNext ==
  \/ \E c \in ApiCommands : Enqueue(c)
  \/ \E c \in Commands : DeadlinePasses(c)
  \/ \E w \in Workers : Turn(w)

QueueSpec == QueueInit /\ [][QueueNext]_queueVars

---------------------------------------------------------------------------
(* Properties.                                                             *)

\* At most one worker can still report on a command: the reclaim of an expired
\* lease fences the worker it was taken from, which goes on running (lease_token
\* in the WHERE clauses of completeCommand, retryCommand and renewLease).
SoleHolder ==
  \A v, w \in Workers :
    LeaseLive(v) /\ LeaseLive(w) /\ worker[v].cmd = worker[w].cmd => v = w

\* A leased command is finished or rescheduled only by the worker of its latest
\* claim, before its lease runs out ("stale claims cannot complete or retry",
\* docs/slices/002); anyone else's report changes no row and no journal.
OnlyTheHolderReports ==
  [][\A w \in Workers :
       worker[w].pc \in {"running", "failing"} /\ worker'[w] = Idle
         /\ <<journal, cmd>>' # <<journal, cmd>>
       => LET c == worker[w].cmd IN
          /\ cmd[c].attempts = worker[w].token /\ ~cmd[c].elapsed
          /\ cmd[c].status = "leased" /\ cmd'[c].status # "leased"
          /\ \A r \in Runs \ {RunOf[c]} : journal'[r] = journal[r]]_queueVars

\* An effect in the journal and the end of its command are one commit: no
\* command that could still run again has already moved its run.
EffectsAreFinal ==
  \A r \in Runs : \A i \in DOMAIN journal[r] :
    ~IsRecovery(journal[r][i]) /\ i > 1 =>
      /\ RunOf[journal[r][i].cmd] = r
      /\ cmd[journal[r][i].cmd].status \in {"succeeded", "dead"}

\* The recovery view and the queue agree, across crashes and reclaims: what the
\* journal shows as unresolved is a command queued for exactly that retry, and
\* every queued retry has been announced (retryCommand, claimNextCommand and the
\* unresolved map of projectRun).
RecoveryViewAgrees ==
  \A c \in Commands :
    /\ \A i \in UnresolvedAt(JournalOf(c), c) :
         cmd[c].status = "queued" /\ JournalOf(c)[i].attempt = cmd[c].attempts
    /\ cmd[c].status = "queued" /\ cmd[c].attempts > 0 /\ c \notin Auxiliary =>
         \E e \in {JournalOf(c)[i] : i \in DOMAIN JournalOf(c)} :
           /\ e.type \in {"STAGE_WAITING", "STAGE_RETRY_SCHEDULED"}
           /\ e.cmd = c /\ e.attempt = cmd[c].attempts

\* No work disappears silently: a command is dead or cancelled only in a run
\* whose journal tells its readers that it ended (an auxiliary one may die).
LostWorkIsReported ==
  \A c \in Commands :
    cmd[c].status = "cancelled" \/ (cmd[c].status = "dead" /\ c \notin Auxiliary)
      => Terminal(JournalOf(c))

\* While a worker holds attempt n > 1, the journal already tells that the
\* attempt was resumed, unless the run has moved on since attempt 2 or more.
ResumedBeforeWork ==
  \A w \in Workers :
    LET c == worker[w].cmd
        n == worker[w].token
        j == JournalOf(c) IN
    Busy(w) /\ LeaseLive(w) /\ n > 1 /\ c \notin Auxiliary =>
      \/ \E i \in DOMAIN j : j[i] = RecoveryEvent("RUN_RESUMED", c, n)
      \/ n > 2 /\ \E i, k \in DOMAIN j : i < k /\ j[i].cmd = c /\ ~IsRecovery(j[k])

\* The queue implements the lifecycle its readers see.
PhaseOf(j) == Cardinality(Reached(j))

OutcomeOf(j) == IF Failed(j) THEN "failed" ELSE IF Terminal(j) THEN Verdict(j) ELSE "open"

Promise == INSTANCE RunLifecycle WITH
  phase   <- [r \in Runs |-> PhaseOf(journal[r])],
  outcome <- [r \in Runs |-> OutcomeOf(journal[r])]

\* Whatever workers crash, race or repeat, a run only ever moves as
\* RunLifecycle allows: stages in order, one end, nothing after it (the journal
\* rules of appendRunEvents together with the transactions of postgres.ts).
ImplementsLifecycle == Promise!Spec
=============================================================================
