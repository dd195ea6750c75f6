---------------------------- MODULE RunAdmission ----------------------------
(***************************************************************************)
(* createRun in production-service.ts: the admission of runs to one        *)
(* project, with its idempotency keys, its quota of runs per UTC day and   *)
(* its cap on live runs.  Every call is one PostgreSQL transaction; calls  *)
(* of several API processes, which may be configured differently,          *)
(* interleave between its statements.  Projects share neither lock nor     *)
(* rows, so one is modelled.                                               *)
(***************************************************************************)
EXTENDS Nothing, Naturals, FiniteSets

CONSTANTS
  Calls,       \* calls of createRun
  Keys,        \* idempotency keys
  Manifests,
  Live,        \* manifests of wallet and relayer runs
  KeyOf,       \* the key a call sends
  ManifestOf,  \* the manifest a call sends
  DayLimit,    \* projectRunsPerUtcDay in the process that serves a call
  LiveLimit,   \* projectActiveLiveRuns in the process that serves a call
  Colliding,   \* keys k for which some client may send a command keyed "k:preflight"
  LastDay      \* bound: the days that are told apart

Days == 1 .. LastDay

ASSUME AdmissionAssumption ==
  /\ KeyOf \in [Calls -> Keys]
  /\ ManifestOf \in [Calls -> Manifests]
  /\ Live \subseteq Manifests
  /\ Colliding \subseteq Keys
  /\ DayLimit \in [Calls -> Nat \ {0}]
  /\ LiveLimit \in [Calls -> Nat \ {0}]
  /\ LastDay \in Nat \ {0}
  /\ None \notin Calls /\ None \notin Nat
  /\ None \notin [limit : Nat, used : Nat]
  /\ None \notin [manifest : Manifests, day : Days, over : BOOLEAN]

VARIABLES
  day,       \* the UTC day of PostgreSQL's clock
  runs,      \* the run admitted under each key
  spent,     \* keys k whose command key "k:preflight" another command has
  window,    \* quota_windows rows of kind project_run_day
  cap,       \* limit_value of the quota_windows rows of kind active_live
  lock,      \* the call that holds the project's advisory lock
  call       \* how far each call is

admissionVars == <<day, runs, spent, window, cap, lock, call>>

Run == [manifest : Manifests, day : Days, over : BOOLEAN]

Answers == {"none", "accepted", "conflict", "daily", "active", "error"}

Places == {"idle", "lock", "reserve", "count", "insert", "reconcile", "done"}

Idle == [at |-> "idle", booked |-> None, capDay |-> None, answer |-> "none"]

\* Types of the state; a lock's holder is inside the locked part.
AdmissionTypeOK ==
  /\ day \in Days
  /\ runs \in [Keys -> Run \cup {None}]
  /\ spent \subseteq Keys
  /\ window \in [Days -> [limit : Nat, used : Nat] \cup {None}]
  /\ cap \in [Days -> Nat \cup {None}]
  /\ lock \in Calls \cup {None}
  /\ call \in [Calls -> [at : Places, booked : Days \cup {None},
                         capDay : Days \cup {None}, answer : Answers]]
  /\ \A c \in Calls : lock = c <=> call[c].at \in {"reserve", "count", "insert"}

AdmissionInit ==
  /\ day = 1
  /\ runs = [k \in Keys |-> None]
  /\ spent = {}
  /\ window = [d \in Days |-> None]
  /\ cap = [d \in Days |-> None]
  /\ lock = None
  /\ call = [c \in Calls |-> Idle]

---------------------------------------------------------------------------
(* One call.                                                               *)

At(c, place) == call[c].at = place

Goto(c, place) == call' = [call EXCEPT ![c].at = place]

Unlocked(c) == IF lock = c THEN None ELSE lock

\* The end of a call: what it reserved is forgotten or committed.
Ended(answer) == [at |-> "done", booked |-> None, capDay |-> None, answer |-> answer]

\* Fault: the end of a call leaves its transaction open.
AnswerKeepingLock(c, answer) ==
  /\ call' = [call EXCEPT ![c] = Ended(answer)]
  /\ UNCHANGED lock

\* COMMIT or ROLLBACK also releases the advisory lock.
AnswerCall(c, answer) ==
  /\ call' = [call EXCEPT ![c] = Ended(answer)]
  /\ lock' = Unlocked(c)

\* Fault: the manifest is not compared.
AnswerRepeatAlways(c) == AnswerCall(c, "accepted")

\* A run with the same key is the same intent or a conflict.
AnswerRepeat(c) ==
  AnswerCall(c, IF runs[KeyOf[c]].manifest = ManifestOf[c] THEN "accepted" ELSE "conflict")

\* BEGIN and the first lookup of the key.
Begin(c) ==
  /\ At(c, "idle")
  /\ IF runs[KeyOf[c]] # None
       THEN AnswerRepeat(c)
       ELSE Goto(c, "lock") /\ UNCHANGED lock
  /\ UNCHANGED <<day, runs, spent, window, cap>>

\* pg_advisory_xact_lock, and the lookup repeated under the lock.
Lock(c) ==
  /\ At(c, "lock")
  /\ lock = None
  /\ IF runs[KeyOf[c]] # None
       THEN AnswerRepeat(c)
       ELSE Goto(c, "reserve") /\ lock' = c
  /\ UNCHANGED <<day, runs, spent, window, cap>>

\* Fault: the last run of a day is refused.
FullTooEarly(d) == window[d] # None /\ window[d].used + 1 >= window[d].limit

\* The row of the day is at its limit.
Full(d) == window[d] # None /\ window[d].used >= window[d].limit

\* reserveProjectDailyQuota: the window is the day of this statement's clock.
Reserve(c) ==
  /\ At(c, "reserve")
  /\ IF Full(day)
       THEN AnswerCall(c, "daily")
       ELSE /\ call' = [call EXCEPT ![c].booked = day,
                          ![c].at = IF ManifestOf[c] \in Live THEN "count" ELSE "insert"]
            /\ UNCHANGED lock
  /\ UNCHANGED <<day, runs, spent, window, cap>>

CapFor(c, d) == IF cap[d] = None THEN LiveLimit[c] ELSE cap[d]

ActiveRuns == {k \in Keys : runs[k] # None /\ runs[k].manifest \in Live /\ ~runs[k].over}

\* Fault: every process enforces its own cap.
LimitOfProcess(c) == LiveLimit[c]

\* limitValue is read back from the stored row.
LimitOfDay(c) == CapFor(c, day)

\* enforceActiveLiveQuota: the cap stored for the day, or this process's, which
\* is stored with the run, bounds the live runs that are not over.
Count(c) ==
  /\ At(c, "count")
  /\ IF Cardinality(ActiveRuns) >= LimitOfDay(c)
       THEN AnswerCall(c, "active")
       ELSE call' = [call EXCEPT ![c].at = "insert", ![c].capDay = day] /\ UNCHANGED lock
  /\ UNCHANGED <<day, runs, spent, window, cap>>

Booked(c, d) ==
  IF d # call[c].booked THEN window[d]
  ELSE IF window[d] = None THEN [limit |-> DayLimit[c], used |-> 1]
  ELSE [window[d] EXCEPT !.used = @ + 1]

\* Fault: the event's time is read when the run is inserted.
CreatedToday(c) == day

\* eventClock: RUN_CREATED carries the time of the reservation.
CreatedOn(c) == call[c].booked

\* The run, its first event and RUN_PREFLIGHT are inserted and committed with the
\* reservation and the cap.  The answer may be lost on its way.
Insert(c) ==
  /\ At(c, "insert")
  /\ runs[KeyOf[c]] = None /\ KeyOf[c] \notin spent
  /\ runs' = [runs EXCEPT ![KeyOf[c]] =
                [manifest |-> ManifestOf[c], day |-> CreatedOn(c), over |-> FALSE]]
  /\ window' = [d \in Days |-> Booked(c, d)]
  /\ cap' = [d \in Days |-> IF d = call[c].capDay THEN CapFor(c, d) ELSE cap[d]]
  /\ \E answer \in {"accepted", "error"} : AnswerCall(c, answer)
  /\ UNCHANGED <<day, spent>>

\* A unique key of runs or run_commands is violated: ROLLBACK, then reconcile.
Violate(c) ==
  /\ At(c, "insert")
  /\ runs[KeyOf[c]] # None \/ KeyOf[c] \in spent
  /\ call' = [call EXCEPT ![c] = [Idle EXCEPT !.at = "reconcile"]]
  /\ lock' = Unlocked(c)
  /\ UNCHANGED <<day, runs, spent, window, cap>>

Reconcile(c) ==
  /\ At(c, "reconcile")
  /\ IF runs[KeyOf[c]] # None THEN AnswerRepeat(c) ELSE AnswerCall(c, "conflict")
  /\ UNCHANGED <<day, runs, spent, window, cap>>

\* A statement fails, or the API process dies: PostgreSQL rolls back.
Abort(c) ==
  /\ call[c].at \notin {"idle", "done"}
  /\ AnswerCall(c, "error")
  /\ UNCHANGED <<day, runs, spent, window, cap>>

\* A client that got an error, or a limit, sends the same request again.
Repeat(c) ==
  /\ At(c, "done") /\ call[c].answer \in {"error", "daily", "active"}
  /\ call' = [call EXCEPT ![c] = Idle]
  /\ UNCHANGED <<day, runs, spent, window, cap, lock>>

---------------------------------------------------------------------------
(* What goes on besides the calls.                                         *)

\* The worker commits the end of a run.
Conclude(k) ==
  /\ runs[k] # None /\ ~runs[k].over
  /\ runs' = [runs EXCEPT ![k].over = TRUE]
  /\ UNCHANGED <<day, spent, window, cap, lock, call>>

\* enqueue inserts a client's command under the key that createRun would derive.
Collide(k) ==
  /\ k \in Colliding \ spent
  /\ runs[k] = None
  /\ \E other \in Keys : runs[other] # None
  /\ spent' = spent \cup {k}
  /\ UNCHANGED <<day, runs, window, cap, lock, call>>

\* Midnight; no transaction is open for a whole day.
NextDay ==
  /\ day < LastDay
  /\ \A c \in Calls : {call[c].booked, call[c].capDay} \subseteq {None, day}
  /\ day' = day + 1
  /\ UNCHANGED <<runs, spent, window, cap, lock, call>>

\* boundedChallengeCleanup drops windows that ended a day ago or earlier, except
\* rows that a transaction has locked.
Sweep(d) ==
  /\ d + 2 <= day
  /\ lock # None => call[lock].booked # d /\ call[lock].capDay # d
  /\ \/ window[d] # None /\ window' = [window EXCEPT ![d] = None] /\ UNCHANGED cap
     \/ cap[d] # None /\ cap' = [cap EXCEPT ![d] = None] /\ UNCHANGED window
  /\ UNCHANGED <<day, runs, spent, lock, call>>

CallStep(c) ==
  \/ Begin(c) \/ Lock(c) \/ Reserve(c) \/ Count(c)
  \/ Insert(c) \/ Violate(c) \/ Reconcile(c)

AdmissionNext ==
  \/ \E c \in Calls : CallStep(c) \/ Abort(c) \/ Repeat(c)
  \/ \E k \in Keys : Conclude(k) \/ Collide(k)
  \/ NextDay
  \/ \E d \in Days : Sweep(d)

AdmissionSpec == AdmissionInit /\ [][AdmissionNext]_admissionVars

\* A call that has begun goes on; waiters get an advisory lock in turn.
AdmissionLive ==
  AdmissionSpec /\ \A c \in Calls : WF_admissionVars(~At(c, "idle") /\ CallStep(c)) /\ SF_admissionVars(Lock(c))

---------------------------------------------------------------------------
(* Properties.                                                             *)

CreatedIn(d) == {k \in Keys : runs[k] # None /\ runs[k].day = d}

\* The count of a day's window is the number of runs whose RUN_CREATED is of that
\* day: repetitions, refusals, rollbacks and lost answers consume nothing, and
\* midnight between two statements charges the day that the run carries.
QuotaIsExact ==
  \A d \in Days :
    IF window[d] = None
      THEN d + 2 <= day \/ CreatedIn(d) = {}
      ELSE window[d].used = Cardinality(CreatedIn(d)) /\ window[d].used <= window[d].limit

\* A live run is only admitted within a cap that is stored for the day on which
\* it was counted, whatever the limits of the other API processes are.
AdmittedWithinCap ==
  [][ActiveRuns' \subseteq ActiveRuns
     \/ \E d \in {day, day - 1} \cap Days :
          cap'[d] # None /\ Cardinality(ActiveRuns') <= cap'[d]]_admissionVars

\* An accepted call names the run of its own intent; a conflict has a reason that
\* is still there.
AnswersTellTheIntent ==
  \A c \in Calls :
    /\ call[c].answer = "accepted" =>
         runs[KeyOf[c]] # None /\ runs[KeyOf[c]].manifest = ManifestOf[c]
    /\ call[c].answer = "conflict" =>
         \/ KeyOf[c] \in spent
         \/ runs[KeyOf[c]] # None /\ runs[KeyOf[c]].manifest # ManifestOf[c]

\* The statements of createRun, and their locks and rows, amount to the ledger's steps: a call
\* takes effect at its commit, in one step, and is refused only what is full just then.
Ledger == INSTANCE AdmissionLedger WITH
  limit <- [d \in Days |-> IF window[d] = None THEN None ELSE window[d].limit],
  answer <- [c \in Calls |-> call[c].answer]

ImplementsLedger == Ledger!LedgerSpec

\* Every call that waits for the project's lock is answered.
WaitersAreAnswered == \A c \in Calls : At(c, "lock") ~> At(c, "done")

\* What createRun promises: exact daily quotas, answers that tell the intent, live runs
\* within the day's cap, and calls that take effect at once, under concurrent calls, lost
\* answers and midnight.
AdmissionPromise ==
  []QuotaIsExact /\ []AnswersTellTheIntent /\ AdmittedWithinCap /\ ImplementsLedger
=============================================================================
