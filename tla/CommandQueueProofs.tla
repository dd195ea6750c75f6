------------------------ MODULE CommandQueueProofs --------------------------
(***************************************************************************)
(* Proofs about CommandQueue, for any workers, runs, commands and bounds:  *)
(* first its types and its leases, then its history, what the journal of a *)
(* run says about the commands of the run.                                 *)
(***************************************************************************)
EXTENDS CommandQueue, SequenceTheorems, FiniteSetTheorems, TLAPS

---------------------------------------------------------------------------
(* What the operations append are events.                                  *)

LEMMA ClaimEventsType ==
  ASSUME NEW c \in Commands, QueueTypeOK
  PROVE  ClaimEvents(c, cmd[c].attempts + 1) \in Seq(Event(Commands))
<1> DEFINE n      == cmd[c].attempts + 1
           expiry == IF TellsExpiry(c, n)
                       THEN <<RecoveryEvent("STAGE_RETRY_SCHEDULED", c, n - 1)>> ELSE <<>>
           resume == IF TellsResume(c, n) THEN <<RecoveryEvent("RUN_RESUMED", c, n)>> ELSE <<>>
<1>1. cmd[c].attempts \in Nat
  BY DEF QueueTypeOK, CommandRow
<1>2. RecoveryEvent("STAGE_RETRY_SCHEDULED", c, n - 1) \in Event(Commands)
  BY <1>1 DEF RecoveryEvent, Event, RecoveryTypes, Infos
<1>3. RecoveryEvent("RUN_RESUMED", c, n) \in Event(Commands)
  BY <1>1 DEF RecoveryEvent, Event, RecoveryTypes, Infos
<1>4. expiry \in Seq(Event(Commands)) /\ resume \in Seq(Event(Commands))
  <2> HIDE DEF n
  <2> QED BY <1>2, <1>3
<1>5. expiry \o resume \in Seq(Event(Commands))
  <2> HIDE DEF expiry, resume
  <2> QED BY <1>4, ConcatProperties
<1> QED
  BY <1>5 DEF ClaimEvents

LEMMA OutcomeEventsType ==
  ASSUME NEW c \in Commands, NEW out \in Outcomes
  PROVE  OutcomeEvents(c, out) \in Seq(Event(Commands))
<1> DEFINE Effect == [type : LifecycleTypes \ {"RUN_CREATED"}, info : Infos]
<1>1. out \in Seq(Effect)
  BY QueueAssumption
<1>2. Len(out) \in Nat
  BY <1>1, LenProperties
<1>3. ASSUME NEW i \in 1..Len(out)
      PROVE  LifecycleEvent(c, i, out[i]) \in Event(Commands)
  <2>1. out[i] \in Effect
    <3> HIDE DEF Effect
    <3> QED BY <1>1, ElementOfSeq
  <2>2. /\ out[i].type \in LifecycleTypes
        /\ out[i].info \in Infos
    BY <2>1
  <2> QED
    BY <1>2, <2>2 DEF LifecycleEvent, Event
<1> QED
  BY <1>2, <1>3, IsASeq DEF OutcomeEvents

LEMMA RetryEventsType ==
  ASSUME NEW c \in Commands, NEW f \in Failure, QueueTypeOK
  PROVE  RetryEvents(c, f) \in Seq(Event(Commands))
<1>1. cmd[c].attempts \in Nat
  BY DEF QueueTypeOK, CommandRow
<1>2. RecoveryEvent("STAGE_WAITING", c, cmd[c].attempts) \in Event(Commands)
  BY <1>1 DEF RecoveryEvent, Event, RecoveryTypes, Infos
<1>3. RecoveryEvent("STAGE_RETRY_SCHEDULED", c, cmd[c].attempts) \in Event(Commands)
  BY <1>1 DEF RecoveryEvent, Event, RecoveryTypes, Infos
<1>4. LifecycleEvent(c, 1, [type |-> "RUN_FAILED", info |-> StageOf[c]]) \in Event(Commands)
  BY QueueAssumption DEF LifecycleEvent, Event, LifecycleTypes, Infos
<1> QED
  BY <1>2, <1>3, <1>4 DEF RetryEvents, Failure

\* A journal with events appended.
LEMMA AppendType ==
  ASSUME NEW r \in Runs, NEW evs \in Seq(Event(Commands)), QueueTypeOK
  PROVE  [journal EXCEPT ![r] = @ \o evs] \in [Runs -> Seq(Event(Commands))]
<1>1. journal[r] \o evs \in Seq(Event(Commands))
  BY ConcatProperties DEF QueueTypeOK
<1> QED
  BY <1>1 DEF QueueTypeOK

---------------------------------------------------------------------------
(* The invariant behind the fencing: a busy worker holds a claim that was   *)
(* really made, and no two workers hold the same one.                       *)

ClaimsOK ==
  /\ \A w \in Workers : Busy(w) =>
       /\ worker[w].cmd \in Commands
       /\ worker[w].token \in 1..cmd[worker[w].cmd].attempts
       /\ worker[w].pc = "failing" => worker[w].failure \in Failure
  /\ \A v, w \in Workers :
       Busy(v) /\ Busy(w) /\ worker[v].cmd = worker[w].cmd /\ worker[v].token = worker[w].token
         => v = w

QueueInv == QueueTypeOK /\ ClaimsOK

LEMMA QueueInitInv == QueueInit => QueueInv
<1> SUFFICES ASSUME QueueInit PROVE QueueInv
  OBVIOUS
<1>1. RunCreated \in Event(Commands)
  BY DEF RunCreated, Event, LifecycleTypes, Lifecycle, Infos
<1>2. journal \in [Runs -> Seq(Event(Commands))]
  BY <1>1 DEF QueueInit
<1>3. Fresh \in CommandRow /\ Absent \in CommandRow /\ RowOK(Fresh) /\ RowOK(Absent)
  BY DEF Fresh, Absent, CommandRow, Status, RowOK
<1>4. cmd \in [Commands -> CommandRow] /\ \A c \in Commands : RowOK(cmd[c])
  BY <1>3 DEF QueueInit
<1>5. Idle \in WorkerState
  BY DEF Idle, WorkerState, Phase
<1>6. worker \in [Workers -> WorkerState]
  BY <1>5 DEF QueueInit
<1>7. \A w \in Workers : ~Busy(w)
  BY DEF QueueInit, Busy, Idle
<1> QED
  BY <1>2, <1>4, <1>6, <1>7 DEF QueueInv, QueueTypeOK, ClaimsOK

\* A worker that moves on with its claim, or lets go of it, keeps the invariant
\* as long as the rows keep their attempts.
LEMMA WorkerStep ==
  ASSUME QueueInv, NEW w \in Workers, NEW s \in WorkerState,
         worker' = [worker EXCEPT ![w] = s],
         s.pc = "idle" \/ (Busy(w) /\ s.cmd = worker[w].cmd /\ s.token = worker[w].token),
         s.pc = "failing" => s.failure \in Failure,
         cmd' \in [Commands -> CommandRow],
         \A c \in Commands : cmd'[c].attempts = cmd[c].attempts
  PROVE  ClaimsOK' /\ worker' \in [Workers -> WorkerState]
<1>1. worker' \in [Workers -> WorkerState]
  BY DEF QueueInv, QueueTypeOK
<1>2. \A v \in Workers : Busy(v)' => Busy(v) /\ worker'[v].cmd = worker[v].cmd
                                            /\ worker'[v].token = worker[v].token
  BY DEF Busy, QueueInv, QueueTypeOK
<1> QED
  BY <1>1, <1>2 DEF ClaimsOK, QueueInv

\* Rows an operation leaves typed.
LEMMA ReleasedType ==
  ASSUME QueueInv, NEW c \in Commands, NEW s \in Status \ {"absent", "leased"}
  PROVE  /\ Released(c, s) \in CommandRow /\ RowOK(Released(c, s))
         /\ Released(c, s).attempts = cmd[c].attempts
  BY DEF QueueInv, QueueTypeOK, Released, CommandRow, RowOK

LEMMA FreshType == Fresh \in CommandRow /\ RowOK(Fresh) /\ Fresh.attempts = 0
  BY DEF Fresh, CommandRow, Status, RowOK

LEMMA IdleType == Idle \in WorkerState
  BY DEF Idle, WorkerState, Phase

\* Steps that only move a worker.
LEMMA MoveStep ==
  ASSUME QueueInv, NEW w \in Workers, NEW p \in Phase, NEW n \in Nat,
         NEW f \in Failure \cup {"none"}, Busy(w), p = "failing" => f \in Failure,
         worker' = [worker EXCEPT ![w] = [worker[w] EXCEPT !.pc = p, !.seen = n, !.failure = f]],
         UNCHANGED <<journal, cmd>>
  PROVE  QueueInv'
<1>1. [worker[w] EXCEPT !.pc = p, !.seen = n, !.failure = f] \in WorkerState
  BY DEF QueueInv, QueueTypeOK, WorkerState
<1>2. ClaimsOK' /\ worker' \in [Workers -> WorkerState]
  BY <1>1, WorkerStep DEF QueueInv, QueueTypeOK, WorkerState
<1> QED
  BY <1>2 DEF QueueInv, QueueTypeOK

LEMMA EnqueueInv ==
  ASSUME QueueInv, NEW c \in Commands, Enqueue(c)
  PROVE  QueueInv'
<1>1. cmd' \in [Commands -> CommandRow] /\ \A d \in Commands : RowOK(cmd'[d])
  BY FreshType DEF Enqueue, QueueInv, QueueTypeOK
<1>2. \A d \in Commands : cmd'[d].attempts = cmd[d].attempts
  BY FreshType DEF Enqueue, QueueInv, QueueTypeOK, RowOK
<1> QED
  BY <1>1, <1>2 DEF Enqueue, QueueInv, QueueTypeOK, ClaimsOK, Busy

LEMMA DeadlinePassesInv ==
  ASSUME QueueInv, NEW c \in Commands, DeadlinePasses(c)
  PROVE  QueueInv'
<1>1. /\ cmd' \in [Commands -> CommandRow]
      /\ \A d \in Commands : RowOK(cmd'[d]) /\ cmd'[d].attempts = cmd[d].attempts
  BY DEF DeadlinePasses, QueueInv, QueueTypeOK, CommandRow, RowOK
<1> QED
  BY <1>1 DEF DeadlinePasses, QueueInv, QueueTypeOK, ClaimsOK, Busy

LEMMA ClaimInv ==
  ASSUME QueueInv, NEW w \in Workers, NEW c \in Commands, Claim(w, c)
  PROVE  QueueInv'
<1> DEFINE n   == cmd[c].attempts + 1
           row == [status |-> "leased", attempts |-> n, token |-> n, elapsed |-> FALSE]
           turn == [Idle EXCEPT !.pc = "claimed", !.cmd = c, !.token = n]
<1>1. n \in Nat /\ cmd[c].attempts \in Nat
  BY DEF QueueInv, QueueTypeOK, CommandRow
<1>2. /\ journal' = [journal EXCEPT ![RunOf[c]] = @ \o ClaimEvents(c, n)]
      /\ cmd' = [cmd EXCEPT ![c] = row]
      /\ worker' = [worker EXCEPT ![w] = turn]
      /\ worker[w].pc = "idle"
  BY DEF Claim
<1>3. journal' \in [Runs -> Seq(Event(Commands))]
  BY <1>2, ClaimEventsType, AppendType, QueueAssumption DEF QueueInv
<1>4. row \in CommandRow /\ RowOK(row)
  BY <1>1 DEF CommandRow, Status, RowOK
<1>5. /\ cmd' \in [Commands -> CommandRow]
      /\ \A d \in Commands : RowOK(cmd'[d])
      /\ cmd'[c].attempts = n
      /\ \A d \in Commands : d # c => cmd'[d].attempts = cmd[d].attempts
  <2> HIDE DEF row
  <2>1. row.attempts = n
    BY DEF row
  <2> QED BY <1>2, <1>4, <2>1 DEF QueueInv, QueueTypeOK
<1>6. turn \in WorkerState /\ turn.pc = "claimed" /\ turn.cmd = c /\ turn.token = n
  BY <1>1, IdleType DEF WorkerState, Phase, Idle
<1>7. worker' \in [Workers -> WorkerState] /\ worker'[w] = turn
  <2> HIDE DEF turn
  <2> QED BY <1>2, <1>6 DEF QueueInv, QueueTypeOK
<1>8. \A v \in Workers : v # w => worker'[v] = worker[v]
  BY <1>2
<1>9. ClaimsOK'
  <2> HIDE DEF n, turn, row
  <2>1. ASSUME NEW v \in Workers, Busy(v)'
        PROVE  /\ worker'[v].cmd \in Commands
               /\ worker'[v].token \in 1..cmd'[worker'[v].cmd].attempts
               /\ worker'[v].pc = "failing" => worker'[v].failure \in Failure
    <3>1. CASE v = w
      BY <3>1, <1>1, <1>5, <1>6, <1>7 DEF n
    <3>2. CASE v # w
      <4>1. Busy(v) /\ worker'[v] = worker[v]
        BY <3>2, <2>1, <1>8 DEF Busy
      <4>2. /\ worker[v].cmd \in Commands /\ worker[v].token \in 1..cmd[worker[v].cmd].attempts
            /\ worker[v].pc = "failing" => worker[v].failure \in Failure
        BY <4>1 DEF QueueInv, ClaimsOK
      <4>3. cmd[worker[v].cmd].attempts \in Nat
        BY <4>2 DEF QueueInv, QueueTypeOK, CommandRow
      <4>4. CASE worker[v].cmd = c
        BY <4>1, <4>2, <4>4, <1>1, <1>5 DEF n
      <4>5. CASE worker[v].cmd # c
        BY <4>1, <4>2, <4>5, <1>5
      <4> QED BY <4>4, <4>5
    <3> QED BY <3>1, <3>2
  <2>2. ASSUME NEW v \in Workers, v # w, Busy(v), worker[v].cmd = c
        PROVE  worker[v].token # n
    BY <2>2, <1>1 DEF n, QueueInv, ClaimsOK
  <2>3. ASSUME NEW u \in Workers, NEW v \in Workers, Busy(u)', Busy(v)',
               worker'[u].cmd = worker'[v].cmd, worker'[u].token = worker'[v].token
        PROVE  u = v
    <3>1. CASE u # w /\ v # w
      BY <3>1, <2>3, <1>8 DEF QueueInv, ClaimsOK, Busy
    <3>2. CASE u = w /\ v # w
      BY <3>2, <2>2, <2>3, <1>6, <1>7, <1>8 DEF Busy
    <3>3. CASE u # w /\ v = w
      BY <3>3, <2>2, <2>3, <1>6, <1>7, <1>8 DEF Busy
    <3> QED BY <3>1, <3>2, <3>3
  <2> QED BY <2>1, <2>3 DEF ClaimsOK
<1> QED
  BY <1>3, <1>5, <1>7, <1>9 DEF QueueInv, QueueTypeOK

\* The lease leaves the row of the worker's command, other rows of the run are
\* inserted or cancelled, and the worker is done: Complete and Retry.
LEMMA ReportStep ==
  ASSUME QueueInv, NEW w \in Workers, Busy(w),
         worker' = [worker EXCEPT ![w] = Idle],
         NEW evs \in Seq(Event(Commands)),
         journal' = [journal EXCEPT ![RunOf[worker[w].cmd]] = @ \o evs],
         cmd' \in [Commands -> CommandRow],
         \A d \in Commands : RowOK(cmd'[d]) /\ cmd'[d].attempts = cmd[d].attempts
  PROVE  QueueInv'
<1>1. RunOf[worker[w].cmd] \in Runs
  BY QueueAssumption DEF QueueInv, ClaimsOK
<1>2. journal' \in [Runs -> Seq(Event(Commands))]
  BY <1>1, AppendType DEF QueueInv
<1>3. ClaimsOK' /\ worker' \in [Workers -> WorkerState]
  BY IdleType, WorkerStep DEF Idle
<1> QED
  BY <1>2, <1>3 DEF QueueInv, QueueTypeOK

LEMMA CompleteInv ==
  ASSUME QueueInv, NEW w \in Workers, NEW out \in Outcomes, NEW children,
         Complete(w, out, children)
  PROVE  QueueInv'
<1> DEFINE c == worker[w].cmd
<1>1. Busy(w) /\ c \in Commands
  BY DEF Complete, Busy, QueueInv, ClaimsOK
<1>2. /\ journal' = [journal EXCEPT ![RunOf[c]] = @ \o OutcomeEvents(c, out)]
      /\ cmd' = [d \in Commands |->
                   IF d = c THEN Released(c, "succeeded")
                   ELSE IF d \in children /\ cmd[d].status = "absent" THEN Fresh
                   ELSE cmd[d]]
  BY DEF Complete
<1>3. worker' = [worker EXCEPT ![w] = Idle]
  BY DEF Complete
<1>4. OutcomeEvents(c, out) \in Seq(Event(Commands))
  BY <1>1, OutcomeEventsType
<1>5. "succeeded" \in Status \ {"absent", "leased"}
  BY DEF Status
<1>6. /\ cmd' \in [Commands -> CommandRow]
      /\ \A d \in Commands : RowOK(cmd'[d]) /\ cmd'[d].attempts = cmd[d].attempts
  BY <1>1, <1>2, <1>5, ReleasedType, FreshType DEF QueueInv, QueueTypeOK, RowOK
<1> QED
  BY <1>1, <1>2, <1>3, <1>4, <1>6, ReportStep

LEMMA RetryInv ==
  ASSUME QueueInv, NEW w \in Workers, Retry(w)
  PROVE  QueueInv'
<1> DEFINE c == worker[w].cmd
           f == worker[w].failure
           s == IF f = "terminal" THEN "dead" ELSE "queued"
<1>1. Busy(w) /\ c \in Commands
  BY DEF Retry, Busy, QueueInv, ClaimsOK
<1>2. /\ journal' = [journal EXCEPT ![RunOf[c]] = @ \o RetryEvents(c, f)]
      /\ cmd' = [d \in Commands |->
                   IF d = c THEN Released(c, s)
                   ELSE IF d \in Cancelled(c, f) THEN Released(d, "cancelled")
                   ELSE cmd[d]]
      /\ worker' = [worker EXCEPT ![w] = Idle]
  BY DEF Retry
<1>3. f \in Failure
  BY <1>1 DEF Retry, QueueInv, ClaimsOK
<1>4. RetryEvents(c, f) \in Seq(Event(Commands))
  BY <1>1, <1>3, RetryEventsType DEF QueueInv
<1>5. s \in Status \ {"absent", "leased"} /\ "cancelled" \in Status \ {"absent", "leased"}
  BY DEF Status
<1>6. /\ cmd' \in [Commands -> CommandRow]
      /\ \A d \in Commands : RowOK(cmd'[d]) /\ cmd'[d].attempts = cmd[d].attempts
  <2> HIDE DEF s, f
  <2> QED BY <1>1, <1>2, <1>5, ReleasedType DEF QueueInv, QueueTypeOK
<1> QED
  BY <1>1, <1>2, <1>4, <1>6, ReportStep

LEMMA ClassifyType ==
  ASSUME NEW w \in Workers, NEW f \in Failure
  PROVE  Classify(w, f) \in Failure
  BY DEF Classify, Failure

LEMMA CrashInv ==
  ASSUME QueueInv, NEW w \in Workers, worker' = [worker EXCEPT ![w] = Idle],
         UNCHANGED <<journal, cmd>>
  PROVE  QueueInv'
<1>1. ClaimsOK' /\ worker' \in [Workers -> WorkerState]
  BY IdleType, WorkerStep DEF Idle, QueueInv, QueueTypeOK
<1> QED
  BY <1>1 DEF QueueInv, QueueTypeOK

LEMMA FailWithInv ==
  ASSUME QueueInv, NEW w \in Workers, Busy(w), NEW f \in Failure, FailWith(w, f),
         UNCHANGED <<journal, cmd>>
  PROVE  QueueInv'
<1>1. worker[w].seen \in Nat /\ "failing" \in Phase
  BY DEF QueueInv, QueueTypeOK, WorkerState, Phase
<1>2. worker' = [worker EXCEPT ![w] = [worker[w] EXCEPT !.pc = "failing",
                                         !.seen = worker[w].seen, !.failure = f]]
  BY DEF FailWith, QueueInv, QueueTypeOK, WorkerState
<1> QED
  BY <1>1, <1>2, MoveStep

LEMMA QueueStepInv == QueueInv /\ [QueueNext]_queueVars => QueueInv'
<1> SUFFICES ASSUME QueueInv, [QueueNext]_queueVars PROVE QueueInv'
  OBVIOUS
<1>1. ASSUME NEW c \in ApiCommands, Enqueue(c) PROVE QueueInv'
  BY <1>1, EnqueueInv, QueueAssumption
<1>2. ASSUME NEW c \in Commands, DeadlinePasses(c) PROVE QueueInv'
  BY <1>2, DeadlinePassesInv
<1>3. ASSUME NEW w \in Workers, NEW c \in Commands, Claim(w, c) PROVE QueueInv'
  BY <1>3, ClaimInv
<1>4. ASSUME NEW w \in Workers, HandlerMissing(w) PROVE QueueInv'
  <2>1. Busy(w) /\ "terminal" \in Failure
    BY <1>4 DEF HandlerMissing, Busy, Failure
  <2> QED BY <1>4, <2>1, FailWithInv DEF HandlerMissing
<1>5. ASSUME NEW w \in Workers, Renew(w) PROVE QueueInv'
  <2>1. Busy(w) /\ "retry" \in Failure /\ "leased" \in Phase
    BY <1>5 DEF Renew, Busy, Failure, Phase
  <2>2. CASE LeaseLive(w)
    <3>1. worker[w].seen \in Nat /\ worker[w].failure \in Failure \cup {"none"}
      BY DEF QueueInv, QueueTypeOK, WorkerState
    <3>2. worker' = [worker EXCEPT ![w] = [worker[w] EXCEPT !.pc = "leased",
                          !.seen = worker[w].seen, !.failure = worker[w].failure]]
      BY <1>5, <2>2 DEF Renew, Goto, QueueInv, QueueTypeOK, WorkerState
    <3> QED BY <1>5, <2>1, <3>1, <3>2, MoveStep DEF Renew
  <2>3. CASE ~LeaseLive(w)
    BY <1>5, <2>1, <2>3, ClassifyType, FailWithInv DEF Renew
  <2> QED BY <2>2, <2>3
<1>6. ASSUME NEW w \in Workers, Load(w) PROVE QueueInv'
  <2>1. Busy(w) /\ worker[w].cmd \in Commands /\ "running" \in Phase
    BY <1>6 DEF Load, Busy, QueueInv, ClaimsOK, Phase
  <2>2. Len(JournalOf(worker[w].cmd)) \in Nat
    BY <2>1, QueueAssumption, LenProperties DEF JournalOf, QueueInv, QueueTypeOK
  <2>3. worker[w].failure \in Failure \cup {"none"}
    BY DEF QueueInv, QueueTypeOK, WorkerState
  <2>4. worker' = [worker EXCEPT ![w] = [worker[w] EXCEPT !.pc = "running",
                     !.seen = Len(JournalOf(worker[w].cmd)), !.failure = worker[w].failure]]
    BY <1>6 DEF Load, QueueInv, QueueTypeOK, WorkerState
  <2>5. UNCHANGED <<journal, cmd>>
    BY <1>6 DEF Load
  <2> DEFINE n == Len(JournalOf(worker[w].cmd))
  <2> HIDE DEF n
  <2> QED BY <2>1, <2>2, <2>3, <2>4, <2>5, MoveStep DEF n
<1>7. ASSUME NEW w \in Workers, NEW f \in Failure, HandlerThrows(w, f) PROVE QueueInv'
  <2>1. Busy(w)
    BY <1>7 DEF HandlerThrows, Busy
  <2> QED BY <1>7, <2>1, ClassifyType, FailWithInv DEF HandlerThrows
<1>8. ASSUME NEW w \in Workers, NEW out \in Outcomes, NEW children,
             Complete(w, out, children)
      PROVE  QueueInv'
  BY <1>8, CompleteInv
<1>9. ASSUME NEW w \in Workers, NEW out \in Outcomes, CompletionRefused(w, out) PROVE QueueInv'
  <2>1. Busy(w) /\ "retry" \in Failure
    BY <1>9 DEF CompletionRefused, Busy, Failure
  <2> QED BY <1>9, <2>1, ClassifyType, FailWithInv DEF CompletionRefused
<1>10. ASSUME NEW w \in Workers, Retry(w) PROVE QueueInv'
  BY <1>10, RetryInv
<1>11. ASSUME NEW w \in Workers, RetryRefused(w) PROVE QueueInv'
  BY <1>11, CrashInv DEF RetryRefused
<1>12. ASSUME NEW w \in Workers, Crash(w) PROVE QueueInv'
  BY <1>12, CrashInv DEF Crash
<1>13. CASE UNCHANGED queueVars
  BY <1>13 DEF queueVars, QueueInv, QueueTypeOK, ClaimsOK, Busy
<1> QED
  BY <1>1, <1>2, <1>3, <1>4, <1>5, <1>6, <1>7, <1>8, <1>9, <1>10, <1>11, <1>12, <1>13
     DEF QueueNext, Turn

LEMMA QueueInvariant == QueueSpec => []QueueInv
  BY QueueInitInv, QueueStepInv, PTL DEF QueueSpec

\* The state of the queue is always well typed, and a row has a token exactly
\* while it is leased, whatever the workers do (run_commands in postgres.ts).
THEOREM QueueTyped == QueueSpec => []QueueTypeOK
<1>1. QueueInv => QueueTypeOK
  BY DEF QueueInv
<1> QED
  BY <1>1, QueueInvariant, PTL

\* For any number of workers, no two can report on the same command at one time.
THEOREM OneHolder == QueueSpec => []SoleHolder
<1>1. QueueInv => SoleHolder
  BY DEF QueueInv, ClaimsOK, SoleHolder, LeaseLive
<1> QED
  BY <1>1, QueueInvariant, PTL

\* A worker's turn leaves the other workers alone.
LEMMA TurnIsOwn ==
  ASSUME QueueTypeOK, NEW v \in Workers, NEW w \in Workers, v # w, Turn(v)
  PROVE  worker'[w] = worker[w]
<1>1. ASSUME NEW s, worker' = [worker EXCEPT ![v] = s] PROVE worker'[w] = worker[w]
  BY <1>1 DEF QueueTypeOK
<1>2. ASSUME NEW p, Goto(v, p) PROVE worker'[w] = worker[w]
  BY <1>2 DEF QueueTypeOK, Goto
<1>3. ASSUME NEW f, FailWith(v, f) PROVE worker'[w] = worker[w]
  BY <1>3 DEF QueueTypeOK, FailWith
<1>4. ASSUME NEW c \in Commands, Claim(v, c) PROVE worker'[w] = worker[w]
  BY <1>1, <1>4 DEF Claim
<1>5. CASE HandlerMissing(v)
  BY <1>3, <1>5 DEF HandlerMissing
<1>6. CASE Renew(v)
  BY <1>2, <1>3, <1>6 DEF Renew
<1>7. CASE Load(v)
  BY <1>7 DEF Load, QueueTypeOK
<1>8. ASSUME NEW f \in Failure, HandlerThrows(v, f) PROVE worker'[w] = worker[w]
  BY <1>3, <1>8 DEF HandlerThrows
<1>9. ASSUME NEW out \in Outcomes, NEW children, Complete(v, out, children)
      PROVE  worker'[w] = worker[w]
  BY <1>1, <1>9 DEF Complete
<1>10. ASSUME NEW out \in Outcomes, CompletionRefused(v, out) PROVE worker'[w] = worker[w]
  BY <1>3, <1>10 DEF CompletionRefused
<1>11. CASE Retry(v)
  BY <1>1, <1>11 DEF Retry
<1>12. CASE RetryRefused(v)
  BY <1>1, <1>12 DEF RetryRefused
<1>13. CASE Crash(v)
  BY <1>1, <1>13 DEF Crash
<1> QED
  BY <1>4, <1>5, <1>6, <1>7, <1>8, <1>9, <1>10, <1>11, <1>12, <1>13 DEF Turn

\* The only turns that write when a worker reports are Complete and Retry.
LEMMA ReportIsCompleteOrRetry ==
  ASSUME QueueTypeOK, NEW w \in Workers, worker[w].pc \in {"running", "failing"},
         worker'[w] = Idle, <<journal, cmd>>' # <<journal, cmd>>, QueueNext
  PROVE  Retry(w) \/ \E out \in Outcomes, children \in SUBSET Siblings(w) : Complete(w, out, children)
<1>1. worker'[w] # worker[w]
  BY DEF Idle
<1>2. ASSUME NEW c, Enqueue(c) \/ DeadlinePasses(c) PROVE FALSE
  BY <1>1, <1>2 DEF Enqueue, DeadlinePasses
<1>3. Turn(w)
  BY <1>1, <1>2, TurnIsOwn DEF QueueNext
<1>4. ~\E c \in Commands : Claim(w, c)
  BY DEF Claim
<1>5. ~(HandlerMissing(w) \/ Renew(w) \/ Load(w) \/ RetryRefused(w) \/ Crash(w))
  BY DEF HandlerMissing, Renew, Load, RetryRefused, Crash
<1>6. ~(\E f \in Failure : HandlerThrows(w, f)) /\ ~(\E out \in Outcomes : CompletionRefused(w, out))
  BY DEF HandlerThrows, CompletionRefused
<1> QED
  BY <1>3, <1>4, <1>5, <1>6 DEF Turn

\* For any number of workers, only the holder of the latest claim, while its
\* lease lasts, moves a leased command on, and it writes no journal but that of
\* the command's run.
THEOREM HolderReports == QueueSpec => OnlyTheHolderReports
<1> DEFINE Reports(w) ==
      worker[w].pc \in {"running", "failing"} /\ worker'[w] = Idle
        /\ <<journal, cmd>>' # <<journal, cmd>>
      => LET c == worker[w].cmd IN
         /\ cmd[c].attempts = worker[w].token /\ ~cmd[c].elapsed
         /\ cmd[c].status = "leased" /\ cmd'[c].status # "leased"
         /\ \A r \in Runs \ {RunOf[c]} : journal'[r] = journal[r]
<1>1. ASSUME QueueInv, NEW w \in Workers, Busy(w), LeaseLive(w),
             NEW evs, journal' = [journal EXCEPT ![RunOf[worker[w].cmd]] = @ \o evs],
             NEW s \in Status \ {"absent", "leased"},
             cmd'[worker[w].cmd] = Released(worker[w].cmd, s)
      PROVE  Reports(w)
  <2>1. worker[w].cmd \in Commands
    BY <1>1 DEF QueueInv, ClaimsOK
  <2>2. Released(worker[w].cmd, s).status = s
    BY <2>1 DEF Released, QueueInv, QueueTypeOK, CommandRow
  <2>3. \A r \in Runs \ {RunOf[worker[w].cmd]} : journal'[r] = journal[r]
    BY <1>1 DEF QueueInv, QueueTypeOK
  <2>4. cmd[worker[w].cmd].attempts = worker[w].token
    BY <1>1, <2>1 DEF LeaseLive, QueueInv, QueueTypeOK, RowOK
  <2> QED
    BY <1>1, <2>2, <2>3, <2>4 DEF LeaseLive
<1>2. ASSUME QueueInv, NEW w \in Workers, NEW out \in Outcomes, NEW children,
             Complete(w, out, children)
      PROVE  Reports(w)
  <2>1. Busy(w) /\ worker[w].cmd \in Commands /\ LeaseLive(w)
    BY <1>2 DEF Complete, CompletionAccepted, Busy, QueueInv, ClaimsOK
  <2>2. /\ journal' = [journal EXCEPT ![RunOf[worker[w].cmd]] = @ \o OutcomeEvents(worker[w].cmd, out)]
        /\ cmd'[worker[w].cmd] = Released(worker[w].cmd, "succeeded")
    BY <1>2, <2>1 DEF Complete
  <2>3. "succeeded" \in Status \ {"absent", "leased"}
    BY DEF Status
  <2> QED
    BY <1>1, <1>2, <2>1, <2>2, <2>3
<1>3. ASSUME QueueInv, NEW w \in Workers, Retry(w)
      PROVE  Reports(w)
  <2> DEFINE s == IF worker[w].failure = "terminal" THEN "dead" ELSE "queued"
  <2>1. Busy(w) /\ worker[w].cmd \in Commands /\ LeaseLive(w)
    BY <1>3 DEF Retry, RetryAccepted, Busy, QueueInv, ClaimsOK
  <2>2. /\ journal' = [journal EXCEPT ![RunOf[worker[w].cmd]] =
                         @ \o RetryEvents(worker[w].cmd, worker[w].failure)]
        /\ cmd'[worker[w].cmd] = Released(worker[w].cmd, s)
    BY <1>3, <2>1 DEF Retry
  <2>3. s \in Status \ {"absent", "leased"}
    BY DEF Status
  <2> HIDE DEF s
  <2> QED
    BY <1>1, <1>3, <2>1, <2>2, <2>3
<1>4. QueueInv /\ [QueueNext]_queueVars => [\A w \in Workers : Reports(w)]_queueVars
  <2> SUFFICES ASSUME QueueInv, QueueNext, NEW w \in Workers,
                      worker[w].pc \in {"running", "failing"}, worker'[w] = Idle,
                      <<journal, cmd>>' # <<journal, cmd>>
               PROVE  Reports(w)
    BY DEF queueVars
  <2>1. Retry(w) \/ \E out \in Outcomes, children \in SUBSET Siblings(w) : Complete(w, out, children)
    BY ReportIsCompleteOrRetry DEF QueueInv
  <2> QED
    BY <1>2, <1>3, <2>1
<1> QED
  BY <1>4, QueueInvariant, PTL DEF QueueSpec, OnlyTheHolderReports

---------------------------------------------------------------------------
(* What appending does to a journal.                                       *)

Journals == Seq(Event(Commands))

\* Journal t is journal j with the events evs appended.
Extension(t, j, evs) ==
  /\ j \in Journals /\ evs \in Journals /\ t \in Journals
  /\ t = j \o evs
  /\ Len(j) \in Nat /\ Len(evs) \in Nat /\ Len(t) = Len(j) + Len(evs)
  /\ DOMAIN j = 1..Len(j) /\ DOMAIN evs = 1..Len(evs) /\ DOMAIN t = 1..Len(t)
  /\ \A i \in 1..Len(j) : t[i] = j[i]
  /\ \A i \in 1..Len(evs) : t[Len(j) + i] = evs[i]
  /\ \A k \in 1..Len(t) : k > Len(j) =>
       k - Len(j) \in 1..Len(evs) /\ t[k] = evs[k - Len(j)]

LEMMA Appended ==
  ASSUME NEW j \in Journals, NEW evs \in Journals
  PROVE  Extension(j \o evs, j, evs)
<1>1. /\ j \o evs \in Seq(Event(Commands))
      /\ Len(j \o evs) = Len(j) + Len(evs)
      /\ \A i \in 1..(Len(j) + Len(evs)) :
           (j \o evs)[i] = IF i <= Len(j) THEN j[i] ELSE evs[i - Len(j)]
  BY ConcatProperties DEF Journals
<1>2. /\ Len(j) \in Nat /\ DOMAIN j = 1..Len(j)
      /\ Len(evs) \in Nat /\ DOMAIN evs = 1..Len(evs)
  BY LenProperties DEF Journals
<1>3. DOMAIN (j \o evs) = 1..(Len(j) + Len(evs))
  BY <1>1, LenProperties
<1> HIDE DEF Journals
<1>4. \A i \in 1..Len(j) : (j \o evs)[i] = j[i]
  BY <1>1, <1>2
<1>5. \A i \in 1..Len(evs) : (j \o evs)[Len(j) + i] = evs[i]
  <2> TAKE i \in 1..Len(evs)
  <2>1. Len(j) + i \in 1..(Len(j) + Len(evs)) /\ ~(Len(j) + i <= Len(j)) /\ (Len(j) + i) - Len(j) = i
    BY <1>2
  <2> QED BY <1>1, <2>1
<1>6. \A k \in 1..(Len(j) + Len(evs)) : k > Len(j) =>
        k - Len(j) \in 1..Len(evs) /\ (j \o evs)[k] = evs[k - Len(j)]
  BY <1>1, <1>2
<1> QED
  BY <1>1, <1>2, <1>3, <1>4, <1>5, <1>6 DEF Journals, Extension

LEMMA NotEmpty ==
  ASSUME NEW evs \in Journals, evs # <<>>
  PROVE  Len(evs) \in Nat /\ Len(evs) > 0 /\ Len(evs) \in 1..Len(evs)
<1>1. Len(evs) \in Nat \ {0}
  BY EmptySeq DEF Journals
<1> QED
  BY <1>1

\* Before the last event of an accepted batch nothing has ended the run.
LEMMA OpenBeforeLast ==
  ASSUME NEW t, NEW j, NEW evs, Extension(t, j, evs), AcceptsAll(j, evs),
         NEW k \in 1..Len(t), k # Len(t), evs # <<>>
  PROVE  ~Closes(t[k])
<1> DEFINE last   == Len(evs)
           before == SubSeq(evs, 1, last - 1)
           open   == j \o before
<1>1. last \in Nat /\ last > 0 /\ last \in DOMAIN evs
  BY NotEmpty DEF Extension
<1>2. /\ before \in Journals /\ Len(before) = last - 1
      /\ \A i \in 1..(last - 1) : before[i] = evs[i]
  <2>1. last - 1 \in Int /\ \A i \in 1..(last - 1) : i \in 1..Len(evs)
    BY <1>1
  <2>2. \A i \in 1..(last - 1) : evs[i] \in Event(Commands)
    BY <2>1, ElementOfSeq DEF Extension, Journals
  <2>3. /\ SubSeq(evs, 1, last - 1) \in Seq(Event(Commands))
        /\ Len(SubSeq(evs, 1, last - 1)) = IF 1 <= last - 1 THEN last - 1 - 1 + 1 ELSE 0
        /\ \A i \in 1..(last - 1 - 1 + 1) : SubSeq(evs, 1, last - 1)[i] = evs[1 + i - 1]
    BY <2>1, <2>2, SubSeqProperties
  <2>4. last - 1 - 1 + 1 = last - 1 /\ \A i \in 1..(last - 1) : 1 + i - 1 = i
    BY <1>1
  <2> QED BY <1>1, <2>3, <2>4 DEF Journals
<1>3. Accepts(open, evs[last])
  BY <1>1 DEF AcceptsAll
<1>4. ~Terminal(open)
  BY <1>3 DEF Accepts
<1>5. Extension(open, j, before)
  BY <1>2, Appended DEF Extension
<1>6. k \in DOMAIN open /\ open[k] = t[k]
  <2> HIDE DEF before, last, open
  <2>1. k \in 1..Len(open)
    BY <1>1, <1>2, <1>5 DEF last, Extension
  <2>2. CASE k <= Len(j)
    BY <2>1, <2>2, <1>5 DEF Extension
  <2>3. CASE ~(k <= Len(j))
    <3>1. k > Len(j)
      BY <2>3, <1>5 DEF Extension
    <3>2. k - Len(j) \in 1..(last - 1) /\ open[k] = before[k - Len(j)]
      BY <2>1, <3>1, <1>2, <1>5 DEF Extension
    <3>3. t[k] = evs[k - Len(j)]
      BY <3>1 DEF Extension
    <3> QED BY <2>1, <3>2, <3>3, <1>2, <1>5 DEF Extension
  <2> QED BY <2>2, <2>3
<1> QED
  BY <1>4, <1>6 DEF Terminal

\* Nothing follows the end of a run.
Ended(j) == \A i \in DOMAIN j : Closes(j[i]) => i = Len(j)

LEMMA NothingAppended ==
  ASSUME NEW t, NEW j, Extension(t, j, <<>>)
  PROVE  t = j
  BY ConcatEmptySeq DEF Extension, Journals

LEMMA EndStaysLast ==
  ASSUME NEW t, NEW j, NEW evs, Extension(t, j, evs), Ended(j), AcceptsAll(j, evs)
  PROVE  Ended(t)
<1>1. CASE evs = <<>>
  BY <1>1, NothingAppended
<1>2. CASE evs # <<>>
  <2>1. DOMAIN t = 1..Len(t)
    BY DEF Extension
  <2> QED BY <1>2, <2>1, OpenBeforeLast DEF Ended
<1> QED BY <1>1, <1>2

LEMMA EventsAreKept ==
  ASSUME NEW t, NEW j, NEW evs, Extension(t, j, evs), NEW i \in DOMAIN j
  PROVE  i \in DOMAIN t /\ t[i] = j[i]
  BY DEF Extension

LEMMA EndIsKept ==
  ASSUME NEW t, NEW j, NEW evs, Extension(t, j, evs), Terminal(j)
  PROVE  Terminal(t)
  BY EventsAreKept DEF Terminal

---------------------------------------------------------------------------
(* What appending does to the recovery evidence.                           *)

LEMMA RecoveryNeverCloses == \A e : IsRecovery(e) => ~Closes(e)
  BY DEF IsRecovery, Closes, RecoveryTypes

\* Recovery events are added to those in force ...
LEMMA RecentGrows ==
  ASSUME NEW t, NEW j, NEW evs, Extension(t, j, evs), NEW c,
         \A i \in 1..Len(evs) : IsRecovery(evs[i])
  PROVE  /\ RecentAt(j, c) \subseteq RecentAt(t, c)
         /\ \A i \in RecentAt(t, c) : i \in RecentAt(j, c) \/ i > Len(j)
         /\ \A i \in 1..Len(evs) : evs[i].cmd = c => Len(j) + i \in RecentAt(t, c)
<1>1. \A k \in 1..Len(t) : k > Len(j) => IsRecovery(t[k])
  BY DEF Extension
<1>2. RecentAt(j, c) \subseteq RecentAt(t, c)
  <2> SUFFICES ASSUME NEW i \in RecentAt(j, c) PROVE i \in RecentAt(t, c)
    OBVIOUS
  <2>1. i \in 1..Len(j) /\ IsRecovery(j[i]) /\ j[i].cmd = c
        /\ \A k \in 1..Len(j) : k > i => IsRecovery(j[k])
    BY DEF RecentAt, Extension
  <2>2. i \in 1..Len(t) /\ t[i] = j[i]
    BY <2>1 DEF Extension
  <2>3. \A k \in 1..Len(t) : k > i => IsRecovery(t[k])
    BY <2>1, <1>1 DEF Extension
  <2> QED BY <2>1, <2>2, <2>3 DEF RecentAt, Extension
<1>3. ASSUME NEW i \in RecentAt(t, c), ~(i > Len(j)) PROVE i \in RecentAt(j, c)
  <2>1. i \in 1..Len(t) /\ IsRecovery(t[i]) /\ t[i].cmd = c
        /\ \A k \in 1..Len(t) : k > i => IsRecovery(t[k])
    BY DEF RecentAt, Extension
  <2>2. i \in 1..Len(j) /\ t[i] = j[i]
    BY <1>3, <2>1 DEF Extension
  <2>3. \A k \in 1..Len(j) : k \in 1..Len(t) /\ t[k] = j[k]
    BY DEF Extension
  <2> QED BY <2>1, <2>2, <2>3 DEF RecentAt, Extension
<1>4. ASSUME NEW i \in 1..Len(evs), evs[i].cmd = c PROVE Len(j) + i \in RecentAt(t, c)
  <2>1. Len(j) + i \in 1..Len(t) /\ t[Len(j) + i] = evs[i]
    BY DEF Extension
  <2>2. \A k \in 1..Len(t) : k > Len(j) + i => k > Len(j)
    BY DEF Extension
  <2>3. \A k \in 1..Len(t) : k > Len(j) + i => IsRecovery(t[k])
    BY <1>1, <2>2
  <2> QED BY <1>4, <2>1, <2>3 DEF RecentAt, Extension
<1> QED
  BY <1>2, <1>3, <1>4

\* ... and leave that of the other commands as it was.
LEMMA OthersUnresolved ==
  ASSUME NEW t, NEW j, NEW evs, Extension(t, j, evs), NEW c,
         \A i \in 1..Len(evs) : IsRecovery(evs[i]) /\ evs[i].cmd # c
  PROVE  /\ UnresolvedAt(t, c) = UnresolvedAt(j, c)
         /\ \A i \in UnresolvedAt(j, c) : t[i] = j[i]
<1>1. RecentAt(t, c) = RecentAt(j, c)
  <2>1. ASSUME NEW i \in RecentAt(t, c), i > Len(j) PROVE FALSE
    <3>1. i \in 1..Len(t) /\ t[i].cmd = c
      BY DEF RecentAt, Extension
    <3> QED BY <2>1, <3>1 DEF Extension
  <2>2. /\ RecentAt(j, c) \subseteq RecentAt(t, c)
        /\ \A i \in RecentAt(t, c) : i \in RecentAt(j, c) \/ i > Len(j)
    BY RecentGrows
  <2> QED BY <2>1, <2>2
<1>2. \A i \in RecentAt(j, c) : t[i] = j[i]
  BY DEF RecentAt, Extension
<1> QED
  BY <1>1, <1>2 DEF UnresolvedAt

\* A batch that ends with a lifecycle event supersedes all recovery evidence.
LEMMA MovedOn ==
  ASSUME NEW t, NEW j, NEW evs, Extension(t, j, evs), NEW c,
         evs # <<>>, ~IsRecovery(evs[Len(evs)])
  PROVE  RecentAt(t, c) = {}
<1>1. Len(evs) \in 1..Len(evs)
  BY NotEmpty DEF Extension
<1>2. Len(t) \in 1..Len(t) /\ t[Len(t)] = evs[Len(evs)]
  BY <1>1 DEF Extension
<1>3. \A i \in 1..Len(t) : i = Len(t) \/ Len(t) > i
  BY DEF Extension
<1>4. DOMAIN t = 1..Len(t)
  BY DEF Extension
<1> QED
  BY <1>2, <1>3, <1>4 DEF RecentAt

\* So does the end of a run.
LEMMA NothingRecentAtTheEnd ==
  ASSUME NEW j \in Journals, NEW c, Terminal(j), Ended(j)
  PROVE  RecentAt(j, c) = {}
<1>1. PICK i \in DOMAIN j : Closes(j[i]) /\ i = Len(j)
  BY DEF Terminal, Ended
<1>2. DOMAIN j = 1..Len(j) /\ Len(j) \in Nat
  BY LenProperties DEF Journals
<1>3. Len(j) \in DOMAIN j /\ \A k \in DOMAIN j : k = Len(j) \/ Len(j) > k
  BY <1>1, <1>2
<1>4. ~IsRecovery(j[Len(j)])
  BY <1>1, RecoveryNeverCloses
<1> QED
  BY <1>3, <1>4, Zenon DEF RecentAt

\* A batch whose last event resumes the command leaves nothing unresolved.
LEMMA ResumeResolves ==
  ASSUME NEW t, NEW j, NEW evs, Extension(t, j, evs), NEW c,
         \A i \in 1..Len(evs) : IsRecovery(evs[i]) /\ evs[i].cmd = c,
         evs # <<>>, evs[Len(evs)].type = "RUN_RESUMED"
  PROVE  UnresolvedAt(t, c) = {}
<1>1. Len(evs) \in 1..Len(evs)
  BY NotEmpty DEF Extension
<1>2. Len(t) = Len(j) + Len(evs) /\ t[Len(j) + Len(evs)] = evs[Len(evs)]
  BY <1>1 DEF Extension
<1>3. Len(t) \in RecentAt(t, c) /\ t[Len(t)].type = "RUN_RESUMED"
  BY <1>1, <1>2, RecentGrows
<1>4. \A i \in 1..Len(t) : i = Len(t) \/ Len(t) > i
  BY DEF Extension
<1>5. \A i \in RecentAt(t, c) : i \in 1..Len(t)
  BY DEF RecentAt, Extension
<1> QED
  BY <1>3, <1>4, <1>5 DEF UnresolvedAt

\* An announcement is the only unresolved event of a command that had none.
LEMMA AnnouncementIsUnresolved ==
  ASSUME NEW t, NEW j, NEW e, Extension(t, j, <<e>>), NEW c,
         IsRecovery(e), UnresolvedAt(j, c) = {}
  PROVE  \A i \in UnresolvedAt(t, c) : t[i] = e
<1>1. Len(<<e>>) = 1 /\ \A i \in 1..Len(<<e>>) : IsRecovery(<<e>>[i])
  OBVIOUS
<1>2. /\ RecentAt(j, c) \subseteq RecentAt(t, c)
      /\ \A i \in RecentAt(t, c) : i \in RecentAt(j, c) \/ i > Len(j)
  BY <1>1, RecentGrows
<1>3. \A i \in RecentAt(j, c) : t[i] = j[i]
  BY DEF RecentAt, Extension
<1>4. ASSUME NEW i \in UnresolvedAt(t, c), i \in RecentAt(j, c) PROVE FALSE
  BY <1>2, <1>3, <1>4 DEF UnresolvedAt
<1>5. ASSUME NEW i \in 1..Len(t), i > Len(j) PROVE t[i] = e
  <2>1. i - Len(j) \in 1..1 /\ t[i] = <<e>>[i - Len(j)]
    BY <1>1, <1>5 DEF Extension
  <2>2. i - Len(j) = 1
    BY <2>1
  <2> QED BY <2>1, <2>2
<1>6. \A i \in UnresolvedAt(t, c) : i \in 1..Len(t) /\ i \in RecentAt(t, c)
  BY DEF UnresolvedAt, RecentAt, Extension
<1> QED
  BY <1>2, <1>4, <1>5, <1>6

---------------------------------------------------------------------------
(* What the operations append.                                             *)

\* The events evs of command c are appended to the journal of its run.
Writes(c, evs) ==
  /\ c \in Commands /\ RunOf[c] \in Runs
  /\ Extension(journal'[RunOf[c]], JournalOf(c), evs)
  /\ AcceptsAll(JournalOf(c), evs)
  /\ \A i \in 1..Len(evs) : evs[i].cmd = c
  /\ \A r \in Runs : r # RunOf[c] => journal'[r] = journal[r]

LEMMA WriteStep ==
  ASSUME QueueInv, NEW c \in Commands, NEW evs \in Journals,
         journal' = [journal EXCEPT ![RunOf[c]] = @ \o evs],
         AcceptsAll(JournalOf(c), evs), \A i \in 1..Len(evs) : evs[i].cmd = c
  PROVE  Writes(c, evs)
<1>1. RunOf[c] \in Runs
  BY QueueAssumption
<1>2. journal \in [Runs -> Journals]
  BY DEF QueueInv, QueueTypeOK, Journals
<1>3. journal'[RunOf[c]] = JournalOf(c) \o evs
  BY <1>1, <1>2 DEF JournalOf
<1>4. Extension(journal'[RunOf[c]], JournalOf(c), evs)
  BY <1>1, <1>2, <1>3, Appended DEF JournalOf
<1> QED
  BY <1>1, <1>2, <1>4 DEF Writes

LEMMA TwoEvents ==
  ASSUME NEW d \in Event(Commands), NEW e \in Event(Commands)
  PROVE  /\ Len(<<d>> \o <<e>>) = 2
         /\ (<<d>> \o <<e>>)[1] = d /\ (<<d>> \o <<e>>)[2] = e
<1>1. <<d>> \in Journals /\ <<e>> \in Journals /\ Len(<<d>>) = 1 /\ Len(<<e>>) = 1
  BY DEF Journals
<1>2. Extension(<<d>> \o <<e>>, <<d>>, <<e>>)
  BY <1>1, Appended
<1>3. Len(<<d>> \o <<e>>) = 2
  BY <1>1, <1>2 DEF Extension
<1>4. 1 \in 1..1 /\ 1 + 1 = 2
  OBVIOUS
<1>5. (<<d>> \o <<e>>)[1] = <<d>>[1] /\ (<<d>> \o <<e>>)[1 + 1] = <<e>>[1]
  BY <1>1, <1>2, <1>4 DEF Extension
<1> QED
  BY <1>3, <1>4, <1>5

\* What a claim tells ends with the resume of the attempt; it tells nothing of
\* a later attempt only after the run has moved on.
LEMMA ClaimEventsShape ==
  ASSUME QueueTypeOK, NEW c \in Commands, NEW n \in Nat
  PROVE  /\ \A i \in 1..Len(ClaimEvents(c, n)) :
              LET e == ClaimEvents(c, n)[i] IN
              IsRecovery(e) /\ e.cmd = c /\ e.attempt > 0 /\ c \notin Auxiliary
         /\ ClaimEvents(c, n) # <<>> =>
              ClaimEvents(c, n)[Len(ClaimEvents(c, n))] = RecoveryEvent("RUN_RESUMED", c, n)
         /\ ClaimEvents(c, n) = <<>> /\ n > 1 /\ c \notin Auxiliary =>
              n > 2 /\ RecentAt(JournalOf(c), c) = {}
         /\ n = 1 \/ c \in Auxiliary => ClaimEvents(c, n) = <<>>
<1> DEFINE resume == RecoveryEvent("RUN_RESUMED", c, n)
           expiry == RecoveryEvent("STAGE_RETRY_SCHEDULED", c, n - 1)
           evs    == ClaimEvents(c, n)
<1>1. CASE ~TellsResume(c, n)
  <2>1. ~TellsExpiry(c, n)
    BY <1>1 DEF TellsResume, TellsExpiry, LastResumed
  <2>2. evs = <<>>
    BY <1>1, <2>1, EmptySeq, ConcatEmptySeq DEF ClaimEvents
  <2>3. Len(evs) = 0
    BY <2>2
  <2>4. n > 1 /\ c \notin Auxiliary => n > 2 /\ RecentAt(JournalOf(c), c) = {}
    <3>1. n > 1 /\ c \notin Auxiliary => RecentAt(JournalOf(c), c) = {} /\ n # 2
      BY <1>1 DEF TellsResume
    <3>2. n > 1 /\ n # 2 => n > 2
      OBVIOUS
    <3> QED BY <3>1, <3>2
  <2> HIDE DEF evs
  <2> QED BY <2>2, <2>3, <2>4 DEF evs
<1>2. CASE TellsResume(c, n)
  <2>1. n > 1 /\ n - 1 \in Nat /\ n - 1 > 0 /\ c \notin Auxiliary
    <3>1. n > 1 /\ c \notin Auxiliary
      BY <1>2 DEF TellsResume
    <3> QED BY <3>1
  <2>2. /\ IsRecovery(resume) /\ resume.cmd = c /\ resume.attempt = n
        /\ IsRecovery(expiry) /\ expiry.cmd = c /\ expiry.attempt = n - 1
    BY DEF RecoveryEvent, IsRecovery, RecoveryTypes
  <2>3. resume \in Event(Commands) /\ expiry \in Event(Commands)
    BY <2>1 DEF RecoveryEvent, Event, RecoveryTypes, Infos
  <2>4. resume.attempt > 0 /\ expiry.attempt > 0
    BY <2>1, <2>2
  <2> HIDE DEF resume, expiry
  <2>5. CASE TellsExpiry(c, n)
    <3>1. evs = <<expiry>> \o <<resume>>
      BY <1>2, <2>5 DEF ClaimEvents, resume, expiry
    <3>2. /\ Len(<<expiry>> \o <<resume>>) = 2
          /\ (<<expiry>> \o <<resume>>)[1] = expiry
          /\ (<<expiry>> \o <<resume>>)[2] = resume
      BY <2>3, TwoEvents, Zenon
    <3>3. Len(evs) = 2 /\ evs[1] = expiry /\ evs[2] = resume
      BY <3>1, <3>2, Zenon
    <3>4. evs # <<>>
      BY <3>3
    <3>5. \A i \in 1..2 : i = 1 \/ i = 2
      OBVIOUS
    <3>6. \A i \in 1..Len(evs) :
            IsRecovery(evs[i]) /\ evs[i].cmd = c /\ evs[i].attempt > 0 /\ c \notin Auxiliary
      BY <3>3, <3>5, <2>1, <2>2, <2>4
    <3> QED BY <3>3, <3>4, <3>6, <2>1 DEF resume
  <2>6. CASE ~TellsExpiry(c, n)
    <3>1. evs = <<>> \o <<resume>>
      BY <1>2, <2>6 DEF ClaimEvents, resume
    <3>2. <<resume>> \in Seq(Event(Commands))
      BY <2>3
    <3>3. evs = <<resume>>
      BY <3>1, <3>2, ConcatEmptySeq
    <3>4. Len(evs) = 1 /\ evs[1] = resume /\ evs # <<>>
      BY <3>3
    <3>5. \A i \in 1..1 : i = 1
      OBVIOUS
    <3>6. \A i \in 1..Len(evs) :
            IsRecovery(evs[i]) /\ evs[i].cmd = c /\ evs[i].attempt > 0 /\ c \notin Auxiliary
      BY <3>4, <3>5, <2>1, <2>2, <2>4
    <3> QED BY <3>4, <3>6, <2>1 DEF resume
  <2> QED BY <2>5, <2>6
<1> QED
  BY <1>1, <1>2

LEMMA ClaimWrites ==
  ASSUME QueueInv, NEW w \in Workers, NEW c \in Commands, Claim(w, c)
  PROVE  LET n == cmd[c].attempts + 1 IN
         /\ n \in Nat /\ n > 0
         /\ Writes(c, ClaimEvents(c, n))
         /\ cmd[c].status \in {"queued", "leased"}
         /\ cmd'[c].status = "leased" /\ cmd'[c].attempts = n
         /\ \A d \in Commands : d # c => cmd'[d] = cmd[d]
<1> DEFINE n   == cmd[c].attempts + 1
           row == [status |-> "leased", attempts |-> n, token |-> n, elapsed |-> FALSE]
<1>1. cmd[c].attempts \in Nat /\ n \in Nat /\ n > 0 /\ QueueTypeOK
  BY DEF QueueInv, QueueTypeOK, CommandRow
<1>2. /\ journal' = [journal EXCEPT ![RunOf[c]] = @ \o ClaimEvents(c, n)]
      /\ cmd' = [cmd EXCEPT ![c] = row]
      /\ cmd[c].status \in {"queued", "leased"}
      /\ AcceptsAll(JournalOf(c), ClaimEvents(c, n))
  BY DEF Claim, Claimable, Reclaimable
<1>3. ClaimEvents(c, n) \in Journals
  BY <1>1, ClaimEventsType DEF Journals
<1>4. row.status = "leased" /\ row.attempts = n
  OBVIOUS
<1>5. cmd'[c] = row /\ \A d \in Commands : d # c => cmd'[d] = cmd[d]
  <2> HIDE DEF row
  <2> QED BY <1>1, <1>2 DEF QueueTypeOK
<1>6. Writes(c, ClaimEvents(c, n))
  <2>1. \A i \in 1..Len(ClaimEvents(c, n)) : ClaimEvents(c, n)[i].cmd = c
    BY <1>1, ClaimEventsShape
  <2> HIDE DEF n
  <2> QED BY <1>2, <1>3, <2>1, WriteStep
<1> HIDE DEF row
<1> QED
  BY <1>1, <1>2, <1>4, <1>5, <1>6

LEMMA OutcomeEventsShape ==
  ASSUME NEW c \in Commands, NEW out \in Outcomes
  PROVE  /\ Len(OutcomeEvents(c, out)) = Len(out) /\ Len(out) \in Nat
         /\ \A i \in 1..Len(out) :
              LET e == OutcomeEvents(c, out)[i] IN
              /\ e = LifecycleEvent(c, i, out[i])
              /\ e.cmd = c /\ ~IsRecovery(e) /\ e.type = out[i].type
              /\ e.type \in LifecycleTypes \ {"RUN_CREATED"}
<1> DEFINE Effect == [type : LifecycleTypes \ {"RUN_CREATED"}, info : Infos]
<1>1. out \in Seq(Effect)
  BY QueueAssumption
<1>2. Len(out) \in Nat
  BY <1>1, LenProperties
<1>3. DOMAIN OutcomeEvents(c, out) = 1..Len(out)
  BY DEF OutcomeEvents
<1>4. Len(OutcomeEvents(c, out)) = Len(out)
  <2>1. OutcomeEvents(c, out) \in Seq(Event(Commands))
    BY OutcomeEventsType
  <2>2. /\ DOMAIN OutcomeEvents(c, out) = 1..Len(OutcomeEvents(c, out))
        /\ Len(OutcomeEvents(c, out)) \in Nat
    BY <2>1, LenProperties
  <2> QED BY <1>2, <1>3, <2>2
<1>5. ASSUME NEW i \in 1..Len(out)
      PROVE  LET e == OutcomeEvents(c, out)[i] IN
             /\ e = LifecycleEvent(c, i, out[i])
             /\ e.cmd = c /\ ~IsRecovery(e) /\ e.type = out[i].type
             /\ e.type \in LifecycleTypes \ {"RUN_CREATED"}
  <2>1. OutcomeEvents(c, out)[i] = LifecycleEvent(c, i, out[i])
    BY DEF OutcomeEvents
  <2>2. out[i] \in Effect
    <3> HIDE DEF Effect
    <3> QED BY <1>1, ElementOfSeq
  <2>3. out[i].type \in LifecycleTypes \ {"RUN_CREATED"}
    BY <2>2
  <2>4. LifecycleEvent(c, i, out[i]).type = out[i].type /\ LifecycleEvent(c, i, out[i]).cmd = c
    BY DEF LifecycleEvent
  <2>5. \A t \in LifecycleTypes : t \notin RecoveryTypes
    BY DEF LifecycleTypes, Lifecycle, RecoveryTypes
  <2> QED BY <2>1, <2>3, <2>4, <2>5 DEF IsRecovery
<1> QED
  BY <1>2, <1>4, <1>5

LEMMA CompleteWrites ==
  ASSUME QueueInv, NEW w \in Workers, NEW out \in Outcomes, NEW children,
         Complete(w, out, children)
  PROVE  LET c == worker[w].cmd IN
         /\ Writes(c, OutcomeEvents(c, out))
         /\ cmd[c].status = "leased" /\ cmd'[c].status = "succeeded"
         /\ cmd'[c].attempts = cmd[c].attempts
         /\ \A d \in Commands : d # c =>
              cmd'[d] = cmd[d] \/ (cmd[d].status = "absent" /\ cmd'[d] = Fresh)
<1> DEFINE c == worker[w].cmd
<1>1. Busy(w) /\ c \in Commands /\ QueueTypeOK
  BY DEF Complete, Busy, QueueInv, ClaimsOK
<1>2. /\ journal' = [journal EXCEPT ![RunOf[c]] = @ \o OutcomeEvents(c, out)]
      /\ cmd' = [d \in Commands |->
                   IF d = c THEN Released(c, "succeeded")
                   ELSE IF d \in children /\ cmd[d].status = "absent" THEN Fresh
                   ELSE cmd[d]]
      /\ AcceptsAll(JournalOf(c), OutcomeEvents(c, out))
      /\ cmd[c].status = "leased"
  BY DEF Complete, CompletionAccepted, LeaseLive
<1>3. OutcomeEvents(c, out) \in Journals
  BY <1>1, OutcomeEventsType DEF Journals
<1>4. \A i \in 1..Len(OutcomeEvents(c, out)) : OutcomeEvents(c, out)[i].cmd = c
  BY <1>1, OutcomeEventsShape
<1>5. Writes(c, OutcomeEvents(c, out))
  <2> HIDE DEF c
  <2> QED BY <1>1, <1>2, <1>3, <1>4, WriteStep
<1>6. Released(c, "succeeded").status = "succeeded" /\ Released(c, "succeeded").attempts = cmd[c].attempts
  BY <1>1 DEF Released, QueueTypeOK, CommandRow
<1>7. cmd'[c] = Released(c, "succeeded")
  BY <1>1, <1>2
<1>8. \A d \in Commands : d # c =>
        cmd'[d] = cmd[d] \/ (cmd[d].status = "absent" /\ cmd'[d] = Fresh)
  BY <1>2
<1> QED
  BY <1>2, <1>5, <1>6, <1>7, <1>8

\* What a retry appends: the announcement of the attempt, the failure of the
\* run, or nothing when the run is over or the command is auxiliary.
LEMMA RetryEventsShape ==
  ASSUME NEW c \in Commands, NEW f \in Failure
  PROVE  \/ c \in Auxiliary /\ RetryEvents(c, f) = <<>>
         \/ /\ c \notin Auxiliary /\ f # "terminal"
            /\ \E type \in {"STAGE_WAITING", "STAGE_RETRY_SCHEDULED"} :
                 RetryEvents(c, f) = <<RecoveryEvent(type, c, cmd[c].attempts)>>
         \/ /\ c \notin Auxiliary /\ f = "terminal" /\ Terminal(JournalOf(c))
            /\ RetryEvents(c, f) = <<>>
         \/ /\ c \notin Auxiliary /\ f = "terminal" /\ ~Terminal(JournalOf(c))
            /\ RetryEvents(c, f) =
                 <<LifecycleEvent(c, 1, [type |-> "RUN_FAILED", info |-> StageOf[c]])>>
  BY DEF RetryEvents, Failure

LEMMA RetryWrites ==
  ASSUME QueueInv, NEW w \in Workers, Retry(w)
  PROVE  LET c == worker[w].cmd
             f == worker[w].failure IN
         /\ f \in Failure
         /\ Writes(c, RetryEvents(c, f))
         /\ cmd[c].status = "leased" /\ cmd[c].attempts > 0
         /\ cmd'[c].status = IF f = "terminal" THEN "dead" ELSE "queued"
         /\ cmd'[c].attempts = cmd[c].attempts
         /\ \A d \in Commands : d # c =>
              \/ cmd'[d] = cmd[d]
              \/ /\ f = "terminal" /\ c \notin Auxiliary /\ RunOf[d] = RunOf[c]
                 /\ cmd[d].status \in {"queued", "leased"}
                 /\ cmd'[d].status = "cancelled" /\ cmd'[d].attempts = cmd[d].attempts
<1> DEFINE c == worker[w].cmd
           f == worker[w].failure
           s == IF f = "terminal" THEN "dead" ELSE "queued"
<1>1. Busy(w) /\ c \in Commands /\ f \in Failure /\ QueueTypeOK
  BY DEF Retry, Busy, QueueInv, ClaimsOK
<1>2. /\ journal' = [journal EXCEPT ![RunOf[c]] = @ \o RetryEvents(c, f)]
      /\ cmd' = [d \in Commands |->
                   IF d = c THEN Released(c, s)
                   ELSE IF d \in Cancelled(c, f) THEN Released(d, "cancelled")
                   ELSE cmd[d]]
      /\ AcceptsAll(JournalOf(c), RetryEvents(c, f))
      /\ cmd[c].status = "leased"
  BY DEF Retry, RetryAccepted, LeaseLive
<1>3. RetryEvents(c, f) \in Journals
  BY <1>1, RetryEventsType DEF Journals
<1>4. \A i \in 1..Len(RetryEvents(c, f)) : RetryEvents(c, f)[i].cmd = c
  <2>1. ASSUME NEW e, e.cmd = c PROVE \A i \in 1..Len(<<e>>) : <<e>>[i].cmd = c
    BY <2>1
  <2>2. \A i \in 1..Len(<<>>) : <<>>[i].cmd = c
    OBVIOUS
  <2>3. \A type, n : RecoveryEvent(type, c, n).cmd = c
    BY DEF RecoveryEvent
  <2>4. \A effect : LifecycleEvent(c, 1, effect).cmd = c
    BY DEF LifecycleEvent
  <2>5. RetryEvents(c, f) = <<>> \/ \E e : e.cmd = c /\ RetryEvents(c, f) = <<e>>
    <3> HIDE DEF c, f
    <3> QED BY <1>1, <2>3, <2>4, RetryEventsShape
  <2> HIDE DEF c, f
  <2> QED BY <2>1, <2>2, <2>5
<1>5. Writes(c, RetryEvents(c, f))
  <2> HIDE DEF c, f, s
  <2> QED BY <1>1, <1>2, <1>3, <1>4, WriteStep
<1>6. \A d \in Commands : \A t :
        Released(d, t).status = t /\ Released(d, t).attempts = cmd[d].attempts
  BY <1>1 DEF Released, QueueTypeOK, CommandRow
<1>7. cmd[c].attempts > 0
  <2>1. worker[w].token \in 1..cmd[c].attempts /\ cmd[c].attempts \in Nat
    BY <1>1 DEF QueueInv, ClaimsOK, QueueTypeOK, CommandRow
  <2> QED BY <2>1
<1>8. cmd'[c] = Released(c, s)
  BY <1>1, <1>2
<1>9. \A d \in Commands : d # c =>
        \/ cmd'[d] = cmd[d]
        \/ d \in Cancelled(c, f) /\ cmd'[d] = Released(d, "cancelled")
  BY <1>2
<1>10. \A d \in Cancelled(c, f) :
         /\ f = "terminal" /\ c \notin Auxiliary /\ RunOf[d] = RunOf[c]
         /\ cmd[d].status \in {"queued", "leased"}
  BY DEF Cancelled
<1> QED
  BY <1>1, <1>2, <1>5, <1>6, <1>7, <1>8, <1>9, <1>10

---------------------------------------------------------------------------
(* The invariant behind the history: the properties of CommandQueue, and   *)
(* what they rest on.                                                      *)

\* The end of a run is the last event of its journal.
EndIsLast == \A r \in Runs : Ended(journal[r])

\* Recovery evidence is of an attempt that was made, never of an auxiliary
\* command, and only the creation of the run has no command.
EvidenceOK ==
  \A r \in Runs :
    /\ Len(journal[r]) > 0
    /\ \A i \in DOMAIN journal[r] :
         /\ IsRecovery(journal[r][i]) =>
              journal[r][i].attempt > 0 /\ journal[r][i].cmd \notin Auxiliary
         /\ i > 1 => journal[r][i].cmd \in Commands

\* A repeated attempt left evidence, and the attempt that is under way was
\* resumed unless the run had moved on.
EvidenceLeft(c) ==
  \E i \in DOMAIN JournalOf(c) : IsRecovery(JournalOf(c)[i]) /\ JournalOf(c)[i].cmd = c

Resumed(c, n) ==
  \E i \in DOMAIN JournalOf(c) : JournalOf(c)[i] = RecoveryEvent("RUN_RESUMED", c, n)

Overtaken(c) ==
  \E i, k \in DOMAIN JournalOf(c) :
    i < k /\ JournalOf(c)[i].cmd = c /\ ~IsRecovery(JournalOf(c)[k])

Resumption(c) ==
  cmd[c].attempts > 1 =>
    /\ EvidenceLeft(c)
    /\ cmd[c].status = "leased" =>
         Resumed(c, cmd[c].attempts) \/ (cmd[c].attempts > 2 /\ Overtaken(c))

\* The two halves of RecoveryViewAgrees.
Shown(c) ==
  \A i \in UnresolvedAt(JournalOf(c), c) :
    cmd[c].status = "queued" /\ JournalOf(c)[i].attempt = cmd[c].attempts

Announces(e, c, n) ==
  /\ e.type \in {"STAGE_WAITING", "STAGE_RETRY_SCHEDULED"}
  /\ e.cmd = c /\ e.attempt = n

Announced(c) ==
  cmd[c].status = "queued" /\ cmd[c].attempts > 0 /\ c \notin Auxiliary =>
    \E i \in DOMAIN JournalOf(c) : Announces(JournalOf(c)[i], c, cmd[c].attempts)

LEMMA ViewHalves ==
  RecoveryViewAgrees <=> \A c \in Commands : Shown(c) /\ Announced(c)
  BY DEF RecoveryViewAgrees, Shown, Announced, Announces

HistoryInv ==
  /\ EndIsLast /\ EvidenceOK /\ EffectsAreFinal /\ LostWorkIsReported
  /\ \A c \in Commands \ Auxiliary : Resumption(c)
  /\ \A c \in Commands : Shown(c) /\ Announced(c)

\* What a step does to a command: the events of its run stay where they are.
Kept(c) ==
  \A i \in DOMAIN JournalOf(c) :
    i \in DOMAIN journal'[RunOf[c]] /\ journal'[RunOf[c]][i] = JournalOf(c)[i]

LEMMA WritesKeep ==
  ASSUME NEW c, NEW evs, Writes(c, evs), NEW d \in Commands
  PROVE  Kept(d)
<1>1. RunOf[d] \in Runs
  BY QueueAssumption
<1>2. CASE RunOf[d] = RunOf[c]
  BY <1>2, EventsAreKept DEF Writes, Kept, JournalOf
<1>3. CASE RunOf[d] # RunOf[c]
  BY <1>1, <1>3 DEF Writes, Kept, JournalOf
<1> QED BY <1>2, <1>3

LEMMA ResumptionKept ==
  ASSUME NEW c \in Commands, Kept(c), Resumption(c),
         cmd'[c].attempts = cmd[c].attempts,
         cmd'[c].status = "leased" => cmd[c].status = "leased"
  PROVE  Resumption(c)'
<1>1. EvidenceLeft(c) => EvidenceLeft(c)'
  BY DEF Kept, EvidenceLeft, JournalOf
<1>2. \A n : Resumed(c, n) => Resumed(c, n)'
  BY DEF Kept, Resumed, JournalOf
<1>3. Overtaken(c) => Overtaken(c)'
  BY DEF Kept, Overtaken, JournalOf
<1> QED
  BY <1>1, <1>2, <1>3 DEF Resumption

LEMMA AnnouncedKept ==
  ASSUME NEW c \in Commands, Kept(c), Announced(c),
         cmd'[c].status = "queued" /\ cmd'[c].attempts > 0 =>
           cmd[c].status = "queued" /\ cmd[c].attempts = cmd'[c].attempts
  PROVE  Announced(c)'
  BY DEF Announced, Kept, JournalOf

LEMMA ShownKept ==
  ASSUME NEW c \in Commands, Shown(c),
         UnresolvedAt(journal'[RunOf[c]], c) = UnresolvedAt(JournalOf(c), c),
         \A i \in UnresolvedAt(JournalOf(c), c) : journal'[RunOf[c]][i] = JournalOf(c)[i],
         \/ cmd[c].status # "queued"
         \/ cmd'[c].status = cmd[c].status /\ cmd'[c].attempts = cmd[c].attempts
  PROVE  Shown(c)'
  BY DEF Shown, JournalOf

\* A step that writes keeps the end of a run last and its evidence in order.
LEMMA WritesEvidence ==
  ASSUME HistoryInv, NEW c, NEW evs, Writes(c, evs),
         \A i \in 1..Len(evs) : IsRecovery(evs[i]) => evs[i].attempt > 0 /\ c \notin Auxiliary
  PROVE  EndIsLast' /\ EvidenceOK'
<1>1. EndIsLast'
  BY EndStaysLast DEF HistoryInv, EndIsLast, Writes, JournalOf
<1>2. ASSUME NEW r \in Runs
      PROVE  /\ Len(journal'[r]) > 0
             /\ \A i \in DOMAIN journal'[r] :
                  /\ IsRecovery(journal'[r][i]) =>
                       journal'[r][i].attempt > 0 /\ journal'[r][i].cmd \notin Auxiliary
                  /\ i > 1 => journal'[r][i].cmd \in Commands
  <2> DEFINE t == journal'[r]
             j == journal[r]
  <2>1. CASE r # RunOf[c]
    BY <2>1 DEF HistoryInv, EvidenceOK, Writes
  <2>2. CASE r = RunOf[c]
    <3>1. Extension(t, j, evs) /\ c \in Commands /\ \A i \in 1..Len(evs) : evs[i].cmd = c
      BY <2>2 DEF Writes, JournalOf
    <3>2. /\ Len(j) > 0
          /\ \A i \in 1..Len(j) :
               /\ IsRecovery(j[i]) => j[i].attempt > 0 /\ j[i].cmd \notin Auxiliary
               /\ i > 1 => j[i].cmd \in Commands
      BY <3>1 DEF HistoryInv, EvidenceOK, Extension
    <3> HIDE DEF t, j
    <3>3. Len(t) > 0
      BY <3>1, <3>2 DEF Extension
    <3>4. ASSUME NEW i \in 1..Len(t)
          PROVE  /\ IsRecovery(t[i]) => t[i].attempt > 0 /\ t[i].cmd \notin Auxiliary
                 /\ i > 1 => t[i].cmd \in Commands
      <4>1. CASE i > Len(j)
        <5>1. i - Len(j) \in 1..Len(evs) /\ t[i] = evs[i - Len(j)]
          BY <3>1, <4>1 DEF Extension
        <5> QED BY <3>1, <5>1
      <4>2. CASE ~(i > Len(j))
        <5>1. i \in 1..Len(j) /\ t[i] = j[i]
          BY <3>1, <4>2 DEF Extension
        <5> QED BY <3>2, <5>1
      <4> QED BY <4>1, <4>2
    <3>5. DOMAIN t = 1..Len(t)
      BY <3>1 DEF Extension
    <3> QED BY <3>3, <3>4, <3>5 DEF t
  <2> QED BY <2>1, <2>2
<1> QED
  BY <1>1, <1>2 DEF EvidenceOK

\* A step that writes keeps effects final when it moves no finished command and
\* finishes the one whose effect it writes.
LEMMA WritesEffects ==
  ASSUME HistoryInv, NEW c, NEW evs, Writes(c, evs),
         \A d \in Commands : cmd[d].status \in {"succeeded", "dead"} =>
                                cmd'[d].status = cmd[d].status,
         \A i \in 1..Len(evs) : ~IsRecovery(evs[i]) => cmd'[c].status \in {"succeeded", "dead"}
  PROVE  EffectsAreFinal'
<1>1. ASSUME NEW r \in Runs, NEW i \in DOMAIN journal'[r],
             ~IsRecovery(journal'[r][i]), i > 1
      PROVE  /\ RunOf[journal'[r][i].cmd] = r
             /\ cmd'[journal'[r][i].cmd].status \in {"succeeded", "dead"}
  <2>1. ASSUME i \in DOMAIN journal[r], journal'[r][i] = journal[r][i]
        PROVE  /\ RunOf[journal'[r][i].cmd] = r
               /\ cmd'[journal'[r][i].cmd].status \in {"succeeded", "dead"}
    <3>1. journal[r][i].cmd \in Commands
      BY <1>1, <2>1 DEF HistoryInv, EvidenceOK
    <3>2. RunOf[journal[r][i].cmd] = r /\ cmd[journal[r][i].cmd].status \in {"succeeded", "dead"}
      BY <1>1, <2>1 DEF HistoryInv, EffectsAreFinal
    <3> QED BY <2>1, <3>1, <3>2
  <2>2. CASE r # RunOf[c]
    BY <2>1, <2>2 DEF Writes
  <2>3. CASE r = RunOf[c]
    <3>1. Extension(journal'[r], journal[r], evs) /\ \A k \in 1..Len(evs) : evs[k].cmd = c
      BY <2>3 DEF Writes, JournalOf
    <3>2. i \in 1..Len(journal'[r])
      BY <3>1 DEF Extension
    <3>3. CASE i > Len(journal[r])
      <4>1. i - Len(journal[r]) \in 1..Len(evs) /\ journal'[r][i] = evs[i - Len(journal[r])]
        BY <3>1, <3>2, <3>3 DEF Extension
      <4> QED BY <1>1, <2>3, <3>1, <4>1
    <3>4. CASE ~(i > Len(journal[r]))
      <4>1. i \in DOMAIN journal[r] /\ journal'[r][i] = journal[r][i]
        BY <3>1, <3>2, <3>4 DEF Extension
      <4> QED BY <2>1, <4>1
    <3> QED BY <3>3, <3>4
  <2> QED BY <2>2, <2>3
<1> QED
  BY <1>1 DEF EffectsAreFinal

\* A step that writes keeps lost work reported when the commands it kills or
\* cancels are of a run that its events end.
LEMMA WritesLost ==
  ASSUME HistoryInv, NEW c, NEW evs, Writes(c, evs),
         \A d \in Commands :
           \/ cmd'[d].status = cmd[d].status
           \/ cmd'[d].status \notin {"cancelled", "dead"}
           \/ d \in Auxiliary /\ cmd'[d].status = "dead"
           \/ Terminal(journal'[RunOf[d]])
  PROVE  LostWorkIsReported'
<1>1. \A d \in Commands : Terminal(JournalOf(d)) => Terminal(journal'[RunOf[d]])
  <2> TAKE d \in Commands
  <2>1. CASE RunOf[d] = RunOf[c]
    BY <2>1, EndIsKept DEF Writes, JournalOf
  <2>2. CASE RunOf[d] # RunOf[c]
    BY <2>2, QueueAssumption DEF Writes, JournalOf
  <2> QED BY <2>1, <2>2
<1> QED
  BY <1>1 DEF HistoryInv, LostWorkIsReported, JournalOf

\* A step that writes nothing: rows wait, or a row is inserted.
LEMMA QuietHistory ==
  ASSUME QueueInv, HistoryInv, journal' = journal,
         \A d \in Commands :
           /\ cmd'[d].attempts = cmd[d].attempts
           /\ \/ cmd'[d].status = cmd[d].status
              \/ cmd[d].status = "absent" /\ cmd'[d].status = "queued" /\ cmd[d].attempts = 0
  PROVE  HistoryInv'
<1>1. \A d \in Commands : Kept(d) /\ journal'[RunOf[d]] = JournalOf(d)
  BY DEF Kept, JournalOf
<1>2. EndIsLast' /\ EvidenceOK'
  BY DEF HistoryInv, EndIsLast, EvidenceOK
<1>3. EffectsAreFinal'
  BY DEF HistoryInv, EvidenceOK, EffectsAreFinal
<1>4. LostWorkIsReported'
  BY DEF HistoryInv, LostWorkIsReported, JournalOf
<1>5. \A d \in Commands \ Auxiliary : Resumption(d)'
  BY <1>1, ResumptionKept DEF HistoryInv
<1>6. \A d \in Commands : Announced(d)'
  BY <1>1, AnnouncedKept DEF HistoryInv
<1>7. \A d \in Commands : Shown(d)'
  BY <1>1, ShownKept DEF HistoryInv
<1> QED
  BY <1>2, <1>3, <1>4, <1>5, <1>6, <1>7 DEF HistoryInv

\* Other commands under a batch of recovery events of c.
LEMMA OthersShown ==
  ASSUME HistoryInv, NEW c, NEW evs, Writes(c, evs),
         \A i \in 1..Len(evs) : IsRecovery(evs[i]),
         NEW d \in Commands, d # c, cmd'[d] = cmd[d] \/ cmd[d].status # "queued"
  PROVE  Shown(d)'
<1>1. CASE RunOf[d] = RunOf[c]
  <2>1. Extension(journal'[RunOf[d]], JournalOf(d), evs)
    BY <1>1 DEF Writes, JournalOf
  <2>2. \A i \in 1..Len(evs) : IsRecovery(evs[i]) /\ evs[i].cmd # d
    BY DEF Writes
  <2>3. /\ UnresolvedAt(journal'[RunOf[d]], d) = UnresolvedAt(JournalOf(d), d)
        /\ \A i \in UnresolvedAt(JournalOf(d), d) : journal'[RunOf[d]][i] = JournalOf(d)[i]
    BY <2>1, <2>2, OthersUnresolved
  <2> QED BY <2>3, ShownKept DEF HistoryInv
<1>2. CASE RunOf[d] # RunOf[c]
  <2>1. journal'[RunOf[d]] = JournalOf(d)
    BY <1>2, QueueAssumption DEF Writes, JournalOf
  <2> QED BY <2>1, ShownKept DEF HistoryInv
<1> QED BY <1>1, <1>2

\* Nothing of a run is unresolved after a lifecycle event.
LEMMA NothingShown ==
  ASSUME NEW d \in Commands, RecentAt(journal'[RunOf[d]], d) = {}
  PROVE  Shown(d)'
  BY DEF Shown, UnresolvedAt, JournalOf

LEMMA ClaimHistory ==
  ASSUME QueueInv, HistoryInv, NEW w \in Workers, NEW c \in Commands, Claim(w, c)
  PROVE  HistoryInv'
<1>0. PICK n : n = cmd[c].attempts + 1
  OBVIOUS
<1> DEFINE evs == ClaimEvents(c, n)
<1>1. /\ n \in Nat /\ n > 0
      /\ Writes(c, evs)
      /\ cmd[c].status \in {"queued", "leased"}
      /\ cmd'[c].status = "leased" /\ cmd'[c].attempts = n
      /\ \A d \in Commands : d # c => cmd'[d] = cmd[d]
  BY <1>0, ClaimWrites
<1>2. /\ \A i \in 1..Len(evs) :
           IsRecovery(evs[i]) /\ evs[i].cmd = c /\ evs[i].attempt > 0 /\ c \notin Auxiliary
      /\ evs # <<>> => evs[Len(evs)] = RecoveryEvent("RUN_RESUMED", c, n)
      /\ evs = <<>> /\ n > 1 /\ c \notin Auxiliary => n > 2 /\ RecentAt(JournalOf(c), c) = {}
      /\ n = 1 \/ c \in Auxiliary => evs = <<>>
  <2>1. QueueTypeOK
    BY DEF QueueInv
  <2> QED BY <1>1, <2>1, ClaimEventsShape
<1>3. Extension(journal'[RunOf[c]], JournalOf(c), evs)
  BY <1>1 DEF Writes
<1>4. cmd[c].attempts \in Nat /\ n = cmd[c].attempts + 1
  BY <1>0 DEF QueueInv, QueueTypeOK, CommandRow
<1> HIDE DEF evs
<1>5. EndIsLast' /\ EvidenceOK'
  BY <1>1, <1>2, WritesEvidence
<1>6. EffectsAreFinal'
  <2>1. \A d \in Commands : cmd[d].status \in {"succeeded", "dead"} =>
                               cmd'[d].status = cmd[d].status
    BY <1>1
  <2>2. \A i \in 1..Len(evs) : IsRecovery(evs[i])
    BY <1>2
  <2> QED BY <1>1, <2>1, <2>2, WritesEffects
<1>7. LostWorkIsReported'
  <2>1. \A d \in Commands : cmd'[d].status = cmd[d].status
                            \/ cmd'[d].status \notin {"cancelled", "dead"}
    BY <1>1
  <2> QED BY <1>1, <2>1, WritesLost
<1>8. \A d \in Commands : Kept(d)
  BY <1>1, WritesKeep
<1>9. ASSUME NEW d \in Commands, d # c
      PROVE  (d \notin Auxiliary => Resumption(d)') /\ Shown(d)' /\ Announced(d)'
  <2>1. cmd'[d] = cmd[d]
    BY <1>1, <1>9
  <2>2. d \notin Auxiliary => Resumption(d)'
    BY <1>8, <2>1, ResumptionKept DEF HistoryInv
  <2>3. Announced(d)'
    BY <1>8, <2>1, AnnouncedKept DEF HistoryInv
  <2>4. \A i \in 1..Len(evs) : IsRecovery(evs[i])
    BY <1>2
  <2>5. Shown(d)'
    BY <1>1, <1>9, <2>1, <2>4, OthersShown
  <2> QED BY <2>2, <2>3, <2>5
\* The claim resolves what the journal shows of its command ...
<1>10. Announced(c)' /\ Shown(c)'
  <2>1. Announced(c)'
    BY <1>1 DEF Announced
  <2>2. UnresolvedAt(journal'[RunOf[c]], c) = {}
    <3>1. CASE evs # <<>>
      <4>1. evs[Len(evs)].type = "RUN_RESUMED"
        BY <1>2, <3>1 DEF RecoveryEvent
      <4>2. \A i \in 1..Len(evs) : IsRecovery(evs[i]) /\ evs[i].cmd = c
        BY <1>2
      <4> QED BY <1>3, <3>1, <4>1, <4>2, ResumeResolves
    <3>2. CASE evs = <<>>
      <4>1. journal'[RunOf[c]] = JournalOf(c)
        BY <1>3, <3>2, NothingAppended
      <4>2. CASE n > 1 /\ c \notin Auxiliary
        BY <1>2, <3>2, <4>1, <4>2 DEF UnresolvedAt
      <4>3. CASE n = 1 \/ c \in Auxiliary
        <5> SUFFICES ASSUME NEW i \in UnresolvedAt(JournalOf(c), c) PROVE FALSE
          BY <4>1
        <5>1. /\ i \in DOMAIN JournalOf(c) /\ IsRecovery(JournalOf(c)[i])
              /\ JournalOf(c)[i].cmd = c
          BY DEF UnresolvedAt, RecentAt
        <5>2. JournalOf(c)[i].attempt > 0 /\ JournalOf(c)[i].cmd \notin Auxiliary
          BY <5>1, QueueAssumption DEF HistoryInv, EvidenceOK, JournalOf
        <5>3. JournalOf(c)[i].attempt = cmd[c].attempts
          BY DEF HistoryInv, Shown
        <5>4. n = 1 => cmd[c].attempts = 0
          BY <1>4
        <5> QED BY <4>3, <5>1, <5>2, <5>3, <5>4
      <4>4. n > 1 \/ n = 1
        BY <1>1
      <4> QED BY <4>2, <4>3, <4>4
    <3> QED BY <3>1, <3>2
  <2>3. Shown(c)'
    BY <2>2 DEF Shown, JournalOf
  <2> QED BY <2>1, <2>3
\* ... and tells of the attempt.
<1>11. c \notin Auxiliary => Resumption(c)'
  <2> SUFFICES ASSUME c \notin Auxiliary, n > 1
               PROVE  EvidenceLeft(c)' /\ (Resumed(c, n)' \/ (n > 2 /\ Overtaken(c)'))
    BY <1>1 DEF Resumption, Resumed
  <2>1. CASE evs # <<>>
    <3>1. Len(evs) \in 1..Len(evs)
      BY <1>3, <2>1, NotEmpty DEF Extension
    <3>2. Len(journal'[RunOf[c]]) \in DOMAIN journal'[RunOf[c]]
          /\ journal'[RunOf[c]][Len(journal'[RunOf[c]])] = RecoveryEvent("RUN_RESUMED", c, n)
      BY <1>2, <1>3, <2>1, <3>1 DEF Extension
    <3>3. /\ IsRecovery(RecoveryEvent("RUN_RESUMED", c, n))
          /\ RecoveryEvent("RUN_RESUMED", c, n).cmd = c
      BY DEF RecoveryEvent, IsRecovery, RecoveryTypes
    <3>4. Resumed(c, n)'
      BY <3>2 DEF Resumed, JournalOf
    <3>5. EvidenceLeft(c)'
      BY <3>2, <3>3 DEF EvidenceLeft, JournalOf
    <3> QED BY <3>4, <3>5
  <2>2. CASE evs = <<>>
    <3>1. n > 2 /\ RecentAt(JournalOf(c), c) = {}
      BY <1>2, <2>2
    <3>2. cmd[c].attempts > 1
      BY <1>4, <3>1
    <3>3. PICK i \in DOMAIN JournalOf(c) : IsRecovery(JournalOf(c)[i]) /\ JournalOf(c)[i].cmd = c
      BY <3>2 DEF HistoryInv, Resumption, EvidenceLeft
    <3>4. PICK k \in DOMAIN JournalOf(c) : k > i /\ ~IsRecovery(JournalOf(c)[k])
      BY <3>1, <3>3 DEF RecentAt
    <3>5. i < k
      BY <3>4, <3>3, <1>3 DEF Extension
    <3>6. journal'[RunOf[c]] = JournalOf(c)
      BY <1>3, <2>2, NothingAppended
    <3>7. EvidenceLeft(c)'
      BY <3>3, <3>6 DEF EvidenceLeft, JournalOf
    <3>8. Overtaken(c)'
      BY <3>3, <3>4, <3>5, <3>6 DEF Overtaken, JournalOf
    <3> QED BY <3>1, <3>7, <3>8
  <2> QED BY <2>1, <2>2
<1> QED
  BY <1>5, <1>6, <1>7, <1>9, <1>10, <1>11 DEF HistoryInv

LEMMA CompleteHistory ==
  ASSUME QueueInv, HistoryInv, NEW w \in Workers, NEW out \in Outcomes, NEW children,
         Complete(w, out, children)
  PROVE  HistoryInv'
<1> DEFINE c   == worker[w].cmd
           evs == OutcomeEvents(c, out)
<1>1. /\ Writes(c, evs)
      /\ cmd[c].status = "leased" /\ cmd'[c].status = "succeeded"
      /\ cmd'[c].attempts = cmd[c].attempts
      /\ \A d \in Commands : d # c =>
           cmd'[d] = cmd[d] \/ (cmd[d].status = "absent" /\ cmd'[d] = Fresh)
  BY CompleteWrites
<1>2. c \in Commands /\ Extension(journal'[RunOf[c]], JournalOf(c), evs)
  BY <1>1 DEF Writes
<1>3. \A i \in 1..Len(evs) : ~IsRecovery(evs[i])
  BY <1>2, OutcomeEventsShape
<1>4. /\ Fresh.status = "queued" /\ Fresh.attempts = 0
      /\ \A d \in Commands : cmd[d].status = "absent" => cmd[d].attempts = 0
  BY DEF Fresh, QueueInv, QueueTypeOK, RowOK
<1> HIDE DEF c, evs
<1>5. EndIsLast' /\ EvidenceOK'
  BY <1>1, <1>3, WritesEvidence
<1>6. EffectsAreFinal'
  <2>1. \A d \in Commands : cmd[d].status \in {"succeeded", "dead"} =>
                               cmd'[d].status = cmd[d].status
    BY <1>1
  <2> QED BY <1>1, <2>1, WritesEffects
<1>7. LostWorkIsReported'
  <2>1. \A d \in Commands : cmd'[d].status = cmd[d].status
                            \/ cmd'[d].status \notin {"cancelled", "dead"}
    BY <1>1, <1>4
  <2> QED BY <1>1, <2>1, WritesLost
<1>8. \A d \in Commands : Kept(d)
  BY <1>1, WritesKeep
<1>9. \A d \in Commands :
        /\ cmd'[d].attempts = cmd[d].attempts
        /\ cmd'[d].status = "leased" => cmd[d].status = "leased"
        /\ cmd'[d].status = "queued" /\ cmd'[d].attempts > 0 => cmd[d].status = "queued"
        /\ cmd[d].status # "queued" \/ cmd'[d] = cmd[d]
  BY <1>1, <1>4
<1>10. ASSUME NEW d \in Commands \ Auxiliary PROVE Resumption(d)'
  <2>1. Kept(d) /\ Resumption(d)
    BY <1>8 DEF HistoryInv
  <2> QED BY <1>9, <2>1, ResumptionKept
<1>11. ASSUME NEW d \in Commands PROVE Announced(d)'
  <2>1. Kept(d) /\ Announced(d)
    BY <1>8 DEF HistoryInv
  <2> QED BY <1>9, <2>1, AnnouncedKept
<1>12. ASSUME NEW d \in Commands PROVE Shown(d)'
  <2>1. CASE evs = <<>> \/ RunOf[d] # RunOf[c]
    <3>1. journal'[RunOf[d]] = JournalOf(d)
      <4>1. CASE RunOf[d] # RunOf[c]
        BY <1>1, <4>1, QueueAssumption DEF Writes, JournalOf
      <4>2. CASE RunOf[d] = RunOf[c]
        BY <1>2, <2>1, <4>2, NothingAppended DEF JournalOf
      <4> QED BY <4>1, <4>2
    <3>2. Shown(d) /\ (cmd[d].status # "queued" \/ cmd'[d] = cmd[d])
      BY <1>9 DEF HistoryInv
    <3> QED BY <3>1, <3>2, ShownKept
  <2>2. CASE evs # <<>> /\ RunOf[d] = RunOf[c]
    <3>1. ~IsRecovery(evs[Len(evs)])
      BY <1>2, <1>3, <2>2, NotEmpty DEF Extension
    <3> QED BY <1>2, <2>2, <3>1, MovedOn, NothingShown DEF JournalOf
  <2> QED BY <2>1, <2>2
<1> QED
  BY <1>5, <1>6, <1>7, <1>10, <1>11, <1>12 DEF HistoryInv

LEMMA RetryHistory ==
  ASSUME QueueInv, HistoryInv, NEW w \in Workers, Retry(w)
  PROVE  HistoryInv'
<1>0. PICK c, f : c = worker[w].cmd /\ f = worker[w].failure
  OBVIOUS
<1> DEFINE evs  == RetryEvents(c, f)
           ends == f = "terminal" /\ c \notin Auxiliary
<1>1. /\ f \in Failure
      /\ Writes(c, evs)
      /\ cmd[c].status = "leased" /\ cmd[c].attempts > 0
      /\ cmd'[c].status = IF f = "terminal" THEN "dead" ELSE "queued"
      /\ cmd'[c].attempts = cmd[c].attempts
      /\ \A d \in Commands : d # c =>
           \/ cmd'[d] = cmd[d]
           \/ /\ f = "terminal" /\ c \notin Auxiliary /\ RunOf[d] = RunOf[c]
              /\ cmd[d].status \in {"queued", "leased"}
              /\ cmd'[d].status = "cancelled" /\ cmd'[d].attempts = cmd[d].attempts
  BY <1>0, RetryWrites
<1>2. c \in Commands /\ Extension(journal'[RunOf[c]], JournalOf(c), evs)
  BY <1>1 DEF Writes
<1>3. \A d \in Commands : JournalOf(d) \in Journals /\ Ended(JournalOf(d))
  BY QueueAssumption DEF QueueInv, QueueTypeOK, HistoryInv, EndIsLast, JournalOf, Journals
\* Three cases: nothing is written, an announcement, or the failure of the run.
<1>4. CASE evs = <<>>
  <2>1. journal'[RunOf[c]] = JournalOf(c) /\ Len(evs) = 0
    BY <1>2, <1>4, NothingAppended
  <2>2. \A d \in Commands : journal'[RunOf[d]] = JournalOf(d)
    BY <1>1, <2>1, QueueAssumption DEF Writes, JournalOf
  <2>3. c \in Auxiliary \/ (f = "terminal" /\ Terminal(JournalOf(c)))
    <3>1. \A e : <<e>> # <<>>
      OBVIOUS
    <3> QED BY <1>1, <1>2, <1>4, <3>1, RetryEventsShape
  <2> HIDE DEF evs
  <2>4. EndIsLast' /\ EvidenceOK'
    BY <1>1, <2>1, WritesEvidence
  <2>5. EffectsAreFinal'
    <3>1. \A d \in Commands : cmd[d].status \in {"succeeded", "dead"} =>
                                 cmd'[d].status = cmd[d].status
      BY <1>1
    <3> QED BY <1>1, <2>1, <3>1, WritesEffects
  <2>6. LostWorkIsReported'
    <3>1. ASSUME NEW d \in Commands
          PROVE  \/ cmd'[d].status = cmd[d].status
                 \/ cmd'[d].status \notin {"cancelled", "dead"}
                 \/ d \in Auxiliary /\ cmd'[d].status = "dead"
                 \/ Terminal(journal'[RunOf[d]])
      BY <1>1, <2>2, <2>3 DEF JournalOf
    <3> QED BY <1>1, <3>1, WritesLost
  <2>7. \A d \in Commands : Kept(d)
    BY <1>1, WritesKeep
  <2>8. ASSUME NEW d \in Commands \ Auxiliary PROVE Resumption(d)'
    <3>1. Kept(d) /\ Resumption(d)
      BY <2>7 DEF HistoryInv
    <3> QED BY <1>1, <3>1, ResumptionKept
  <2>9. ASSUME NEW d \in Commands PROVE Announced(d)'
    <3>1. Kept(d) /\ Announced(d)
      BY <2>7 DEF HistoryInv
    <3>2. CASE d = c
      BY <1>1, <2>3, <3>2 DEF Announced
    <3>3. CASE d # c
      BY <1>1, <3>1, <3>3, AnnouncedKept
    <3> QED BY <3>2, <3>3
  <2>10. ASSUME NEW d \in Commands PROVE Shown(d)'
    <3>1. Shown(d) /\ journal'[RunOf[d]] = JournalOf(d)
      BY <2>2 DEF HistoryInv
    <3>2. CASE cmd[d].status # "queued" \/ cmd'[d] = cmd[d]
      BY <3>1, <3>2, ShownKept
    <3>3. CASE ~(cmd[d].status # "queued" \/ cmd'[d] = cmd[d])
      <4>1. RunOf[d] = RunOf[c] /\ Terminal(JournalOf(c))
        BY <1>1, <2>3, <3>3
      <4>2. Terminal(JournalOf(d))
        BY <4>1 DEF JournalOf
      <4> QED BY <1>3, <3>1, <4>2, NothingRecentAtTheEnd, NothingShown
    <3> QED BY <3>2, <3>3
  <2> QED
    BY <2>4, <2>5, <2>6, <2>8, <2>9, <2>10 DEF HistoryInv
<1>5. ASSUME NEW type \in {"STAGE_WAITING", "STAGE_RETRY_SCHEDULED"},
             c \notin Auxiliary, f # "terminal",
             evs = <<RecoveryEvent(type, c, cmd[c].attempts)>>
      PROVE  HistoryInv'
  <2>0. PICK e : e = RecoveryEvent(type, c, cmd[c].attempts)
    OBVIOUS
  <2>1. /\ evs = <<e>> /\ Len(evs) = 1 /\ evs[1] = e
        /\ IsRecovery(e) /\ e.attempt = cmd[c].attempts /\ e.attempt > 0
        /\ e.cmd = c /\ e.type = type
    BY <1>1, <1>5, <2>0 DEF RecoveryEvent, IsRecovery, RecoveryTypes
  <2> HIDE DEF evs
  <2>2. \A i \in 1..Len(evs) : evs[i] = e
    BY <2>1
  <2>3. EndIsLast' /\ EvidenceOK'
    BY <1>1, <1>5, <2>1, <2>2, WritesEvidence
  <2>4. EffectsAreFinal'
    <3>1. \A d \in Commands : cmd[d].status \in {"succeeded", "dead"} =>
                                 cmd'[d].status = cmd[d].status
      BY <1>1, <1>5
    <3> QED BY <1>1, <2>1, <2>2, <3>1, WritesEffects
  <2>5. LostWorkIsReported'
    <3>1. \A d \in Commands : cmd'[d].status = cmd[d].status
                              \/ cmd'[d].status \notin {"cancelled", "dead"}
      BY <1>1, <1>5
    <3> QED BY <1>1, <3>1, WritesLost
  <2>6. \A d \in Commands : Kept(d)
    BY <1>1, WritesKeep
  <2>7. ASSUME NEW d \in Commands \ Auxiliary PROVE Resumption(d)'
    <3>1. Kept(d) /\ Resumption(d)
      BY <2>6 DEF HistoryInv
    <3> QED BY <1>1, <1>5, <3>1, ResumptionKept
  <2>8. ASSUME NEW d \in Commands, d # c PROVE Shown(d)' /\ Announced(d)'
    <3>1. Kept(d) /\ Announced(d) /\ cmd'[d] = cmd[d]
      BY <1>1, <1>5, <2>6, <2>8 DEF HistoryInv
    <3>2. Announced(d)'
      BY <3>1, AnnouncedKept
    <3>3. \A i \in 1..Len(evs) : IsRecovery(evs[i])
      BY <2>1, <2>2
    <3> QED BY <1>1, <2>8, <3>1, <3>2, <3>3, OthersShown
  <2>9. cmd'[c].status = "queued" /\ cmd'[c].attempts = e.attempt
    BY <1>1, <1>5, <2>1
  <2>10. Announced(c)'
    <3>1. Announces(e, c, cmd'[c].attempts)
      BY <2>1, <2>9 DEF Announces
    <3>2. \E i \in DOMAIN journal'[RunOf[c]] : journal'[RunOf[c]][i] = e
      <4>1. 1 \in 1..Len(evs)
        BY <2>1
      <4>2. /\ Len(JournalOf(c)) + 1 \in DOMAIN journal'[RunOf[c]]
            /\ journal'[RunOf[c]][Len(JournalOf(c)) + 1] = e
        BY <1>2, <2>1, <4>1 DEF Extension
      <4> QED BY <4>2
    <3> QED BY <3>1, <3>2 DEF Announced, JournalOf
  <2>11. Shown(c)'
    <3>1. UnresolvedAt(JournalOf(c), c) = {}
      BY <1>1, <1>2 DEF HistoryInv, Shown
    <3>2. Extension(journal'[RunOf[c]], JournalOf(c), <<e>>)
      BY <1>2, <2>1
    <3>3. \A i \in UnresolvedAt(journal'[RunOf[c]], c) : journal'[RunOf[c]][i] = e
      BY <2>1, <3>1, <3>2, AnnouncementIsUnresolved
    <3> QED BY <2>9, <3>3 DEF Shown, JournalOf
  <2> QED
    BY <2>3, <2>4, <2>5, <2>7, <2>8, <2>10, <2>11 DEF HistoryInv
<1>6. ASSUME c \notin Auxiliary, f = "terminal",
             evs = <<LifecycleEvent(c, 1, [type |-> "RUN_FAILED", info |-> StageOf[c]])>>
      PROVE  HistoryInv'
  <2>0. PICK e : e = LifecycleEvent(c, 1, [type |-> "RUN_FAILED", info |-> StageOf[c]])
    OBVIOUS
  <2>1. /\ evs = <<e>> /\ evs # <<>> /\ Len(evs) = 1 /\ evs[1] = e
        /\ ~IsRecovery(e) /\ Closes(e) /\ e.cmd = c
    BY <1>6, <2>0 DEF LifecycleEvent, IsRecovery, RecoveryTypes, Closes
  <2> HIDE DEF evs
  <2>2. \A i \in 1..Len(evs) : evs[i] = e
    BY <2>1
  <2>3. EndIsLast' /\ EvidenceOK'
    BY <1>1, <2>1, <2>2, WritesEvidence
  <2>4. EffectsAreFinal'
    <3>1. \A d \in Commands : cmd[d].status \in {"succeeded", "dead"} =>
                                 cmd'[d].status = cmd[d].status
      BY <1>1
    <3>2. cmd'[c].status \in {"succeeded", "dead"}
      BY <1>1, <1>6
    <3> QED BY <1>1, <3>1, <3>2, WritesEffects
  <2>5. Terminal(journal'[RunOf[c]])
    <3>1. 1 \in 1..Len(evs)
      BY <2>1
    <3>2. /\ Len(JournalOf(c)) + 1 \in DOMAIN journal'[RunOf[c]]
          /\ journal'[RunOf[c]][Len(JournalOf(c)) + 1] = e
      BY <1>2, <2>1, <3>1 DEF Extension
    <3> QED BY <2>1, <3>2 DEF Terminal
  <2>6. LostWorkIsReported'
    <3>1. \A d \in Commands : cmd'[d].status = cmd[d].status \/ Terminal(journal'[RunOf[d]])
      BY <1>1, <2>5
    <3> QED BY <1>1, <3>1, WritesLost
  <2>7. \A d \in Commands : Kept(d)
    BY <1>1, WritesKeep
  <2>8. ASSUME NEW d \in Commands \ Auxiliary PROVE Resumption(d)'
    <3>1. Kept(d) /\ Resumption(d)
      BY <2>7 DEF HistoryInv
    <3> QED BY <1>1, <1>6, <3>1, ResumptionKept
  <2>9. ASSUME NEW d \in Commands PROVE Announced(d)'
    <3>1. Kept(d) /\ Announced(d)
      BY <2>7 DEF HistoryInv
    <3> QED BY <1>1, <1>6, <3>1, AnnouncedKept
  <2>10. ASSUME NEW d \in Commands PROVE Shown(d)'
    <3>1. CASE RunOf[d] = RunOf[c]
      <4>1. ~IsRecovery(evs[Len(evs)])
        BY <2>1
      <4> QED BY <1>2, <2>1, <3>1, <4>1, MovedOn, NothingShown DEF JournalOf
    <3>2. CASE RunOf[d] # RunOf[c]
      <4>1. journal'[RunOf[d]] = JournalOf(d) /\ cmd'[d] = cmd[d] /\ Shown(d)
        BY <1>1, <3>2, QueueAssumption DEF Writes, JournalOf, HistoryInv
      <4> QED BY <4>1, ShownKept
    <3> QED BY <3>1, <3>2
  <2> QED
    BY <2>3, <2>4, <2>6, <2>8, <2>9, <2>10 DEF HistoryInv
<1> QED
  BY <1>1, <1>2, <1>4, <1>5, <1>6, RetryEventsShape

---------------------------------------------------------------------------
(* The steps of the queue, and the theorems.                               *)

\* Every other step leaves the journals and the rows alone.
LEMMA StepShape ==
  ASSUME [QueueNext]_queueVars
  PROVE  \/ UNCHANGED <<journal, cmd>>
         \/ \E c \in ApiCommands : Enqueue(c)
         \/ \E c \in Commands : DeadlinePasses(c)
         \/ \E w \in Workers :
              \/ \E c \in Commands : Claim(w, c)
              \/ \E out \in Outcomes : \E children \in SUBSET Siblings(w) : Complete(w, out, children)
              \/ Retry(w)
<1>1. ASSUME NEW w \in Workers, Turn(w)
      PROVE  \/ UNCHANGED <<journal, cmd>>
             \/ \E c \in Commands : Claim(w, c)
             \/ \E out \in Outcomes : \E children \in SUBSET Siblings(w) : Complete(w, out, children)
             \/ Retry(w)
  <2>1. HandlerMissing(w) \/ Renew(w) \/ Load(w) \/ RetryRefused(w) \/ Crash(w)
          => UNCHANGED <<journal, cmd>>
    BY DEF HandlerMissing, Renew, Load, RetryRefused, Crash
  <2>2. \A f \in Failure : HandlerThrows(w, f) => UNCHANGED <<journal, cmd>>
    BY DEF HandlerThrows
  <2>3. \A out \in Outcomes : CompletionRefused(w, out) => UNCHANGED <<journal, cmd>>
    BY DEF CompletionRefused
  <2> QED BY <1>1, <2>1, <2>2, <2>3 DEF Turn
<1>2. CASE UNCHANGED queueVars
  BY <1>2 DEF queueVars
<1> QED BY <1>1, <1>2 DEF QueueNext

LEMMA HistoryInit == QueueInit => HistoryInv
<1> SUFFICES ASSUME QueueInit PROVE HistoryInv
  OBVIOUS
<1>1. ASSUME NEW r \in Runs
      PROVE  /\ Len(journal[r]) = 1 /\ DOMAIN journal[r] = {1}
             /\ journal[r][1] = RunCreated
             /\ \A i \in DOMAIN journal[r] : ~IsRecovery(journal[r][i]) /\ i = 1
  <2>1. journal[r] = <<RunCreated>>
    BY DEF QueueInit
  <2>2. ~IsRecovery(RunCreated)
    BY DEF RunCreated, IsRecovery, RecoveryTypes
  <2> QED BY <2>1, <2>2
<1>2. ~Closes(RunCreated)
  BY DEF RunCreated, Closes
<1>3. \A c \in Commands : cmd[c].attempts = 0 /\ cmd[c].status \in {"queued", "absent"}
  BY DEF QueueInit, Fresh, Absent
<1>4. EndIsLast /\ EvidenceOK /\ EffectsAreFinal
  BY <1>1, <1>2 DEF EndIsLast, Ended, EvidenceOK, EffectsAreFinal
<1>5. LostWorkIsReported
  BY <1>3 DEF LostWorkIsReported
<1>6. \A c \in Commands : Resumption(c) /\ Announced(c)
  BY <1>3 DEF Resumption, Announced
<1>7. \A c \in Commands : Shown(c)
  BY <1>1, QueueAssumption DEF Shown, UnresolvedAt, RecentAt, JournalOf
<1> QED
  BY <1>4, <1>5, <1>6, <1>7 DEF HistoryInv

LEMMA HistoryStep == QueueInv /\ HistoryInv /\ [QueueNext]_queueVars => HistoryInv'
<1> SUFFICES ASSUME QueueInv, HistoryInv, [QueueNext]_queueVars PROVE HistoryInv'
  OBVIOUS
<1>1. CASE UNCHANGED <<journal, cmd>>
  BY <1>1, QuietHistory
<1>2. ASSUME NEW c \in Commands, Enqueue(c) PROVE HistoryInv'
  <2>1. cmd \in [Commands -> CommandRow] /\ cmd[c].attempts = 0
    BY <1>2 DEF Enqueue, QueueInv, QueueTypeOK, RowOK
  <2>2. Fresh.status = "queued" /\ Fresh.attempts = 0
    BY DEF Fresh
  <2> QED BY <1>2, <2>1, <2>2, QuietHistory DEF Enqueue
<1>3. ASSUME NEW c \in Commands, DeadlinePasses(c) PROVE HistoryInv'
  <2>1. cmd \in [Commands -> CommandRow]
    BY DEF QueueInv, QueueTypeOK
  <2>2. \A d \in Commands : cmd'[d].attempts = cmd[d].attempts /\ cmd'[d].status = cmd[d].status
    BY <1>3, <2>1 DEF DeadlinePasses, CommandRow
  <2> QED BY <1>3, <2>2, QuietHistory DEF DeadlinePasses
<1>4. ASSUME NEW w \in Workers, NEW c \in Commands, Claim(w, c) PROVE HistoryInv'
  BY <1>4, ClaimHistory
<1>5. ASSUME NEW w \in Workers, NEW out \in Outcomes, NEW children, Complete(w, out, children)
      PROVE  HistoryInv'
  BY <1>5, CompleteHistory
<1>6. ASSUME NEW w \in Workers, Retry(w) PROVE HistoryInv'
  BY <1>6, RetryHistory
<1> QED
  BY <1>1, <1>2, <1>3, <1>4, <1>5, <1>6, StepShape, QueueAssumption

LEMMA HistoryInvariant == QueueSpec => []HistoryInv
  BY HistoryInit, HistoryStep, QueueInvariant, PTL DEF QueueSpec

\* Whatever the workers do, an effect that is in a journal belongs to a command
\* of that run which has ended for good.
THEOREM EffectsStay == QueueSpec => []EffectsAreFinal
<1>1. HistoryInv => EffectsAreFinal
  BY DEF HistoryInv
<1> QED
  BY <1>1, HistoryInvariant, PTL

\* What the journal shows as unresolved is exactly what the queue will retry.
THEOREM RecoveryAgrees == QueueSpec => []RecoveryViewAgrees
<1>1. HistoryInv => RecoveryViewAgrees
  BY ViewHalves DEF HistoryInv
<1> QED
  BY <1>1, HistoryInvariant, PTL

\* A dead or cancelled command has a run whose journal says that it ended.
THEOREM LossIsReported == QueueSpec => []LostWorkIsReported
<1>1. HistoryInv => LostWorkIsReported
  BY DEF HistoryInv
<1> QED
  BY <1>1, HistoryInvariant, PTL

\* A repeated attempt has been announced as resumed before anyone can report on
\* it, unless the run has moved on since an earlier attempt.
THEOREM WorkIsResumed == QueueSpec => []ResumedBeforeWork
<1>1. QueueInv /\ HistoryInv => ResumedBeforeWork
  <2> SUFFICES ASSUME QueueInv, HistoryInv, NEW w \in Workers, Busy(w), LeaseLive(w),
                      worker[w].token > 1, worker[w].cmd \notin Auxiliary
               PROVE  LET c == worker[w].cmd
                          n == worker[w].token
                          j == JournalOf(c) IN
                      \/ \E i \in DOMAIN j : j[i] = RecoveryEvent("RUN_RESUMED", c, n)
                      \/ n > 2 /\ \E i, k \in DOMAIN j :
                                    i < k /\ j[i].cmd = c /\ ~IsRecovery(j[k])
    BY DEF ResumedBeforeWork
  <2>1. worker[w].cmd \in Commands \ Auxiliary
    BY DEF QueueInv, ClaimsOK
  <2>2. cmd[worker[w].cmd].status = "leased" /\ cmd[worker[w].cmd].attempts = worker[w].token
    BY <2>1 DEF LeaseLive, QueueInv, QueueTypeOK, RowOK
  <2> QED BY <2>1, <2>2 DEF HistoryInv, Resumption, Resumed, Overtaken
<1> QED
  BY <1>1, QueueInvariant, HistoryInvariant, PTL

---------------------------------------------------------------------------
(* The queue implements RunLifecycle, when a handler appends nothing, one   *)
(* event, or the rest of a recorded run.                                   *)

VerdictFits(e) == e.type = "CONSUMER_VERIFIED" => e.info \in {"passed", "rejected"}

Stepwise(out) ==
  \/ Len(out) = 0
  \/ Len(out) = 1 /\ VerdictFits(out[1])
  \/ /\ Len(out) = 5 /\ VerdictFits(out[5])
     /\ \A i \in 1..5 : out[i].type = Lifecycle[i + 2]

\* What a transaction appends: recovery evidence, or what a handler may append.
Batch(evs) ==
  \/ \A i \in 1..Len(evs) : IsRecovery(evs[i])
  \/ Len(evs) = 1 /\ ~IsRecovery(evs[1]) /\ VerdictFits(evs[1])
  \/ /\ Len(evs) = 5 /\ VerdictFits(evs[5])
     /\ \A i \in 1..5 : evs[i].type = Lifecycle[i + 2]

\* Positions are reached in order, and a verdict is one of the two.
PhaseOK(j) ==
  /\ \E k \in 1..7 : Reached(j) = 1..k
  /\ \A i \in DOMAIN j : VerdictFits(j[i])

LEMMA PositionsDiffer ==
  /\ \A k, m \in 1..7 : Lifecycle[k] = Lifecycle[m] => k = m
  /\ \A k \in 1..7 : Lifecycle[k] # "RUN_FAILED" /\ Lifecycle[k] \notin RecoveryTypes
  /\ \A k \in 1..7 : Lifecycle[k] = "CONSUMER_VERIFIED" <=> k = 7
<1>1. \A k \in 1..7 : k = 1 \/ k = 2 \/ k = 3 \/ k = 4 \/ k = 5 \/ k = 6 \/ k = 7
  OBVIOUS
<1>2. /\ Lifecycle[1] = "RUN_CREATED" /\ Lifecycle[2] = "PREFLIGHT_ACCEPTED"
      /\ Lifecycle[3] = "REQUEST_SUBMITTED" /\ Lifecycle[4] = "ROUND_FINALIZED"
      /\ Lifecycle[5] = "PROOF_AVAILABLE" /\ Lifecycle[6] = "PROOF_VERIFIED"
      /\ Lifecycle[7] = "CONSUMER_VERIFIED"
  BY DEF Lifecycle
<1> QED
  BY <1>1, <1>2 DEF RecoveryTypes

LEMMA PhaseIsPosition ==
  ASSUME NEW j, NEW k \in 1..7, Reached(j) = 1..k
  PROVE  PhaseOf(j) = k
<1>1. Cardinality(1..k) = k
  <2>1. Cardinality(1..k) = IF 1 > k THEN 0 ELSE k - 1 + 1
    BY FS_Interval
  <2> QED BY <2>1
<1> QED
  BY <1>1 DEF PhaseOf

\* The end of a run is a failure or the last position.
LEMMA EndIsFailureOrVerdict ==
  ASSUME NEW j
  PROVE  Terminal(j) <=> Failed(j) \/ 7 \in Reached(j)
<1>1. \A i \in DOMAIN j : j[i].type = "CONSUMER_VERIFIED" <=> j[i].type = Lifecycle[7]
  BY DEF Lifecycle
<1> QED
  BY <1>1 DEF Terminal, Closes, Failed, Reached

LEMMA VerdictType ==
  ASSUME NEW j, PhaseOK(j), Terminal(j), ~Failed(j)
  PROVE  OutcomeOf(j) = Verdict(j) /\ Verdict(j) \in {"passed", "rejected"}
<1>1. PICK i \in DOMAIN j : j[i].type = "CONSUMER_VERIFIED"
  BY DEF Terminal, Closes, Failed
<1>2. \E e \in {j[k] : k \in DOMAIN j} : e.type = "CONSUMER_VERIFIED"
  BY <1>1
<1>3. \A e \in {j[k] : k \in DOMAIN j} : VerdictFits(e)
  BY DEF PhaseOK
<1> QED
  BY <1>2, <1>3 DEF Verdict, VerdictFits, OutcomeOf

\* What a batch adds to the positions reached.
LEMMA ReachedGrows ==
  ASSUME NEW t, NEW j, NEW evs, Extension(t, j, evs)
  PROVE  /\ \A k \in 1..7 : k \in Reached(t) <=>
              k \in Reached(j) \/ \E i \in 1..Len(evs) : evs[i].type = Lifecycle[k]
         /\ Failed(t) <=> Failed(j) \/ \E i \in 1..Len(evs) : evs[i].type = "RUN_FAILED"
         /\ Reached(t) \subseteq 1..7 /\ Reached(j) \subseteq 1..7
<1>1. ASSUME NEW type
      PROVE  (\E i \in DOMAIN t : t[i].type = type) <=>
               \/ \E i \in DOMAIN j : j[i].type = type
               \/ \E i \in 1..Len(evs) : evs[i].type = type
  <2>1. ASSUME NEW i \in 1..Len(t), t[i].type = type
        PROVE  \/ \E m \in DOMAIN j : j[m].type = type
               \/ \E m \in 1..Len(evs) : evs[m].type = type
    <3>1. CASE i > Len(j)
      <4>1. i - Len(j) \in 1..Len(evs) /\ t[i] = evs[i - Len(j)]
        BY <3>1 DEF Extension
      <4> QED BY <2>1, <4>1
    <3>2. CASE ~(i > Len(j))
      <4>1. i \in DOMAIN j /\ t[i] = j[i]
        BY <3>2 DEF Extension
      <4> QED BY <2>1, <4>1
    <3> QED BY <3>1, <3>2
  <2>2. \A i \in DOMAIN j : i \in DOMAIN t /\ t[i] = j[i]
    BY EventsAreKept
  <2>3. ASSUME NEW i \in 1..Len(evs), evs[i].type = type
        PROVE  \E m \in DOMAIN t : t[m].type = type
    <3>1. Len(j) + i \in DOMAIN t /\ t[Len(j) + i] = evs[i]
      BY DEF Extension
    <3> QED BY <2>3, <3>1
  <2>4. DOMAIN t = 1..Len(t)
    BY DEF Extension
  <2> QED BY <2>1, <2>2, <2>3, <2>4
<1> QED
  BY <1>1 DEF Reached, Failed

LEMMA VerdictsGrow ==
  ASSUME NEW t, NEW j, NEW evs, Extension(t, j, evs),
         \A i \in DOMAIN j : VerdictFits(j[i]), \A i \in 1..Len(evs) : VerdictFits(evs[i])
  PROVE  \A i \in DOMAIN t : VerdictFits(t[i])
<1>1. ASSUME NEW i \in 1..Len(t) PROVE VerdictFits(t[i])
  <2>1. CASE i > Len(j)
    <3>1. i - Len(j) \in 1..Len(evs) /\ t[i] = evs[i - Len(j)]
      BY <2>1 DEF Extension
    <3> QED BY <3>1
  <2>2. CASE ~(i > Len(j))
    <3>1. i \in DOMAIN j /\ t[i] = j[i]
      BY <2>2 DEF Extension
    <3> QED BY <3>1
  <2> QED BY <2>1, <2>2
<1> QED
  BY <1>1 DEF Extension

\* The first event of a batch is accepted by the journal as it is.
LEMMA FirstAccepted ==
  ASSUME NEW t, NEW j, NEW evs, Extension(t, j, evs), AcceptsAll(j, evs), Len(evs) > 0
  PROVE  Accepts(j, evs[1])
<1>1. 1 \in DOMAIN evs
  BY DEF Extension
<1>2. SubSeq(evs, 1, 1 - 1) = <<>>
  <2>1. 1 - 1 \in Int /\ 1 \in Int /\ 1 - 1 < 1
    OBVIOUS
  <2> QED BY <2>1, SubSeqEmpty
<1>3. j \o <<>> = j
  BY ConcatEmptySeq DEF Extension, Journals
<1>4. Accepts(j \o SubSeq(evs, 1, 1 - 1), evs[1])
  BY <1>1 DEF AcceptsAll
<1> QED
  BY <1>2, <1>3, <1>4

\* What one transaction may do to a run.
Stays(t, j)    == PhaseOf(t) = PhaseOf(j) /\ OutcomeOf(t) = OutcomeOf(j)
Advances(t, j) == OutcomeOf(j) = "open" /\ PhaseOf(j) < 6
                    /\ PhaseOf(t) = PhaseOf(j) + 1 /\ OutcomeOf(t) = "open"
Concludes(t, j) == OutcomeOf(j) = "open" /\ PhaseOf(j) \in {2, 6}
                    /\ PhaseOf(t) = 7 /\ OutcomeOf(t) \in {"passed", "rejected"}
Fails(t, j)    == OutcomeOf(j) = "open"
                    /\ PhaseOf(t) = PhaseOf(j) /\ OutcomeOf(t) = "failed"

LEMMA RecoveryMoves ==
  ASSUME NEW t, NEW j, NEW evs, Extension(t, j, evs), AcceptsAll(j, evs), PhaseOK(j),
         \A i \in 1..Len(evs) : IsRecovery(evs[i])
  PROVE  PhaseOK(t) /\ Stays(t, j)
<1>1. \A i \in 1..Len(evs) :
        /\ evs[i].type # "RUN_FAILED" /\ VerdictFits(evs[i])
        /\ \A k \in 1..7 : evs[i].type # Lifecycle[k]
  <2> TAKE i \in 1..Len(evs)
  <2>1. evs[i].type \in RecoveryTypes
    BY DEF IsRecovery
  <2>2. evs[i].type # "RUN_FAILED" /\ VerdictFits(evs[i])
    BY <2>1 DEF RecoveryTypes, VerdictFits
  <2>3. \A k \in 1..7 : evs[i].type # Lifecycle[k]
    BY <2>1, PositionsDiffer
  <2> QED BY <2>2, <2>3
<1>2. Reached(t) = Reached(j) /\ (Failed(t) <=> Failed(j))
  <2>1. \A k \in 1..7 : k \in Reached(t) <=> k \in Reached(j)
    BY <1>1, ReachedGrows
  <2>2. Reached(t) \subseteq 1..7 /\ Reached(j) \subseteq 1..7 /\ (Failed(t) <=> Failed(j))
    BY <1>1, ReachedGrows
  <2> QED BY <2>1, <2>2
<1>3. PhaseOK(t)
  BY <1>1, <1>2, VerdictsGrow DEF PhaseOK
<1>4. PhaseOf(t) = PhaseOf(j)
  BY <1>2 DEF PhaseOf
<1>5. OutcomeOf(t) = OutcomeOf(j)
  <2>1. CASE evs = <<>>
    BY <2>1, NothingAppended
  <2>2. CASE evs # <<>>
    <3>1. Len(evs) > 0
      BY <2>2, NotEmpty DEF Extension
    <3>2. ~Terminal(j)
      BY <3>1, FirstAccepted DEF Accepts
    <3>3. ~Terminal(t) /\ ~Failed(t) /\ ~Failed(j)
      BY <1>2, <3>2, EndIsFailureOrVerdict
    <3> QED BY <3>2, <3>3 DEF OutcomeOf
  <2> QED BY <2>1, <2>2
<1> QED BY <1>3, <1>4, <1>5 DEF Stays

LEMMA EventMoves ==
  ASSUME NEW t, NEW j, NEW evs, Extension(t, j, evs), AcceptsAll(j, evs), PhaseOK(j),
         Len(evs) = 1, ~IsRecovery(evs[1]), VerdictFits(evs[1])
  PROVE  PhaseOK(t) /\ (Advances(t, j) \/ Concludes(t, j) \/ Fails(t, j))
<1>1. Accepts(j, evs[1]) /\ \A i \in 1..Len(evs) : i = 1
  BY FirstAccepted
<1>2. ~Terminal(j) /\ LifecycleFits(j, evs[1])
  BY <1>1 DEF Accepts
<1>3. PICK m \in 1..7 : Reached(j) = 1..m
  BY DEF PhaseOK
<1>4. ~Failed(j) /\ 7 \notin Reached(j) /\ OutcomeOf(j) = "open" /\ PhaseOf(j) = m
  BY <1>2, <1>3, EndIsFailureOrVerdict, PhaseIsPosition DEF OutcomeOf
<1>5. m < 7
  BY <1>3, <1>4
<1>6. \A i \in DOMAIN t : VerdictFits(t[i])
  BY <1>1, VerdictsGrow DEF PhaseOK
<1>7. /\ \A k \in 1..7 : k \in Reached(t) <=> k \in 1..m \/ evs[1].type = Lifecycle[k]
      /\ Failed(t) <=> evs[1].type = "RUN_FAILED"
      /\ Reached(t) \subseteq 1..7
  <2>1. 1..Len(evs) = {1}
    BY 1..1 = {1}
  <2>2. /\ \A k \in 1..7 : k \in Reached(t) <=>
             k \in Reached(j) \/ \E i \in 1..Len(evs) : evs[i].type = Lifecycle[k]
        /\ Failed(t) <=> Failed(j) \/ \E i \in 1..Len(evs) : evs[i].type = "RUN_FAILED"
        /\ Reached(t) \subseteq 1..7
    BY ReachedGrows
  <2> QED BY <1>3, <1>4, <2>1, <2>2
<1>8. CASE evs[1].type = "RUN_FAILED"
  <2>1. Reached(t) = 1..m
    <3>1. \A k \in 1..7 : k \in Reached(t) <=> k \in 1..m
      BY <1>7, <1>8, PositionsDiffer
    <3>2. 1..m \subseteq 1..7
      OBVIOUS
    <3> QED BY <1>7, <3>1, <3>2
  <2>2. PhaseOf(t) = m /\ OutcomeOf(t) = "failed"
    BY <1>7, <1>8, <2>1, PhaseIsPosition DEF OutcomeOf
  <2> QED BY <1>4, <1>6, <2>1, <2>2 DEF PhaseOK, Fails
<1>9. ASSUME NEW k \in 1..7, evs[1].type = Lifecycle[k], Reached(j) = 1..(k - 1)
      PROVE  PhaseOK(t) /\ (Advances(t, j) \/ Concludes(t, j))
  <2>1. k = m + 1
    <3>1. m \in 1..(k - 1)
      BY <1>3, <1>9
    <3>2. k - 1 \in 1..m
      BY <1>3, <1>9, <3>1
    <3> QED BY <3>1, <3>2
  <2>2. Reached(t) = 1..k
    <3>1. \A i \in 1..7 : i \in Reached(t) <=> i \in 1..m \/ i = k
      BY <1>7, <1>9, PositionsDiffer
    <3>2. \A i \in 1..7 : i \in 1..m \/ i = k <=> i \in 1..k
      BY <2>1
    <3>3. 1..k \subseteq 1..7
      OBVIOUS
    <3> QED BY <1>7, <3>1, <3>2, <3>3
  <2>3. PhaseOf(t) = m + 1 /\ PhaseOK(t) /\ ~Failed(t)
    BY <1>6, <1>7, <1>9, <2>1, <2>2, PhaseIsPosition, PositionsDiffer DEF PhaseOK
  <2>4. CASE k = 7
    <3>1. Terminal(t)
      BY <2>2, <2>4, EndIsFailureOrVerdict
    <3>2. OutcomeOf(t) \in {"passed", "rejected"}
      BY <2>3, <3>1, VerdictType
    <3>3. m = 6
      BY <2>1, <2>4
    <3> QED BY <1>4, <2>3, <3>2, <3>3 DEF Concludes
  <2>5. CASE k # 7
    <3>1. ~Terminal(t)
      BY <2>2, <2>3, <2>5, EndIsFailureOrVerdict
    <3>2. OutcomeOf(t) = "open"
      BY <2>3, <3>1 DEF OutcomeOf
    <3>3. m < 6
      BY <2>1, <2>5
    <3> QED BY <1>4, <2>3, <3>2, <3>3 DEF Advances
  <2> QED BY <2>4, <2>5
<1> QED
  BY <1>2, <1>8, <1>9 DEF LifecycleFits

LEMMA ReplayMoves ==
  ASSUME NEW t, NEW j, NEW evs, Extension(t, j, evs), AcceptsAll(j, evs), PhaseOK(j),
         Len(evs) = 5, VerdictFits(evs[5]), \A i \in 1..5 : evs[i].type = Lifecycle[i + 2]
  PROVE  PhaseOK(t) /\ Concludes(t, j)
<1>1. Accepts(j, evs[1])
  <2>1. Len(evs) > 0
    OBVIOUS
  <2> QED BY <2>1, FirstAccepted
<1>2. evs[1].type = Lifecycle[3] /\ evs[1].type \notin RecoveryTypes /\ evs[1].type # "RUN_FAILED"
  <2>1. 1 \in 1..5 /\ 1 + 2 = 3 /\ 3 \in 1..7
    OBVIOUS
  <2>2. evs[1].type = Lifecycle[1 + 2]
    BY <2>1
  <2> QED BY <2>1, <2>2, PositionsDiffer
<1>3. ~Terminal(j) /\ LifecycleFits(j, evs[1])
  BY <1>1, <1>2 DEF Accepts, IsRecovery
<1>4. PICK k \in 1..7 : evs[1].type = Lifecycle[k] /\ Reached(j) = 1..(k - 1)
  BY <1>2, <1>3 DEF LifecycleFits
<1>5. k = 3 /\ Reached(j) = 1..2
  <2>1. k = 3
    BY <1>2, <1>4, PositionsDiffer
  <2> QED BY <1>4, <2>1
<1>6. ~Failed(j) /\ OutcomeOf(j) = "open" /\ PhaseOf(j) = 2
  BY <1>3, <1>5, EndIsFailureOrVerdict, PhaseIsPosition DEF OutcomeOf
<1>7. \A i \in 1..5 :
        i + 2 \in 1..7 /\ evs[i].type # "RUN_FAILED" /\ VerdictFits(evs[i])
  <2> TAKE i \in 1..5
  <2>1. i + 2 \in 1..7
    OBVIOUS
  <2>2. evs[i].type # "RUN_FAILED"
    BY <2>1, PositionsDiffer
  <2>3. VerdictFits(evs[i])
    <3>1. CASE i = 5
      BY <3>1
    <3>2. CASE i # 5
      <4>1. i + 2 # 7
        BY <3>2
      <4>2. Lifecycle[i + 2] # "CONSUMER_VERIFIED"
        BY <2>1, <4>1, PositionsDiffer
      <4> QED BY <4>2 DEF VerdictFits
    <3> QED BY <3>1, <3>2
  <2> QED BY <2>1, <2>2, <2>3
<1>8. Reached(t) = 1..7
  <2>1. \A n \in 1..7 : n \in 1..2 \/ (n - 2 \in 1..5 /\ (n - 2) + 2 = n)
    OBVIOUS
  <2>2. \A n \in 1..7 : n - 2 \in 1..5 => evs[n - 2].type = Lifecycle[n]
    BY <2>1
  <2>3. /\ \A n \in 1..7 : n \in Reached(t) <=>
             n \in Reached(j) \/ \E i \in 1..Len(evs) : evs[i].type = Lifecycle[n]
        /\ Reached(t) \subseteq 1..7
    BY ReachedGrows, SMTT(30)
  <2>4. 1..Len(evs) = 1..5
    OBVIOUS
  <2>5. \A n \in 1..7 : n \in Reached(t)
    <3> TAKE n \in 1..7
    <3>1. CASE n \in 1..2
      BY <1>5, <2>3, <3>1
    <3>2. CASE n - 2 \in 1..5
      BY <2>2, <2>3, <2>4, <3>2
    <3> QED BY <2>1, <3>1, <3>2
  <2> QED BY <2>3, <2>5
<1>9. ~Failed(t)
  BY <1>6, <1>7, ReachedGrows
<1>10. PhaseOK(t)
  <2>1. \A i \in DOMAIN t : VerdictFits(t[i])
    BY <1>7, VerdictsGrow DEF PhaseOK
  <2> QED BY <1>8, <2>1 DEF PhaseOK
<1>11. OutcomeOf(t) \in {"passed", "rejected"} /\ PhaseOf(t) = 7
  <2>1. 7 \in 1..7
    OBVIOUS
  <2>2. Terminal(t)
    BY <1>8, <2>1, EndIsFailureOrVerdict
  <2> QED BY <1>8, <1>9, <1>10, <2>1, <2>2, VerdictType, PhaseIsPosition
<1> QED
  BY <1>6, <1>10, <1>11 DEF Concludes

LEMMA BatchMoves ==
  ASSUME NEW t, NEW j, NEW evs, Extension(t, j, evs), AcceptsAll(j, evs), PhaseOK(j), Batch(evs)
  PROVE  PhaseOK(t) /\ (Stays(t, j) \/ Advances(t, j) \/ Concludes(t, j) \/ Fails(t, j))
  BY RecoveryMoves, EventMoves, ReplayMoves DEF Batch

LifecycleInv == \A r \in Runs : PhaseOK(journal[r])

\* The journals of a step: no change, or one batch for one run.
WritesBatch ==
  \/ journal' = journal
  \/ \E c \in Commands : \E evs \in Journals : Writes(c, evs) /\ Batch(evs)

LEMMA ClaimBatch ==
  ASSUME QueueInv, NEW w \in Workers, NEW c \in Commands, Claim(w, c)
  PROVE  WritesBatch
<1>0. PICK n : n = cmd[c].attempts + 1
  OBVIOUS
<1>1. n \in Nat /\ Writes(c, ClaimEvents(c, n)) /\ QueueTypeOK
  BY <1>0, ClaimWrites DEF QueueInv
<1>2. \A i \in 1..Len(ClaimEvents(c, n)) : IsRecovery(ClaimEvents(c, n)[i])
  BY <1>1, ClaimEventsShape
<1>3. ClaimEvents(c, n) \in Journals
  BY <1>1 DEF Writes, Extension
<1> QED
  BY <1>1, <1>2, <1>3 DEF WritesBatch, Batch

LEMMA CompleteBatch ==
  ASSUME QueueInv, NEW w \in Workers, NEW out \in Outcomes, Stepwise(out), NEW children,
         Complete(w, out, children)
  PROVE  WritesBatch
<1>0. PICK c, evs : c = worker[w].cmd /\ evs = OutcomeEvents(c, out)
  OBVIOUS
<1>1. Writes(c, evs)
  BY <1>0, CompleteWrites
<1>2. c \in Commands /\ evs \in Journals
  BY <1>1 DEF Writes, Extension
<1>3. /\ Len(evs) = Len(out)
      /\ \A i \in 1..Len(out) :
           ~IsRecovery(evs[i]) /\ evs[i].type = out[i].type /\ evs[i].info = out[i].info
  <2>1. /\ Len(evs) = Len(out)
        /\ \A i \in 1..Len(out) : /\ evs[i] = LifecycleEvent(c, i, out[i]) /\ ~IsRecovery(evs[i])
                                 /\ evs[i].type = out[i].type
    BY <1>0, <1>2, OutcomeEventsShape
  <2>2. \A i, effect : LifecycleEvent(c, i, effect).info = effect.info
    BY DEF LifecycleEvent
  <2> QED BY <2>1, <2>2
<1>4. Batch(evs)
  <2>1. CASE Len(out) = 0
    <3>1. 1..Len(evs) = {}
      BY <1>3, <2>1
    <3> QED BY <3>1 DEF Batch
  <2>2. CASE Len(out) = 1 /\ VerdictFits(out[1])
    <3>1. 1 \in 1..Len(out)
      BY <2>2, 1 \in 1..1
    <3> QED BY <1>3, <2>2, <3>1 DEF Batch, VerdictFits
  <2>3. CASE /\ Len(out) = 5 /\ VerdictFits(out[5])
             /\ \A i \in 1..5 : out[i].type = Lifecycle[i + 2]
    <3>1. 5 \in 1..5 /\ 1..Len(out) = 1..5 /\ Len(evs) = 5
      BY <1>3, <2>3
    <3>2. VerdictFits(evs[5])
      BY <1>3, <2>3, <3>1 DEF VerdictFits
    <3>3. \A i \in 1..5 : evs[i].type = Lifecycle[i + 2]
      BY <1>3, <2>3, <3>1
    <3> QED BY <3>1, <3>2, <3>3 DEF Batch
  <2> QED BY <2>1, <2>2, <2>3 DEF Stepwise
<1> QED
  BY <1>1, <1>2, <1>4 DEF WritesBatch

LEMMA RetryBatch ==
  ASSUME QueueInv, NEW w \in Workers, Retry(w)
  PROVE  WritesBatch
<1>0. PICK c, f : c = worker[w].cmd /\ f = worker[w].failure
  OBVIOUS
<1>1. Writes(c, RetryEvents(c, f)) /\ f \in Failure
  BY <1>0, RetryWrites
<1>2. c \in Commands /\ RetryEvents(c, f) \in Journals
  BY <1>1 DEF Writes, Extension
<1>3. Batch(<<>>)
  <2>1. 1..Len(<<>>) = {}
    OBVIOUS
  <2> QED BY <2>1 DEF Batch
<1>4. ASSUME NEW e, IsRecovery(e) PROVE Batch(<<e>>)
  <2>1. \A i \in 1..Len(<<e>>) : <<e>>[i] = e
    OBVIOUS
  <2> QED BY <1>4, <2>1 DEF Batch
<1>5. ASSUME NEW e, ~IsRecovery(e), e.type = "RUN_FAILED" PROVE Batch(<<e>>)
  <2>1. Len(<<e>>) = 1 /\ <<e>>[1] = e /\ VerdictFits(e)
    BY <1>5 DEF VerdictFits
  <2> QED BY <1>5, <2>1 DEF Batch
<1>6. \A type \in RecoveryTypes : \A n : IsRecovery(RecoveryEvent(type, c, n))
  BY DEF IsRecovery, RecoveryEvent
<1>7. \A info : LET e == LifecycleEvent(c, 1, [type |-> "RUN_FAILED", info |-> info]) IN
                 ~IsRecovery(e) /\ e.type = "RUN_FAILED"
  BY DEF LifecycleEvent, IsRecovery, RecoveryTypes
<1>8. {"STAGE_WAITING", "STAGE_RETRY_SCHEDULED"} \subseteq RecoveryTypes
  BY DEF RecoveryTypes
<1>9. \/ RetryEvents(c, f) = <<>>
      \/ \E type \in {"STAGE_WAITING", "STAGE_RETRY_SCHEDULED"} :
           RetryEvents(c, f) = <<RecoveryEvent(type, c, cmd[c].attempts)>>
      \/ RetryEvents(c, f) =
           <<LifecycleEvent(c, 1, [type |-> "RUN_FAILED", info |-> StageOf[c]])>>
  BY <1>1, <1>2, RetryEventsShape
<1>10. Batch(RetryEvents(c, f))
  BY <1>3, <1>4, <1>5, <1>6, <1>7, <1>8, <1>9
<1> QED
  BY <1>1, <1>2, <1>10 DEF WritesBatch

\* Such a step is a step of the promise, or none.
LEMMA BatchIsPromised ==
  ASSUME QueueInv, LifecycleInv, WritesBatch
  PROVE  LifecycleInv' /\ [Promise!Next]_(Promise!vars)
<1> DEFINE phase   == [r \in Runs |-> PhaseOf(journal[r])]
           outcome == [r \in Runs |-> OutcomeOf(journal[r])]
<1>1. CASE journal' = journal
  BY <1>1 DEF LifecycleInv, Promise!vars
<1>2. ASSUME NEW c \in Commands, NEW evs \in Journals, Writes(c, evs), Batch(evs)
      PROVE  LifecycleInv' /\ [Promise!Next]_(Promise!vars)
  <2>0. PICK r : r = RunOf[c]
    OBVIOUS
  <2>1. /\ r \in Runs
        /\ Extension(journal'[r], journal[r], evs) /\ AcceptsAll(journal[r], evs)
        /\ \A s \in Runs : s # r => journal'[s] = journal[s]
    BY <1>2, <2>0 DEF Writes, JournalOf
  <2>2. PICK j, t : j = journal[r] /\ t = journal'[r]
    OBVIOUS
  <2>3. PhaseOK(t) /\ (Stays(t, j) \/ Advances(t, j) \/ Concludes(t, j) \/ Fails(t, j))
    BY <1>2, <2>1, <2>2, BatchMoves DEF LifecycleInv
  <2>4. LifecycleInv'
    BY <2>1, <2>2, <2>3 DEF LifecycleInv
  <2>5. /\ \A s \in Runs : s # r => phase'[s] = phase[s] /\ outcome'[s] = outcome[s]
        /\ phase[r] = PhaseOf(j) /\ outcome[r] = OutcomeOf(j)
        /\ phase'[r] = PhaseOf(t) /\ outcome'[r] = OutcomeOf(t)
    BY <2>1, <2>2
  <2>6. /\ DOMAIN phase = Runs /\ DOMAIN phase' = Runs
        /\ phase = [s \in Runs |-> phase[s]] /\ phase' = [s \in Runs |-> phase'[s]]
        /\ outcome = [s \in Runs |-> outcome[s]] /\ outcome' = [s \in Runs |-> outcome'[s]]
    OBVIOUS
  <2>7. /\ Promise!vars = <<phase, outcome>> /\ (Promise!vars)' = <<phase', outcome'>>
        /\ Promise!Advance(r) <=> /\ outcome[r] = "open" /\ phase[r] < 6
                                 /\ phase' = [phase EXCEPT ![r] = @ + 1]
                                 /\ outcome' = outcome
        /\ Promise!Conclude(r) <=>
             /\ outcome[r] = "open" /\ phase[r] \in {2, 6}
             /\ phase' = [phase EXCEPT ![r] = 7]
             /\ \E v \in {"passed", "rejected"} : outcome' = [outcome EXCEPT ![r] = v]
        /\ Promise!Fail(r) <=> /\ outcome[r] = "open"
                              /\ outcome' = [outcome EXCEPT ![r] = "failed"]
                              /\ phase' = phase
        /\ Promise!Advance(r) \/ Promise!Conclude(r) \/ Promise!Fail(r) => Promise!Next
    BY <2>1 DEF Promise!vars, Promise!Next, Promise!Advance, Promise!Conclude, Promise!Fail, Promise!Open
  <2> HIDE DEF phase, outcome
  <2>8. CASE Stays(t, j)
    <3>1. phase' = phase /\ outcome' = outcome
      BY <2>5, <2>6, <2>8 DEF Stays
    <3> QED BY <2>4, <2>7, <3>1
  <2>9. CASE Advances(t, j)
    <3>1. outcome' = outcome /\ phase' = [phase EXCEPT ![r] = @ + 1]
      BY <2>5, <2>6, <2>9 DEF Advances
    <3> QED BY <2>4, <2>5, <2>7, <2>9, <3>1 DEF Advances
  <2>10. CASE Concludes(t, j)
    <3>1. /\ phase' = [phase EXCEPT ![r] = 7]
          /\ outcome' = [outcome EXCEPT ![r] = OutcomeOf(t)]
      BY <2>5, <2>6, <2>10 DEF Concludes
    <3> QED BY <2>4, <2>5, <2>7, <2>10, <3>1 DEF Concludes
  <2>11. CASE Fails(t, j)
    <3>1. phase' = phase /\ outcome' = [outcome EXCEPT ![r] = "failed"]
      BY <2>5, <2>6, <2>11 DEF Fails
    <3> QED BY <2>4, <2>5, <2>7, <2>11, <3>1 DEF Fails
  <2> QED
    BY <2>3, <2>8, <2>9, <2>10, <2>11
<1> QED
  BY <1>1, <1>2 DEF WritesBatch

LEMMA LifecycleStart == QueueInit => LifecycleInv /\ Promise!Init
<1> SUFFICES ASSUME QueueInit PROVE LifecycleInv /\ Promise!Init
  OBVIOUS
<1>1. ASSUME NEW r \in Runs
      PROVE  /\ PhaseOK(journal[r]) /\ PhaseOf(journal[r]) = 1 /\ OutcomeOf(journal[r]) = "open"
  <2>1. journal[r] = <<RunCreated>>
    BY DEF QueueInit
  <2>2. DOMAIN journal[r] = {1} /\ journal[r][1].type = "RUN_CREATED"
    BY <2>1 DEF RunCreated
  <2>3. \A k \in 1..7 : Lifecycle[k] = "RUN_CREATED" <=> k = 1
    <3>1. 1 \in 1..7 /\ Lifecycle[1] = "RUN_CREATED"
      BY DEF Lifecycle
    <3> QED BY <3>1, PositionsDiffer
  <2>4. Reached(journal[r]) = 1..1
    <3>1. 1..1 = {1} /\ 1 \in 1..7
      OBVIOUS
    <3>2. \A k : k \in Reached(journal[r]) <=> k = 1
      BY <2>2, <2>3, <3>1 DEF Reached
    <3> QED BY <3>1, <3>2
  <2>5. ~Terminal(journal[r]) /\ ~Failed(journal[r])
    BY <2>2 DEF Terminal, Closes, Failed
  <2>6. PhaseOK(journal[r])
    BY <2>2, <2>4 DEF PhaseOK, VerdictFits
  <2>7. PhaseOf(journal[r]) = 1
    BY <2>4, PhaseIsPosition
  <2> QED BY <2>5, <2>6, <2>7 DEF OutcomeOf
<1> QED
  BY <1>1 DEF LifecycleInv, Promise!Init

LEMMA QueueWritesBatch ==
  ASSUME QueueInv, [QueueNext]_queueVars, \A out \in Outcomes : Stepwise(out)
  PROVE  WritesBatch
<1>1. ASSUME NEW c, Enqueue(c) \/ DeadlinePasses(c) PROVE WritesBatch
  BY <1>1 DEF Enqueue, DeadlinePasses, WritesBatch
<1>2. CASE UNCHANGED <<journal, cmd>>
  BY <1>2 DEF WritesBatch
<1> QED
  BY <1>1, <1>2, StepShape, ClaimBatch, CompleteBatch, RetryBatch

\* For any workers, runs and commands: when a handler appends nothing, one event
\* or the rest of a recorded run, a run moves only as RunLifecycle allows.
THEOREM LifecycleImplemented ==
  ASSUME \A out \in Outcomes : Stepwise(out)
  PROVE  QueueSpec => ImplementsLifecycle
<1>1. QueueInv /\ LifecycleInv /\ [QueueNext]_queueVars
        => LifecycleInv' /\ [Promise!Next]_(Promise!vars)
  BY QueueWritesBatch, BatchIsPromised
<1> QED
  BY <1>1, LifecycleStart, QueueInvariant, PTL DEF QueueSpec, ImplementsLifecycle, Promise!Spec

---------------------------------------------------------------------------
(* The order of recovery evidence, and which claims the journal accepts.   *)

IsEvidence(e, c) == IsRecovery(e) /\ e.cmd = c

\* The evidence of a command tells its attempts in order.
InOrder(j, c) ==
  \A i, k \in DOMAIN j :
    IsEvidence(j[i], c) /\ IsEvidence(j[k], c) /\ i < k =>
      /\ j[i].attempt <= j[k].attempt
      /\ j[k].type = "RUN_RESUMED" => j[i].attempt < j[k].attempt

\* It tells of no attempt later than n, and the first is never a resume.
Bounded(j, c, n) ==
  \A i \in DOMAIN j : IsEvidence(j[i], c) =>
    j[i].attempt <= n /\ (j[i].type = "RUN_RESUMED" => j[i].attempt > 1)

\* Of attempt n it tells at most that it was resumed.
OnlyResumed(j, c, n) ==
  \A i \in DOMAIN j : IsEvidence(j[i], c) /\ j[i].attempt = n => j[i].type = "RUN_RESUMED"

Ordered(c) ==
  /\ InOrder(JournalOf(c), c)
  /\ Bounded(JournalOf(c), c, cmd[c].attempts)
  /\ cmd[c].status = "leased" => OnlyResumed(JournalOf(c), c, cmd[c].attempts)

EvidenceOrdered == \A c \in Commands : Ordered(c)

\* Events that may follow evidence of attempts up to m.
Continues(evs, c, m) ==
  /\ \A i \in 1..Len(evs) : IsEvidence(evs[i], c) =>
       m <= evs[i].attempt /\ (evs[i].type = "RUN_RESUMED" => m < evs[i].attempt)
  /\ InOrder(evs, c)

LEMMA EventTyped ==
  ASSUME NEW j \in Journals, NEW i \in DOMAIN j
  PROVE  j[i] \in Event(Commands) /\ j[i].attempt \in Nat /\ j[i].cmd \in Commands \cup {NoCommand}
<1>1. i \in 1..Len(j)
  BY LenProperties DEF Journals
<1>2. j[i] \in Event(Commands)
  BY <1>1, ElementOfSeq DEF Journals
<1> QED BY <1>2 DEF Event

LEMMA OrderGrows ==
  ASSUME NEW t, NEW j, NEW evs, Extension(t, j, evs), NEW c, NEW m \in Nat,
         InOrder(j, c), Bounded(j, c, m), Continues(evs, c, m)
  PROVE  InOrder(t, c)
<1> SUFFICES ASSUME NEW i \in DOMAIN t, NEW k \in DOMAIN t,
                    IsEvidence(t[i], c), IsEvidence(t[k], c), i < k
             PROVE  /\ t[i].attempt <= t[k].attempt
                    /\ t[k].type = "RUN_RESUMED" => t[i].attempt < t[k].attempt
  BY DEF InOrder
<1>0. /\ DOMAIN t = 1..Len(t) /\ DOMAIN j = 1..Len(j) /\ DOMAIN evs = 1..Len(evs)
      /\ Len(t) \in Nat /\ Len(j) \in Nat
  BY DEF Extension
<1>1. \A x \in DOMAIN t : \/ x \in DOMAIN j /\ t[x] = j[x]
                         \/ /\ x > Len(j) /\ t[x] = evs[x - Len(j)]
                            /\ x - Len(j) \in DOMAIN evs
  <2>1. \A x \in 1..Len(t) : x > Len(j) \/ x \in 1..Len(j)
    BY <1>0
  <2> QED BY <1>0, <2>1 DEF Extension
<1>2. \A x \in DOMAIN j : j[x].attempt \in Nat
  BY EventTyped DEF Extension
<1>3. \A x \in DOMAIN evs : evs[x].attempt \in Nat
  BY EventTyped DEF Extension
<1>4. CASE k \in DOMAIN j
  <2>1. i \in DOMAIN j /\ ~(k > Len(j)) /\ ~(i > Len(j))
    BY <1>0, <1>4
  <2>2. t[i] = j[i] /\ t[k] = j[k]
    BY <1>1, <2>1
  <2> QED BY <1>4, <2>1, <2>2 DEF InOrder
<1>5. CASE k \notin DOMAIN j
  <2>1. PICK z : z = k - Len(j)
    OBVIOUS
  <2>2. t[k] = evs[z] /\ z \in DOMAIN evs
    BY <1>1, <1>5, <2>1
  <2>3. CASE i \in DOMAIN j
    <3>1. t[i] = j[i]
      BY <1>0, <1>1, <2>3
    <3>2. /\ j[i].attempt <= m /\ m <= evs[z].attempt
          /\ evs[z].type = "RUN_RESUMED" => m < evs[z].attempt
      BY <1>0, <2>2, <2>3, <3>1 DEF Bounded, Continues
    <3>3. j[i].attempt \in Nat /\ evs[z].attempt \in Nat
      BY <1>2, <1>3, <2>2, <2>3
    <3> QED BY <2>2, <3>1, <3>2, <3>3
  <2>4. CASE i \notin DOMAIN j
    <3>1. PICK y : y = i - Len(j)
      OBVIOUS
    <3>2. t[i] = evs[y] /\ y \in DOMAIN evs
      BY <1>1, <2>4, <3>1
    <3>3. y < z
      BY <1>0, <2>1, <3>1
    <3> QED BY <2>2, <3>2, <3>3 DEF Continues, InOrder
  <2> QED BY <2>3, <2>4
<1> QED
  BY <1>4, <1>5

LEMMA BoundGrows ==
  ASSUME NEW t, NEW j, NEW evs, Extension(t, j, evs), NEW c, NEW m \in Nat, NEW n \in Nat, m <= n,
         Bounded(j, c, m),
         \A i \in 1..Len(evs) : IsEvidence(evs[i], c) =>
           evs[i].attempt <= n /\ (evs[i].type = "RUN_RESUMED" => evs[i].attempt > 1)
  PROVE  Bounded(t, c, n)
<1>0. /\ DOMAIN t = 1..Len(t) /\ DOMAIN j = 1..Len(j) /\ DOMAIN evs = 1..Len(evs)
      /\ Len(t) \in Nat /\ Len(j) \in Nat
  BY DEF Extension
<1>1. \A x \in 1..Len(t) : x > Len(j) \/ x \in 1..Len(j)
  BY <1>0
<1>2. \A x \in DOMAIN j : j[x].attempt \in Nat
  BY EventTyped DEF Extension
<1>3. ASSUME NEW x \in DOMAIN j, IsEvidence(j[x], c)
      PROVE  j[x].attempt <= n /\ (j[x].type = "RUN_RESUMED" => j[x].attempt > 1)
  <2>1. /\ j[x].attempt <= m /\ (j[x].type = "RUN_RESUMED" => j[x].attempt > 1)
        /\ j[x].attempt \in Nat
    BY <1>2, <1>3 DEF Bounded
  <2> QED BY <2>1
<1>4. ASSUME NEW x \in 1..Len(t), IsEvidence(t[x], c)
      PROVE  t[x].attempt <= n /\ (t[x].type = "RUN_RESUMED" => t[x].attempt > 1)
  <2>1. CASE x > Len(j)
    <3>1. x - Len(j) \in 1..Len(evs) /\ t[x] = evs[x - Len(j)]
      BY <2>1 DEF Extension
    <3> QED BY <1>4, <3>1
  <2>2. CASE x \in 1..Len(j)
    <3>1. x \in DOMAIN j /\ t[x] = j[x]
      BY <1>0, <2>2 DEF Extension
    <3> QED BY <1>3, <1>4, <3>1
  <2> QED BY <1>1, <2>1, <2>2
<1> QED
  BY <1>0, <1>4 DEF Bounded

LEMMA OnlyResumedGrows ==
  ASSUME NEW t, NEW j, NEW evs, Extension(t, j, evs), NEW c, NEW n,
         OnlyResumed(j, c, n),
         \A i \in 1..Len(evs) : IsEvidence(evs[i], c) /\ evs[i].attempt = n => evs[i].type = "RUN_RESUMED"
  PROVE  OnlyResumed(t, c, n)
<1>0. /\ DOMAIN t = 1..Len(t) /\ DOMAIN j = 1..Len(j) /\ DOMAIN evs = 1..Len(evs)
      /\ Len(t) \in Nat /\ Len(j) \in Nat
  BY DEF Extension
<1>1. \A x \in 1..Len(t) : x > Len(j) \/ x \in 1..Len(j)
  BY <1>0
<1>4. ASSUME NEW x \in 1..Len(t), IsEvidence(t[x], c), t[x].attempt = n
      PROVE  t[x].type = "RUN_RESUMED"
  <2>1. CASE x > Len(j)
    <3>1. x - Len(j) \in 1..Len(evs) /\ t[x] = evs[x - Len(j)]
      BY <2>1 DEF Extension
    <3> QED BY <1>4, <3>1
  <2>2. CASE x \in 1..Len(j)
    <3>1. x \in DOMAIN j /\ t[x] = j[x]
      BY <1>0, <2>2 DEF Extension
    <3> QED BY <1>4, <3>1 DEF OnlyResumed
  <2> QED BY <1>1, <2>1, <2>2
<1> QED
  BY <1>0, <1>4 DEF OnlyResumed

\* Batches without evidence of a command, and batches of one or two events.
LEMMA NoEvidenceContinues ==
  ASSUME NEW evs \in Journals, NEW c, NEW m, \A i \in 1..Len(evs) : ~IsEvidence(evs[i], c)
  PROVE  Continues(evs, c, m)
<1>1. DOMAIN evs = 1..Len(evs)
  BY LenProperties DEF Journals
<1> QED BY <1>1 DEF Continues, InOrder

LEMMA OneContinues ==
  ASSUME NEW e \in Event(Commands), NEW c, NEW m \in Nat,
         m <= e.attempt, e.type = "RUN_RESUMED" => m < e.attempt
  PROVE  Continues(<<e>>, c, m)
<1>1. Len(<<e>>) = 1 /\ DOMAIN <<e>> = {1} /\ <<e>>[1] = e /\ 1..1 = {1}
  OBVIOUS
<1>2. InOrder(<<e>>, c)
  BY <1>1 DEF InOrder
<1> QED BY <1>1, <1>2 DEF Continues

\* The evidence of other commands, and that of a command whose attempt goes on.
LEMMA OrderedKept ==
  ASSUME QueueInv, NEW c, NEW evs, Writes(c, evs), NEW d \in Commands, Ordered(d),
         cmd'[d].attempts = cmd[d].attempts,
         cmd'[d].status = "leased" => cmd[d].status = "leased",
         \A i \in 1..Len(evs) : ~IsEvidence(evs[i], d)
  PROVE  Ordered(d)'
<1>0. PICK j, t, m : j = JournalOf(d) /\ t = journal'[RunOf[d]] /\ m = cmd[d].attempts
  OBVIOUS
<1>1. RunOf[d] \in Runs /\ m \in Nat
  BY <1>0, QueueAssumption DEF QueueInv, QueueTypeOK, CommandRow
<1>2. InOrder(j, d) /\ Bounded(j, d, m) /\ (cmd[d].status = "leased" => OnlyResumed(j, d, m))
  BY <1>0 DEF Ordered
<1>3. InOrder(t, d) /\ Bounded(t, d, m) /\ (cmd[d].status = "leased" => OnlyResumed(t, d, m))
  <2>1. CASE RunOf[d] = RunOf[c]
    <3>1. Extension(t, j, evs) /\ evs \in Journals
      BY <1>0, <2>1 DEF Writes, JournalOf, Extension
    <3>2. Continues(evs, d, m)
      BY <3>1, NoEvidenceContinues
    <3>3. InOrder(t, d)
      BY <1>1, <1>2, <3>1, <3>2, OrderGrows
    <3>4. Bounded(t, d, m)
      BY <1>1, <1>2, <3>1, BoundGrows
    <3>5. ASSUME cmd[d].status = "leased" PROVE OnlyResumed(t, d, m)
      BY <1>2, <3>1, <3>5, OnlyResumedGrows
    <3> QED BY <3>3, <3>4, <3>5
  <2>2. CASE RunOf[d] # RunOf[c]
    <3>1. t = j
      BY <1>0, <1>1, <2>2 DEF Writes, JournalOf
    <3> QED BY <1>2, <3>1
  <2> QED BY <2>1, <2>2
<1> QED
  BY <1>0, <1>3 DEF Ordered, JournalOf

\* What a claim may tell: the end of the last lease, and the resume.
ExpiryTold(c, n) == RecoveryEvent("STAGE_RETRY_SCHEDULED", c, n - 1)

ResumeTold(c, n) == RecoveryEvent("RUN_RESUMED", c, n)

LEMMA ClaimForms ==
  ASSUME NEW c \in Commands, NEW n \in Nat
  PROVE  /\ TellsResume(c, n) => n > 1 /\ c \notin Auxiliary
         /\ ~TellsResume(c, n) => ClaimEvents(c, n) = <<>>
         /\ TellsResume(c, n) /\ ~TellsExpiry(c, n) => ClaimEvents(c, n) = <<ResumeTold(c, n)>>
         /\ TellsResume(c, n) /\ TellsExpiry(c, n) => ClaimEvents(c, n) = <<ExpiryTold(c, n)>> \o <<ResumeTold(c, n)>>
         /\ n > 1 => ExpiryTold(c, n) \in Event(Commands)
         /\ ResumeTold(c, n) \in Event(Commands)
         /\ IsEvidence(ExpiryTold(c, n), c) /\ IsEvidence(ResumeTold(c, n), c)
         /\ ExpiryTold(c, n).type = "STAGE_RETRY_SCHEDULED" /\ ExpiryTold(c, n).attempt = n - 1
         /\ ResumeTold(c, n).type = "RUN_RESUMED" /\ ResumeTold(c, n).attempt = n
<1>1. n > 1 => ExpiryTold(c, n) \in Event(Commands)
  BY DEF ExpiryTold, ResumeTold, RecoveryEvent, Event, RecoveryTypes, Infos
<1>2. ResumeTold(c, n) \in Event(Commands)
  BY DEF ExpiryTold, ResumeTold, RecoveryEvent, Event, RecoveryTypes, Infos
<1>3. /\ IsEvidence(ExpiryTold(c, n), c) /\ IsEvidence(ResumeTold(c, n), c)
      /\ ExpiryTold(c, n).type = "STAGE_RETRY_SCHEDULED" /\ ExpiryTold(c, n).attempt = n - 1
      /\ ResumeTold(c, n).type = "RUN_RESUMED" /\ ResumeTold(c, n).attempt = n
  BY DEF ExpiryTold, ResumeTold, RecoveryEvent, IsEvidence, IsRecovery, RecoveryTypes
<1>4. TellsResume(c, n) => n > 1 /\ c \notin Auxiliary
  BY DEF TellsResume
<1>5. ASSUME ~TellsResume(c, n) PROVE ClaimEvents(c, n) = <<>>
  <2>1. ~TellsExpiry(c, n)
    BY <1>5 DEF TellsResume, TellsExpiry, LastResumed
  <2> QED BY <1>5, <2>1, EmptySeq, ConcatEmptySeq DEF ClaimEvents
<1>6. ASSUME TellsResume(c, n), ~TellsExpiry(c, n) PROVE ClaimEvents(c, n) = <<ResumeTold(c, n)>>
  <2>1. ClaimEvents(c, n) = <<>> \o <<ResumeTold(c, n)>>
    BY <1>6 DEF ClaimEvents, ResumeTold
  <2>2. <<ResumeTold(c, n)>> \in Seq(Event(Commands))
    BY <1>2
  <2> QED BY <2>1, <2>2, ConcatEmptySeq
<1>7. ASSUME TellsResume(c, n), TellsExpiry(c, n)
      PROVE  ClaimEvents(c, n) = <<ExpiryTold(c, n)>> \o <<ResumeTold(c, n)>>
  BY <1>7 DEF ClaimEvents, ExpiryTold, ResumeTold
<1> QED
  BY <1>1, <1>2, <1>3, <1>4, <1>5, <1>6, <1>7

\* What a claim tells continues the evidence of the earlier attempts.
LEMMA ClaimContinues ==
  ASSUME NEW c \in Commands, NEW m \in Nat, NEW n, n = m + 1
  PROVE  /\ Continues(ClaimEvents(c, n), c, m)
         /\ \A i \in 1..Len(ClaimEvents(c, n)) :
              LET e == ClaimEvents(c, n)[i] IN
              /\ e.attempt <= n
              /\ e.type = "RUN_RESUMED" => e.attempt > 1
              /\ e.attempt = n => e.type = "RUN_RESUMED"
<1>0. PICK evs, expiry, resume :
        /\ evs = ClaimEvents(c, n)
        /\ expiry = ExpiryTold(c, n) /\ resume = ResumeTold(c, n)
  OBVIOUS
<1>1. n \in Nat /\ n - 1 = m /\ m < n /\ m <= n /\ n <= n
  OBVIOUS
<1>2. /\ TellsResume(c, n) => n > 1
      /\ ~TellsResume(c, n) => evs = <<>>
      /\ TellsResume(c, n) /\ ~TellsExpiry(c, n) => evs = <<resume>>
      /\ TellsResume(c, n) /\ TellsExpiry(c, n) => evs = <<expiry>> \o <<resume>>
      /\ n > 1 => expiry \in Event(Commands)
      /\ resume \in Event(Commands)
      /\ expiry.type = "STAGE_RETRY_SCHEDULED" /\ expiry.attempt = m
      /\ resume.type = "RUN_RESUMED" /\ resume.attempt = n
  <2>1. n \in Nat
    BY <1>1
  <2> QED BY <1>0, <1>1, <2>1, ClaimForms
<1> DEFINE P == /\ Continues(evs, c, m)
                /\ \A i \in 1..Len(evs) :
                     /\ evs[i].attempt <= n
                     /\ evs[i].type = "RUN_RESUMED" => evs[i].attempt > 1
                     /\ evs[i].attempt = n => evs[i].type = "RUN_RESUMED"
<1>3. ASSUME evs = <<>> PROVE P
  <2>1. evs \in Journals /\ 1..Len(evs) = {}
    BY <1>3 DEF Journals
  <2>2. Continues(evs, c, m)
    BY <2>1, NoEvidenceContinues
  <2> QED BY <2>1, <2>2
<1>4. ASSUME evs = <<resume>>, n > 1 PROVE P
  <2>1. Len(evs) = 1 /\ 1..1 = {1} /\ evs[1] = resume
    BY <1>4
  <2>2. Continues(evs, c, m)
    BY <1>1, <1>2, <1>4, OneContinues
  <2>3. \A i \in 1..Len(evs) : evs[i] = resume
    BY <2>1
  <2> QED BY <1>1, <1>2, <1>4, <2>2, <2>3
<1>5. ASSUME evs = <<expiry>> \o <<resume>>, n > 1 PROVE P
  <2>1. /\ Len(<<expiry>> \o <<resume>>) = 2
        /\ (<<expiry>> \o <<resume>>)[1] = expiry
        /\ (<<expiry>> \o <<resume>>)[2] = resume
    BY <1>2, <1>5, TwoEvents, Zenon
  <2>2. Len(evs) = 2 /\ evs[1] = expiry /\ evs[2] = resume
    BY <1>5, <2>1, Zenon
  <2>3. DOMAIN evs = 1..2
    <3>1. evs \in Journals
      <4>1. <<expiry>> \in Seq(Event(Commands)) /\ <<resume>> \in Seq(Event(Commands))
        BY <1>2, <1>5
      <4> QED BY <1>5, <4>1, ConcatProperties DEF Journals
    <3> QED BY <2>2, <3>1, LenProperties DEF Journals
  <2>4. \A i \in 1..2 : i = 1 \/ i = 2
    OBVIOUS
  <2>5. InOrder(evs, c)
    BY <1>1, <1>2, <2>2, <2>3, <2>4 DEF InOrder
  <2>6. \A i \in 1..Len(evs) : evs[i] = expiry \/ evs[i] = resume
    BY <2>2, <2>4
  <2>7. Continues(evs, c, m)
    BY <1>1, <1>2, <2>5, <2>6 DEF Continues
  <2>8. \A i \in 1..Len(evs) :
          /\ evs[i].attempt <= n
          /\ evs[i].type = "RUN_RESUMED" => evs[i].attempt > 1
          /\ evs[i].attempt = n => evs[i].type = "RUN_RESUMED"
    BY <1>1, <1>2, <1>5, <2>6
  <2> QED BY <2>7, <2>8
<1>6. P
  <2> HIDE DEF P
  <2> QED BY <1>2, <1>3, <1>4, <1>5
<1> QED
  BY <1>0, <1>6

LEMMA ClaimOrdered ==
  ASSUME QueueInv, EvidenceOrdered, NEW w \in Workers, NEW c \in Commands, Claim(w, c)
  PROVE  EvidenceOrdered'
<1>0. PICK m, n, evs : m = cmd[c].attempts /\ n = m + 1 /\ evs = ClaimEvents(c, n)
  OBVIOUS
<1>1. /\ Writes(c, evs) /\ cmd'[c].attempts = n
      /\ \A d \in Commands : d # c => cmd'[d] = cmd[d]
  BY <1>0, ClaimWrites
<1>2. m \in Nat /\ n \in Nat /\ m <= n /\ m < n /\ \A i \in 1..Len(evs) : evs[i].cmd = c
  BY <1>0, <1>1 DEF Writes, QueueInv, QueueTypeOK, CommandRow
<1>3. ASSUME NEW d \in Commands, d # c PROVE Ordered(d)'
  BY <1>1, <1>2, <1>3, OrderedKept DEF EvidenceOrdered, IsEvidence
<1>4. Ordered(c)'
  <2>0. PICK j, t : j = JournalOf(c) /\ t = journal'[RunOf[c]]
    OBVIOUS
  <2>1. Extension(t, j, evs) /\ InOrder(j, c) /\ Bounded(j, c, m)
    BY <1>0, <1>1, <2>0 DEF Writes, EvidenceOrdered, Ordered
  <2>2. /\ Continues(evs, c, m)
        /\ \A i \in 1..Len(evs) :
             /\ evs[i].attempt <= n
             /\ evs[i].type = "RUN_RESUMED" => evs[i].attempt > 1
             /\ evs[i].attempt = n => evs[i].type = "RUN_RESUMED"
    BY <1>0, <1>2, ClaimContinues
  <2>3. InOrder(t, c)
    BY <1>2, <2>1, <2>2, OrderGrows
  <2>4. Bounded(t, c, n)
    BY <1>2, <2>1, <2>2, BoundGrows
  <2>5. OnlyResumed(j, c, n)
    <3>1. \A i \in DOMAIN j : j[i].attempt \in Nat
      BY <2>1, EventTyped DEF Extension
    <3> QED BY <1>2, <2>1, <3>1 DEF OnlyResumed, Bounded
  <2>6. OnlyResumed(t, c, n)
    BY <2>1, <2>2, <2>5, OnlyResumedGrows
  <2> QED BY <1>1, <2>0, <2>3, <2>4, <2>6 DEF Ordered, JournalOf
<1> QED
  BY <1>3, <1>4 DEF EvidenceOrdered

LEMMA CompleteOrdered ==
  ASSUME QueueInv, EvidenceOrdered, NEW w \in Workers, NEW out \in Outcomes, NEW children,
         Complete(w, out, children)
  PROVE  EvidenceOrdered'
<1>0. PICK c, evs : c = worker[w].cmd /\ evs = OutcomeEvents(c, out)
  OBVIOUS
<1>1. /\ Writes(c, evs)
      /\ cmd'[c].status = "succeeded" /\ cmd'[c].attempts = cmd[c].attempts
      /\ \A d \in Commands : d # c =>
           cmd'[d] = cmd[d] \/ (cmd[d].status = "absent" /\ cmd'[d] = Fresh)
  BY <1>0, CompleteWrites
<1>2. \A i \in 1..Len(evs) : ~IsRecovery(evs[i])
  BY <1>0, <1>1, OutcomeEventsShape DEF Writes
<1>3. \A d \in Commands : cmd'[d].attempts = cmd[d].attempts
                          /\ (cmd'[d].status = "leased" => cmd[d].status = "leased")
  <2>1. \A d \in Commands : cmd[d].status = "absent" => cmd[d].attempts = 0
    BY DEF QueueInv, QueueTypeOK, RowOK
  <2>2. Fresh.attempts = 0 /\ Fresh.status = "queued"
    BY DEF Fresh
  <2> QED BY <1>1, <2>1, <2>2
<1>4. ASSUME NEW d \in Commands PROVE Ordered(d)'
  BY <1>1, <1>2, <1>3, OrderedKept DEF EvidenceOrdered, IsEvidence
<1> QED
  BY <1>4 DEF EvidenceOrdered

LEMMA RetryOrdered ==
  ASSUME QueueInv, EvidenceOrdered, NEW w \in Workers, Retry(w)
  PROVE  EvidenceOrdered'
<1>0. PICK c, f, evs, m : /\ c = worker[w].cmd /\ f = worker[w].failure
                          /\ evs = RetryEvents(c, f) /\ m = cmd[c].attempts
  OBVIOUS
<1>1. /\ f \in Failure /\ Writes(c, evs) /\ m > 0
      /\ cmd'[c].status = IF f = "terminal" THEN "dead" ELSE "queued"
      /\ cmd'[c].attempts = m
      /\ \A d \in Commands : d # c =>
           \/ cmd'[d] = cmd[d]
           \/ cmd'[d].status = "cancelled" /\ cmd'[d].attempts = cmd[d].attempts
  BY <1>0, RetryWrites
<1>2. m \in Nat /\ c \in Commands /\ \A i \in 1..Len(evs) : evs[i].cmd = c
  BY <1>0, <1>1 DEF Writes, QueueInv, QueueTypeOK, CommandRow
<1>3. \A d \in Commands : cmd'[d].attempts = cmd[d].attempts
                          /\ (cmd'[d].status = "leased" => cmd[d].status = "leased")
  BY <1>0, <1>1
<1>4. ASSUME NEW d \in Commands, d # c PROVE Ordered(d)'
  BY <1>1, <1>2, <1>3, <1>4, OrderedKept DEF EvidenceOrdered, IsEvidence
<1>5. Ordered(c)'
  <2>1. CASE \A i \in 1..Len(evs) : ~IsEvidence(evs[i], c)
    BY <1>1, <1>2, <1>3, <2>1, OrderedKept DEF EvidenceOrdered
  <2>2. ASSUME NEW type \in {"STAGE_WAITING", "STAGE_RETRY_SCHEDULED"},
               evs = <<RecoveryEvent(type, c, m)>>
        PROVE  Ordered(c)'
    <3>0. PICK j, t, e : /\ j = JournalOf(c) /\ t = journal'[RunOf[c]]
                         /\ e = RecoveryEvent(type, c, m)
      OBVIOUS
    <3>1. Extension(t, j, evs) /\ InOrder(j, c) /\ Bounded(j, c, m) /\ evs = <<e>>
      BY <1>0, <1>1, <1>2, <2>2, <3>0 DEF Writes, EvidenceOrdered, Ordered
    <3>2. /\ e \in Event(Commands) /\ e.attempt = m /\ e.type # "RUN_RESUMED"
      BY <1>2, <3>0 DEF RecoveryEvent, Event, RecoveryTypes, Infos
    <3>3. m <= m
      BY <1>2
    <3>4. Continues(evs, c, m)
      BY <1>2, <3>1, <3>2, <3>3, OneContinues
    <3>5. \A i \in 1..Len(evs) : evs[i] = e
      BY <3>1
    <3>6. InOrder(t, c)
      BY <1>2, <3>1, <3>4, OrderGrows
    <3>7. Bounded(t, c, m)
      BY <1>2, <3>1, <3>2, <3>3, <3>5, BoundGrows
    <3>8. cmd'[c].status # "leased"
      BY <1>1
    <3> QED BY <1>1, <3>0, <3>6, <3>7, <3>8 DEF Ordered, JournalOf
  <2>3. \/ evs = <<>>
        \/ \E type \in {"STAGE_WAITING", "STAGE_RETRY_SCHEDULED"} :
             evs = <<RecoveryEvent(type, c, m)>>
        \/ evs = <<LifecycleEvent(c, 1, [type |-> "RUN_FAILED", info |-> StageOf[c]])>>
    BY <1>0, <1>1, <1>2, RetryEventsShape
  <2>4. ASSUME evs = <<>> PROVE \A i \in 1..Len(evs) : ~IsEvidence(evs[i], c)
    <3>1. 1..Len(evs) = {}
      BY <2>4
    <3> QED BY <3>1
  <2>5. ASSUME NEW e, ~IsRecovery(e), evs = <<e>>
        PROVE  \A i \in 1..Len(evs) : ~IsEvidence(evs[i], c)
    <3>1. \A i \in 1..Len(evs) : evs[i] = e
      BY <2>5
    <3> QED BY <2>5, <3>1 DEF IsEvidence
  <2>6. ~IsRecovery(LifecycleEvent(c, 1, [type |-> "RUN_FAILED", info |-> StageOf[c]]))
    BY DEF LifecycleEvent, IsRecovery, RecoveryTypes
  <2> QED BY <2>1, <2>2, <2>3, <2>4, <2>5, <2>6
<1> QED
  BY <1>4, <1>5 DEF EvidenceOrdered

LEMMA OrderInit == QueueInit => EvidenceOrdered
<1> SUFFICES ASSUME QueueInit, NEW c \in Commands PROVE Ordered(c)
  BY DEF EvidenceOrdered
<1>1. JournalOf(c) = <<RunCreated>> /\ ~IsRecovery(RunCreated)
  BY QueueAssumption DEF QueueInit, JournalOf, RunCreated, IsRecovery, RecoveryTypes
<1>2. \A i \in DOMAIN JournalOf(c) : ~IsRecovery(JournalOf(c)[i])
  BY <1>1
<1> QED
  BY <1>2 DEF Ordered, InOrder, Bounded, OnlyResumed, IsEvidence

\* Rows that keep their attempts, and journals that stay, change no evidence.
LEMMA QuietOrder ==
  ASSUME EvidenceOrdered, journal' = journal,
         \A d \in Commands : cmd'[d].attempts = cmd[d].attempts
                             /\ (cmd'[d].status = "leased" => cmd[d].status = "leased")
  PROVE  EvidenceOrdered'
  BY DEF EvidenceOrdered, Ordered, JournalOf

LEMMA OrderStep == QueueInv /\ EvidenceOrdered /\ [QueueNext]_queueVars => EvidenceOrdered'
<1> SUFFICES ASSUME QueueInv, EvidenceOrdered, [QueueNext]_queueVars PROVE EvidenceOrdered'
  OBVIOUS
<1>1. CASE UNCHANGED <<journal, cmd>>
  BY <1>1, QuietOrder
<1>2. ASSUME NEW c \in Commands, Enqueue(c) PROVE EvidenceOrdered'
  <2>1. cmd \in [Commands -> CommandRow] /\ cmd[c].attempts = 0
    BY <1>2 DEF Enqueue, QueueInv, QueueTypeOK, RowOK
  <2>2. Fresh.status = "queued" /\ Fresh.attempts = 0
    BY DEF Fresh
  <2> QED BY <1>2, <2>1, <2>2, QuietOrder DEF Enqueue
<1>3. ASSUME NEW c \in Commands, DeadlinePasses(c) PROVE EvidenceOrdered'
  <2>1. cmd \in [Commands -> CommandRow]
    BY DEF QueueInv, QueueTypeOK
  <2>2. \A d \in Commands : cmd'[d].attempts = cmd[d].attempts /\ cmd'[d].status = cmd[d].status
    BY <1>3, <2>1 DEF DeadlinePasses, CommandRow
  <2> QED BY <1>3, <2>2, QuietOrder DEF DeadlinePasses
<1> QED
  BY <1>1, <1>2, <1>3, StepShape, QueueAssumption, ClaimOrdered, CompleteOrdered, RetryOrdered

\* Every journal begins with the creation of its run.
Created == \A r \in Runs : 1 \in DOMAIN journal[r] /\ journal[r][1] = RunCreated

LEMMA CreationStep ==
  ASSUME Created, journal' = journal \/ \E c, evs : Writes(c, evs)
  PROVE  Created'
<1>1. ASSUME NEW c, NEW evs, Writes(c, evs), NEW r \in Runs
      PROVE  1 \in DOMAIN journal'[r] /\ journal'[r][1] = RunCreated
  <2>1. CASE r = RunOf[c]
    BY <1>1, <2>1, EventsAreKept DEF Writes, JournalOf, Created
  <2>2. CASE r # RunOf[c]
    BY <1>1, <2>2 DEF Writes, Created
  <2> QED BY <2>1, <2>2
<1> QED
  BY <1>1 DEF Created

\* When a journal accepts a resume, and the end of a lease.
LEMMA ResumeAccepted ==
  ASSUME NEW j, NEW c, NEW n, ~Terminal(j), Unresolved(j, c),
         \E i \in DOMAIN j : ~IsRecovery(j[i]),
         \A i \in DOMAIN j : IsEvidence(j[i], c) => j[i].attempt < n /\ j[i].attempt <= n /\ j[i].attempt # n
  PROVE  Accepts(j, ResumeTold(c, n))
<1>0. PICK e : e = ResumeTold(c, n)
  OBVIOUS
<1>1. IsRecovery(e) /\ e.cmd = c /\ e.type = "RUN_RESUMED" /\ e.attempt = n
  BY <1>0 DEF ResumeTold, RecoveryEvent, IsRecovery, RecoveryTypes
<1>2. \A i \in DOMAIN j : ~SameKey(j[i], e)
  BY <1>1 DEF SameKey, IsEvidence
<1>3. \A i \in DOMAIN j : IsRecovery(j[i]) /\ j[i].cmd = e.cmd => j[i].attempt <= e.attempt
  BY <1>1 DEF IsEvidence
<1>4. \A i \in UnresolvedAt(j, e.cmd) : j[i].attempt < e.attempt
  BY <1>1 DEF UnresolvedAt, RecentAt, IsEvidence
<1>5. RecoveryFits(j, e)
  BY <1>1, <1>3, <1>4 DEF RecoveryFits
<1> QED
  BY <1>0, <1>1, <1>2, <1>5 DEF Accepts

LEMMA ExpiryAccepted ==
  ASSUME NEW j, NEW c, NEW n, ~Terminal(j),
         \E i \in DOMAIN j : ~IsRecovery(j[i]),
         \A i \in DOMAIN j : IsEvidence(j[i], c) =>
           j[i].attempt <= n - 1 /\ (j[i].attempt = n - 1 => j[i].type = "RUN_RESUMED")
  PROVE  Accepts(j, ExpiryTold(c, n))
<1>0. PICK e : e = ExpiryTold(c, n)
  OBVIOUS
<1>1. IsRecovery(e) /\ e.cmd = c /\ e.type = "STAGE_RETRY_SCHEDULED" /\ e.attempt = n - 1
  BY <1>0 DEF ExpiryTold, RecoveryEvent, IsRecovery, RecoveryTypes
<1>2. \A i \in DOMAIN j : ~SameKey(j[i], e)
  BY <1>1 DEF SameKey, IsEvidence
<1>3. \A i \in DOMAIN j : IsRecovery(j[i]) /\ j[i].cmd = e.cmd => j[i].attempt <= e.attempt
  BY <1>1 DEF IsEvidence
<1>4. RecoveryFits(j, e)
  BY <1>1, <1>3 DEF RecoveryFits
<1> QED
  BY <1>0, <1>1, <1>2, <1>4 DEF Accepts

LEMMA OneAccepted ==
  ASSUME NEW j \in Journals, NEW e, Accepts(j, e)
  PROVE  AcceptsAll(j, <<e>>)
<1>1. DOMAIN <<e>> = {1} /\ <<e>>[1] = e
  OBVIOUS
<1>2. SubSeq(<<e>>, 1, 1 - 1) = <<>>
  OBVIOUS
<1>3. j \o <<>> = j
  BY ConcatEmptySeq DEF Journals
<1>4. \A i \in DOMAIN <<e>> : i = 1
  BY <1>1
<1> QED
  BY <1>1, <1>2, <1>3, <1>4 DEF AcceptsAll

LEMMA TwoAccepted ==
  ASSUME NEW j \in Journals, NEW e \in Event(Commands), NEW f \in Event(Commands),
         Accepts(j, e), Accepts(j \o <<e>>, f)
  PROVE  AcceptsAll(j, <<e>> \o <<f>>)
<1>0. PICK evs : evs = <<e>> \o <<f>>
  OBVIOUS
<1>1. Len(evs) = 2 /\ evs[1] = e /\ evs[2] = f
  BY <1>0, TwoEvents
<1>2. evs \in Seq(Event(Commands))
  BY <1>0, ConcatProperties
<1>3. DOMAIN evs = 1..2 /\ \A i \in 1..2 : i = 1 \/ i = 2
  BY <1>1, <1>2, LenProperties
<1>4. SubSeq(evs, 1, 1 - 1) = <<>>
  BY <1>2
<1>5. SubSeq(evs, 1, 2 - 1) = <<e>>
  <2>1. 2 - 1 = 1 /\ 1 \in 1..2
    OBVIOUS
  <2>2. PICK q : q = SubSeq(evs, 1, 1)
    OBVIOUS
  <2>3. /\ \A i \in 1..1 : evs[i] \in Event(Commands)
        /\ \A i \in 1..(1 - 1 + 1) : i = 1
    BY <1>1
  <2>4. q \in Seq(Event(Commands)) /\ Len(q) = 1 /\ q[1] = evs[1]
    BY <2>2, <2>3, SubSeqProperties
  <2>5. q = <<e>>
    <3>1. DOMAIN q = {1} /\ q = [i \in DOMAIN q |-> q[i]]
      BY <2>4, LenProperties
    <3> QED BY <1>1, <2>4, <3>1
  <2> QED BY <2>1, <2>2, <2>5
<1>6. j \o <<>> = j
  BY ConcatEmptySeq DEF Journals
<1>7. Accepts(j \o SubSeq(evs, 1, 1 - 1), evs[1]) /\ Accepts(j \o SubSeq(evs, 1, 2 - 1), evs[2])
  BY <1>1, <1>4, <1>5, <1>6
<1> QED
  BY <1>0, <1>3, <1>7 DEF AcceptsAll

\* No lifecycle event of the run has come after the evidence of the command.
Clean(j, c) == \A i \in DOMAIN j : IsEvidence(j[i], c) => i \in RecentAt(j, c)

\* What a claim that tells of both ends of a lease needs.
LEMMA BothAccepted ==
  ASSUME NEW j \in Journals, NEW c \in Commands, NEW n \in Nat, n > 1, ~Terminal(j),
         \E i \in DOMAIN j : ~IsRecovery(j[i]),
         \A i \in DOMAIN j : IsEvidence(j[i], c) =>
           j[i].attempt <= n - 1 /\ (j[i].attempt = n - 1 => j[i].type = "RUN_RESUMED")
  PROVE  AcceptsAll(j, <<ExpiryTold(c, n)>> \o <<ResumeTold(c, n)>>)
<1>0. PICK e, t, m : e = ExpiryTold(c, n) /\ t = j \o <<e>> /\ m = n - 1
  OBVIOUS
<1>1. /\ e \in Event(Commands) /\ ResumeTold(c, n) \in Event(Commands)
      /\ IsEvidence(e, c) /\ e.attempt = m /\ e.type = "STAGE_RETRY_SCHEDULED"
  BY <1>0, ClaimForms
<1>2. m \in Nat /\ m <= n /\ m < n /\ \A k \in Nat : k <= m => k < n /\ k <= n /\ k # n
  BY <1>0
<1>3. Accepts(j, e)
  <2>1. Accepts(j, ExpiryTold(c, n))
    BY ExpiryAccepted
  <2> QED BY <1>0, <2>1
<1>4. Extension(t, j, <<e>>)
  <2>1. <<e>> \in Journals
    BY <1>1 DEF Journals
  <2>2. Extension(j \o <<e>>, j, <<e>>)
    BY <2>1, Appended
  <2> QED BY <1>0, <2>2
<1>5. /\ Len(<<e>>) = 1 /\ <<e>>[1] = e
      /\ \A i \in 1..Len(<<e>>) : i = 1
  OBVIOUS
<1>6. \A i \in DOMAIN t : (t[i] = e /\ i = Len(j) + 1) \/ (i \in DOMAIN j /\ t[i] = j[i])
  <2>1. \A i \in 1..Len(t) : i = Len(j) + 1 \/ i \in 1..Len(j)
    BY <1>4, <1>5 DEF Extension
  <2>2. t[Len(j) + 1] = e /\ 1 \in 1..1
    BY <1>4, <1>5 DEF Extension
  <2> QED BY <1>4, <2>1, <2>2 DEF Extension
<1>7. ~Terminal(t)
  BY <1>1, <1>6, RecoveryNeverCloses DEF Terminal, IsEvidence
<1>8. \E i \in DOMAIN t : ~IsRecovery(t[i])
  BY <1>4, EventsAreKept
<1>9. \A i \in DOMAIN t : IsEvidence(t[i], c) =>
        t[i].attempt < n /\ t[i].attempt <= n /\ t[i].attempt # n
  <2>1. \A i \in DOMAIN j : j[i].attempt \in Nat
    BY EventTyped
  <2> QED BY <1>0, <1>1, <1>2, <1>6, <2>1
<1>10. Unresolved(t, c)
  <2>1. Len(j) + 1 \in RecentAt(t, c)
    BY <1>1, <1>4, <1>5, RecentGrows DEF IsEvidence
  <2>2. t[Len(j) + 1] = e /\ Len(j) \in Nat /\ Len(t) = Len(j) + 1 /\ DOMAIN t = 1..Len(t)
    BY <1>4, <1>5 DEF Extension
  <2>3. \A k \in DOMAIN t : ~(k > Len(j) + 1)
    BY <2>2
  <2>4. RecentAt(t, c) \subseteq DOMAIN t
    BY DEF RecentAt
  <2> QED BY <1>1, <2>1, <2>2, <2>3, <2>4 DEF Unresolved, UnresolvedAt
<1>11. Accepts(t, ResumeTold(c, n))
  BY <1>7, <1>8, <1>9, <1>10, ResumeAccepted
<1> QED
  BY <1>0, <1>1, <1>3, <1>11, TwoAccepted

\* A command of an open run that has not moved on since can be claimed, now or
\* when its deadline has passed.
LEMMA CleanIsReclaimable ==
  ASSUME QueueInv, HistoryInv, EvidenceOrdered, Created, NEW c \in Commands, c \notin Auxiliary,
         cmd[c].status \in {"queued", "leased"}, ~Terminal(JournalOf(c)), Clean(JournalOf(c), c)
  PROVE  Reclaimable(c)
<1>0. PICK j, m, n : j = JournalOf(c) /\ m = cmd[c].attempts /\ n = m + 1
  OBVIOUS
<1>1. /\ m \in Nat /\ n \in Nat /\ n - 1 = m /\ m < n /\ m <= n
      /\ j \in Journals /\ RunOf[c] \in Runs
  BY <1>0, QueueAssumption DEF QueueInv, QueueTypeOK, CommandRow, JournalOf, Journals
<1>2. /\ 1 \in DOMAIN j /\ ~IsRecovery(j[1]) /\ j[1].cmd # c
      /\ \E i \in DOMAIN j : ~IsRecovery(j[i])
  BY <1>0, <1>1, QueueAssumption DEF Created, RunCreated, IsRecovery, RecoveryTypes, JournalOf
<1>3. /\ InOrder(j, c) /\ Bounded(j, c, m)
      /\ cmd[c].status = "leased" => OnlyResumed(j, c, m)
      /\ Clean(j, c) /\ ~Terminal(j)
  BY <1>0 DEF EvidenceOrdered, Ordered
<1>4. \A i \in DOMAIN j : j[i].attempt \in Nat
  BY <1>1, EventTyped
<1>5. SUFFICES AcceptsAll(j, ClaimEvents(c, n))
  BY <1>0 DEF Reclaimable
<1>6. /\ ~TellsResume(c, n) => ClaimEvents(c, n) = <<>>
      /\ TellsResume(c, n) /\ ~TellsExpiry(c, n) => ClaimEvents(c, n) = <<ResumeTold(c, n)>>
      /\ TellsResume(c, n) /\ TellsExpiry(c, n) =>
           ClaimEvents(c, n) = <<ExpiryTold(c, n)>> \o <<ResumeTold(c, n)>>
  BY <1>1, ClaimForms
<1>7. AcceptsAll(j, <<>>)
  BY DEF AcceptsAll
<1>8. \A i \in DOMAIN j : IsEvidence(j[i], c) =>
        j[i].attempt < n /\ j[i].attempt <= n /\ j[i].attempt # n
  BY <1>1, <1>3, <1>4 DEF Bounded
<1>9. CASE m = 0
  <2>1. ~(n > 1)
    BY <1>0, <1>9
  <2> QED BY <1>6, <1>7, <2>1 DEF TellsResume
<1>10. CASE m > 0 /\ cmd[c].status = "queued"
  <2>1. PICK i \in DOMAIN j : Announces(j[i], c, m)
    BY <1>0, <1>10 DEF HistoryInv, Announced
  <2>2. IsEvidence(j[i], c) /\ j[i].attempt = m /\ j[i].type # "RUN_RESUMED"
    BY <2>1 DEF Announces, IsEvidence, IsRecovery, RecoveryTypes
  <2>3. i \in RecentAt(j, c)
    BY <1>3, <2>2 DEF Clean
  <2>4. ASSUME NEW k \in RecentAt(j, c), k > i PROVE j[k].type # "RUN_RESUMED"
    <3>1. k \in DOMAIN j /\ IsEvidence(j[k], c) /\ i < k
      BY <1>1, <2>4 DEF RecentAt, IsEvidence
    <3>2. j[k].attempt <= m /\ j[k].attempt \in Nat
      BY <1>3, <1>4, <3>1 DEF Bounded
    <3>3. ~(m < j[k].attempt)
      BY <1>1, <3>2
    <3> QED BY <1>3, <2>2, <3>1, <3>3 DEF InOrder
  <2>5. Unresolved(j, c)
    BY <2>2, <2>3, <2>4 DEF Unresolved, UnresolvedAt
  <2>6. ~TellsExpiry(c, n) /\ TellsResume(c, n)
    <3>1. n > 1 /\ RecentAt(j, c) # {}
      BY <1>0, <1>1, <1>10, <2>3
    <3> QED BY <1>0, <2>5, <3>1 DEF TellsExpiry, TellsResume
  <2>7. Accepts(j, ResumeTold(c, n))
    BY <1>2, <1>3, <1>8, <2>5, ResumeAccepted
  <2> QED BY <1>1, <1>6, <2>6, <2>7, OneAccepted
<1>11. CASE m > 0 /\ cmd[c].status = "leased"
  <2>1. n > 1
    BY <1>0, <1>1, <1>11
  <2>2. ~Unresolved(j, c)
    BY <1>0, <1>11 DEF HistoryInv, Shown, Unresolved
  <2>3. \A i \in DOMAIN j : IsEvidence(j[i], c) =>
          j[i].attempt <= n - 1 /\ (j[i].attempt = n - 1 => j[i].type = "RUN_RESUMED")
    BY <1>1, <1>3, <1>11 DEF Bounded, OnlyResumed
  <2>4. AcceptsAll(j, <<ExpiryTold(c, n)>> \o <<ResumeTold(c, n)>>)
    BY <1>1, <1>2, <1>3, <2>1, <2>3, BothAccepted
  <2>5. TellsExpiry(c, n) /\ TellsResume(c, n)
    <3>1. CASE m = 1
      <4>1. ASSUME NEW i \in RecentAt(j, c) PROVE FALSE
        <5>1. i \in DOMAIN j /\ IsEvidence(j[i], c)
          BY <4>1 DEF RecentAt, IsEvidence
        <5>2. /\ j[i].attempt > 0 /\ j[i].attempt <= 1 /\ j[i].attempt \in Nat
              /\ j[i].type = "RUN_RESUMED" => j[i].attempt > 1
              /\ j[i].attempt = 1 => j[i].type = "RUN_RESUMED"
          BY <1>0, <1>1, <1>3, <1>4, <1>11, <3>1, <5>1
          DEF HistoryInv, EvidenceOK, JournalOf, IsEvidence, Bounded, OnlyResumed
        <5> QED BY <5>2
      <4>2. RecentAt(j, c) = {} /\ n = 2
        BY <1>0, <3>1, <4>1
      <4> QED BY <1>0, <2>1, <2>2, <4>2 DEF TellsExpiry, TellsResume
    <3>2. CASE m > 1
      <4>1. \/ \E i \in DOMAIN j : j[i] = RecoveryEvent("RUN_RESUMED", c, m)
            \/ \E i, k \in DOMAIN j : i < k /\ j[i].cmd = c /\ ~IsRecovery(j[k])
        BY <1>0, <1>11, <3>2 DEF HistoryInv, Resumption, Resumed, Overtaken
      <4>2. ASSUME NEW i \in DOMAIN j, NEW k \in DOMAIN j, i < k, j[i].cmd = c, ~IsRecovery(j[k])
            PROVE  FALSE
        <5>1. CASE IsRecovery(j[i])
          <6>1. i \in RecentAt(j, c)
            BY <1>3, <4>2, <5>1 DEF Clean, IsEvidence
          <6>2. k > i
            BY <1>1, <4>2, LenProperties DEF Journals
          <6> QED BY <4>2, <6>1, <6>2 DEF RecentAt
        <5>2. CASE ~IsRecovery(j[i])
          <6>1. i \in 1..Len(j) /\ i # 1
            BY <1>1, <1>2, <4>2, LenProperties DEF Journals
          <6>2. i > 1
            BY <6>1
          <6>3. cmd[j[i].cmd].status \in {"succeeded", "dead"}
            BY <1>0, <1>1, <5>2, <6>2 DEF HistoryInv, EffectsAreFinal, JournalOf
          <6> QED BY <1>11, <4>2, <6>3
        <5> QED BY <5>1, <5>2
      <4>3. PICK i \in DOMAIN j : j[i] = RecoveryEvent("RUN_RESUMED", c, m)
        BY <4>1, <4>2
      <4>4. IsEvidence(j[i], c) /\ j[i].attempt = m /\ j[i].type = "RUN_RESUMED"
        BY <4>3 DEF RecoveryEvent, IsEvidence, IsRecovery, RecoveryTypes
      <4>5. i \in RecentAt(j, c)
        BY <1>3, <4>4 DEF Clean
      <4>6. ASSUME NEW k \in RecentAt(j, c), i < k PROVE FALSE
        <5>1. k \in DOMAIN j /\ IsEvidence(j[k], c)
          BY <4>6 DEF RecentAt, IsEvidence
        <5>2. j[k].attempt <= m /\ m <= j[k].attempt /\ j[k].attempt \in Nat
          BY <1>3, <1>4, <4>4, <4>6, <5>1 DEF Bounded, InOrder
        <5>3. j[k].attempt = m
          BY <1>1, <5>2
        <5>4. m < j[k].attempt
          BY <1>3, <1>11, <4>4, <4>6, <5>1, <5>3 DEF OnlyResumed, InOrder
        <5> QED BY <1>1, <5>3, <5>4
      <4>7. \A k \in RecentAt(j, c) : k <= i
        <5>1. \A k \in RecentAt(j, c) : k \in Nat
          BY <1>1, LenProperties DEF RecentAt, Journals
        <5> QED BY <4>5, <4>6, <5>1
      <4>8. LastResumed(j, c, n - 1)
        BY <1>1, <4>4, <4>5, <4>7 DEF LastResumed
      <4> QED BY <1>0, <2>1, <2>2, <4>5, <4>8 DEF TellsExpiry, TellsResume
    <3>3. m = 1 \/ m > 1
      BY <1>1, <1>11
    <3> QED BY <3>1, <3>2, <3>3
  <2> QED BY <1>6, <2>4, <2>5
<1>12. m = 0 \/ m > 0
  BY <1>1
<1> QED
  BY <1>9, <1>10, <1>11, <1>12

\* The evidence of a command tells its attempts in order, and nothing of an
\* attempt that was not made (RecoveryFits is all that a journal checks).
THEOREM EvidenceInOrder == QueueSpec => []EvidenceOrdered
  BY OrderInit, OrderStep, QueueInvariant, PTL DEF QueueSpec
=============================================================================
