----------------------------- MODULE RunJournal -----------------------------
(***************************************************************************)
(* The append-only journal of a run (packages/domain/src/run-lifecycle.ts) *)
(* and what is derived from it: whether the run is over, which stage it    *)
(* has reached, and which commands have unresolved recovery evidence.      *)
(*                                                                         *)
(* A journal is a sequence of events; the position of an event is its      *)
(* sequence number.  An event keeps of its payload only what the code      *)
(* compares: the attempt of a recovery event, the stage of a RUN_FAILED    *)
(* event and the verdict of a CONSUMER_VERIFIED event ("info").  "part"    *)
(* tells apart the events one command may append (a replay appends         *)
(* several, each under a command id derived from the parent's).            *)
(***************************************************************************)
EXTENDS Naturals, Sequences

CONSTANT NoCommand  \* stands for the command id of the API's RUN_CREATED

Lifecycle == << "RUN_CREATED", "PREFLIGHT_ACCEPTED", "REQUEST_SUBMITTED",
                "ROUND_FINALIZED", "PROOF_AVAILABLE", "PROOF_VERIFIED",
                "CONSUMER_VERIFIED" >>

StageNames == << "preflight", "request", "round", "proof", "verify", "consumer" >>

LifecycleTypes == {Lifecycle[k] : k \in 1..7} \cup {"RUN_FAILED"}
RecoveryTypes  == {"STAGE_WAITING", "STAGE_RETRY_SCHEDULED", "RUN_RESUMED"}
Infos          == {StageNames[k] : k \in 1..6} \cup {"none", "passed", "rejected"}

Event(Cmds) == [type    : LifecycleTypes \cup RecoveryTypes,
                cmd     : Cmds \cup {NoCommand},
                part    : Nat,
                attempt : Nat,
                info    : Infos]

RunCreated == [type |-> "RUN_CREATED", cmd |-> NoCommand, part |-> 1,
               attempt |-> 0, info |-> "none"]

\* The i-th lifecycle event a command appends.
LifecycleEvent(c, i, effect) ==
  [type |-> effect.type, cmd |-> c, part |-> i, attempt |-> 0, info |-> effect.info]

RecoveryEvent(type, c, n) ==
  [type |-> type, cmd |-> c, part |-> 1, attempt |-> n, info |-> "none"]

IsRecovery(e) == e.type \in RecoveryTypes

---------------------------------------------------------------------------
(* What a journal says.                                                    *)

Closes(e) == e.type \in {"CONSUMER_VERIFIED", "RUN_FAILED"}

Terminal(j) == \E i \in DOMAIN j : Closes(j[i])

\* The lifecycle positions the run has passed through.
Reached(j) == {k \in 1..7 : \E i \in DOMAIN j : j[i].type = Lifecycle[k]}

\* The idempotency identity of an event within its run.
SameKey(e, f) ==
  /\ e.cmd = f.cmd
  /\ IF IsRecovery(e) THEN e.type = f.type /\ e.attempt = f.attempt
                      ELSE ~IsRecovery(f) /\ e.part = f.part

\* The recovery events of command c that no lifecycle event has superseded.
RecentAt(j, c) ==
  {i \in DOMAIN j : /\ IsRecovery(j[i]) /\ j[i].cmd = c
                    /\ \A k \in DOMAIN j : k > i => IsRecovery(j[k])}

\* Of those, the announcements of a wait or a retry that nothing has resumed.
UnresolvedAt(j, c) ==
  {i \in RecentAt(j, c) :
     /\ j[i].type # "RUN_RESUMED"
     /\ \A k \in RecentAt(j, c) : k > i => j[k].type # "RUN_RESUMED"}

Unresolved(j, c) == UnresolvedAt(j, c) # {}

\* The last recovery event of c still in force is a RUN_RESUMED of attempt n.
LastResumed(j, c, n) ==
  \E i \in RecentAt(j, c) : /\ \A k \in RecentAt(j, c) : k <= i
                            /\ j[i].type = "RUN_RESUMED"
                            /\ j[i].attempt = n

---------------------------------------------------------------------------
(* What a journal accepts.                                                 *)

\* A lifecycle event is the next one in order; a failure fits anywhere.
LifecycleFits(j, e) ==
  \/ e.type = "RUN_FAILED"
  \/ \E k \in 1..7 : e.type = Lifecycle[k] /\ Reached(j) = 1..(k - 1)

\* Attempts of one command never decrease; a resume answers an unresolved
\* announcement of the same command with a later attempt.
RecoveryFits(j, e) ==
  /\ \E i \in DOMAIN j : ~IsRecovery(j[i])
  /\ \A i \in DOMAIN j : IsRecovery(j[i]) /\ j[i].cmd = e.cmd => j[i].attempt <= e.attempt
  /\ e.type = "RUN_RESUMED" =>
       /\ Unresolved(j, e.cmd)
       /\ \A i \in UnresolvedAt(j, e.cmd) : j[i].attempt < e.attempt

\* Fault: the end of the run is not looked at.
AcceptsAfterEnd(j, e) ==
  /\ \A i \in DOMAIN j : ~SameKey(j[i], e)
  /\ IF IsRecovery(e) THEN RecoveryFits(j, e) ELSE LifecycleFits(j, e)

Accepts(j, e) ==
  /\ ~Terminal(j)
  /\ \A i \in DOMAIN j : ~SameKey(j[i], e)
  /\ IF IsRecovery(e) THEN RecoveryFits(j, e) ELSE LifecycleFits(j, e)

\* All events of a batch are accepted, one after the other.
AcceptsAll(j, evs) ==
  \A i \in DOMAIN evs : Accepts(j \o SubSeq(evs, 1, i - 1), evs[i])

---------------------------------------------------------------------------
(* The projected stages.                                                   *)

\* The stage a RUN_FAILED event blames.
FailedStage(j) ==
  (CHOOSE e \in {j[i] : i \in DOMAIN j} : e.type = "RUN_FAILED").info

Verdict(j) ==
  (CHOOSE e \in {j[i] : i \in DOMAIN j} : e.type = "CONSUMER_VERIFIED").info

Failed(j) == \E i \in DOMAIN j : j[i].type = "RUN_FAILED"

\* Accepted preflight (two lifecycle events) leaves the request pending: the
\* run waits for an explicit submission.
StageStatus(j, s) ==
  LET count == CHOOSE k \in 0..7 : Reached(j) = 1..k
      at    == CHOOSE k \in 1..6 : StageNames[k] = s
      blame == CHOOSE k \in 1..6 : StageNames[k] = FailedStage(j)
  IN  CASE Failed(j)                    -> IF at < blame THEN "completed"
                                           ELSE IF at = blame THEN "failed" ELSE "pending"
        [] ~Failed(j) /\ count = 7 /\ at = 6
                                        -> IF Verdict(j) = "passed" THEN "completed" ELSE "failed"
        [] ~Failed(j) /\ at < count     -> "completed"
        [] ~Failed(j) /\ at = count /\ count # 2 -> "active"
        [] OTHER                        -> "pending"
=============================================================================
