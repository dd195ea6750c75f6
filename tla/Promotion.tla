------------------------------ MODULE Promotion ------------------------------
(***************************************************************************)
(* The promotion of a release to the production host.  A pilot, run by an  *)
(* operator, goes through its phases; most ask for a command, which a      *)
(* process on the host carries out over ssh and which may outlive the      *)
(* connection.  Afterwards a timer on the host observes what is served     *)
(* until the canary is over, and writes the evidence of the promotion.     *)
(*                                                                         *)
(* Files of evidence are linked to their path, never replaced.  A pair is  *)
(* two files, the second of which makes it whole.                          *)
(***************************************************************************)
EXTENDS Nothing, Naturals, FiniteSets

CONSTANTS
  Pilots,     \* Times an operator runs the pilot.
  OnHost,     \* Those of them that run on the host itself.
  Ticks,      \* Timer ticks, or the script run by hand, at the same time.
  LastHour,   \* Bound: time of the host's clock.
  MaxClears,  \* Bound: times the host is prepared anew.
  MaxSkews    \* Bound: times its clock is set back.

Phases ==
  <<"services", "consumers", "handoff", "backup", "replay", "worker", "live", "activate", "browser",
    "observe", "checkpoint", "deployment">>

PilotCommands == {Phases[k] : k \in 1 .. 12}

\* How a run of the pilot ends, or is about to.
Ends == {"passed", "failed", "rollingBack", "rolledBack", "notRolledBack", "overtaken", "killed"}

\* What is served: since when, and by whom it was activated.
Ingresses == [by : Pilots, at : Nat]

\* A pair of evidence, and a checkpoint of the canary.
PairFiles == [by : Pilots, at : Nat \cup {None}, whole : BOOLEAN]
PointFiles == [due : Nat, at : Nat, through : Ingresses]

ASSUME PromotionAssumption ==
  /\ {LastHour, MaxClears, MaxSkews} \subseteq Nat /\ OnHost \subseteq Pilots
  /\ None \notin Pilots /\ None \notin Nat
  /\ None \notin Ingresses /\ None \notin PairFiles /\ None \notin PointFiles
  /\ None \notin PilotCommands \cup {"passed", "error"} \cup Ends

VARIABLES
  host,    \* The files of evidence and what is served: see PromotionTypeOK.
  pilot,   \* [at, activation, seen, end]: the phase, and what was answered.
  remote,  \* The process on the host for a pilot: [cmd, part, answer, got].
  canary,  \* Ticks: [at, now, dep, state].
  hour

promotionVars == <<host, pilot, remote, canary, hour>>

Pairs == {"consumers", "handoff", "replay", "browser", "deployment"}

PhaseOf(p) == Phases[pilot[p].at]

Piloting(p) == pilot[p].at > 0 /\ pilot[p].end = None

\* The canary: at once, after a quarter of an hour, an hour, a day.
Wait == <<0, 1, 2, 3>>

NoProcess == [cmd |-> None, part |-> 0, answer |-> None, got |-> None]

Resting == [at |-> "idle", now |-> 0, dep |-> None, state |-> None]

\* The canary's state directory without a checkpoint.
NoPoints == [i \in 1 .. 4 |-> None]

\* Of what the code keeps no record: contracts, who deployed; late, who had looked for the
\* consumers pair, and not yet made the directory, when it was sealed.
EmptyHost ==
  [consumers |-> None, handoff |-> None, backup |-> None, replay |-> None, browser |-> None,
   deployment |-> None, stage |-> None, replayStage |-> None, contracts |-> {},
   late |-> {}, points |-> NoPoints, promotion |-> None, ingress |-> None, clears |-> 0, skews |-> 0]

PromotionInit ==
  /\ host = EmptyHost
  /\ pilot = [p \in Pilots |-> [at |-> 0, activation |-> None, seen |-> None, end |-> None]]
  /\ remote = [p \in Pilots |-> NoProcess]
  /\ canary = [t \in Ticks |-> Resting]
  /\ hour = 0

(***************************************************************************)
(* The pilot.                                                              *)
(***************************************************************************)

\* The authorities and the preflights; the outputs must be absent, on the machine
\* the pilot runs on.
PilotStarts(p) ==
  /\ pilot[p].at = 0 /\ pilot[p].end = None
  /\ \/ /\ p \in OnHost => \A f \in {"backup", "replay", "browser"} : host[f] = None
        /\ pilot' = [pilot EXCEPT ![p].at = 1]
     \/ pilot' = [pilot EXCEPT ![p].end = "failed"]
  /\ UNCHANGED <<host, remote, canary, hour>>

\* The next command; the browser is tried first, against what is served.
AsksHost(p) ==
  /\ Piloting(p) /\ remote[p] = NoProcess
  /\ PhaseOf(p) = "browser" => host.ingress # None
  /\ remote' = [remote EXCEPT ![p].cmd = PhaseOf(p)]
  /\ UNCHANGED <<host, pilot, canary, hour>>

\* The answer: an activation and a checkpoint are kept for the phases that follow.
Hears(p) ==
  /\ Piloting(p) /\ remote[p].cmd = PhaseOf(p) /\ remote[p].answer = "passed"
  /\ LET got == remote[p].got
         after == [pilot[p] EXCEPT !.activation = IF PhaseOf(p) = "activate" THEN got ELSE @,
                                   !.seen = IF PhaseOf(p) = "observe" THEN got ELSE @] IN
       pilot' = [pilot EXCEPT ![p] =
         IF pilot[p].at = 12 THEN [after EXCEPT !.end = "passed"] ELSE [after EXCEPT !.at = @ + 1]]
  /\ remote' = [remote EXCEPT ![p] = NoProcess]
  /\ UNCHANGED <<host, canary, hour>>

\* Fault: an activation that was not answered is taken for none.
OpenedWhenHeard(p) == pilot[p].at > 8

\* Whatever went wrong with an activation that was asked for, it may have been applied.
Opened(p) == pilot[p].at > 8 \/ (pilot[p].at = 8 /\ remote[p].cmd = "activate")

\* An error of the host, a connection lost while the process may go on, a check of
\* the pilot's own.
PilotFails(p) ==
  /\ Piloting(p)
  /\ pilot' = [pilot EXCEPT ![p].end = IF Opened(p) THEN "rollingBack" ELSE "failed"]
  /\ remote' = [remote EXCEPT ![p] = IF @.answer # None THEN NoProcess ELSE @]
  /\ UNCHANGED <<host, canary, hour>>

Carries(p, cmd, part) ==
  remote[p].cmd = cmd /\ remote[p].part = part /\ remote[p].answer = None

\* rollback-caddy stops it; or it fails, and the operator is told of both.
RollsBack(p) ==
  /\ pilot[p].end = "rollingBack"
  /\ \/ /\ host' = [host EXCEPT !.ingress = None]
        /\ pilot' = [pilot EXCEPT ![p].end = IF Carries(p, "activate", 0) THEN "overtaken" ELSE "rolledBack"]
     \/ pilot' = [pilot EXCEPT ![p].end = "notRolledBack"] /\ UNCHANGED host
  /\ UNCHANGED <<remote, canary, hour>>

PilotDies(p) ==
  /\ pilot[p].at > 0 /\ pilot[p].end \in {None, "rollingBack"}
  /\ pilot' = [pilot EXCEPT ![p].end = "killed"]
  /\ UNCHANGED <<host, remote, canary, hour>>

(***************************************************************************)
(* The processes on the host.                                              *)
(***************************************************************************)

Step(p) == remote' = [remote EXCEPT ![p].part = @ + 1]

Gives(p, got) == remote' = [remote EXCEPT ![p].answer = "passed", ![p].got = got]

Passes(p) == remote' = [remote EXCEPT ![p].answer = "passed"]

Errs(p) == remote' = [remote EXCEPT ![p].answer = "error"]

\* A pair: nothing may be there; a failure takes the first file back, a crash does not.
PairBegins(p, f) ==
  IF host[f] = None
  THEN host' = [host EXCEPT ![f] = [by |-> p, at |-> pilot[p].activation, whole |-> FALSE]] /\ Step(p)
  ELSE Errs(p) /\ UNCHANGED host

PairEnds(p, f) ==
  \/ host' = [host EXCEPT ![f].whole = TRUE] /\ Passes(p)
  \/ host' = [host EXCEPT ![f] = None] /\ Errs(p)

Whole(f) == host[f] # None /\ host[f].whole

\* A phase that starts services, or reads the two persisted runs.
StartsServices(p) ==
  /\ \E cmd \in {"services", "worker", "live"} : Carries(p, cmd, 0)
  /\ \/ (remote[p].cmd = "worker" => Whole("handoff") /\ Whole("replay")) /\ Passes(p)
     \/ Errs(p)
  /\ UNCHANGED host

\* Fault: the pair on the host is not looked for.
Unlooked(p) == TRUE

ConsumersAbsent(p) == host.consumers = None

\* Fault: a directory that is there already will do.
AnyStage(p) == TRUE

\* The directory of the run is made, and not taken over.
StageFree(p) == host.stage = None

\* Who found no pair, and has not made its directory yet.
HaveLooked == {p \in Pilots : Carries(p, "consumers", 1)}

\* The deployer: a look at the pair, its directory, the contracts, their pair, the
\* directory removed.  The pair may be sealed, and the directory free again, between a
\* look and the directory that follows it.
DeploysConsumers(p) ==
  \/ /\ Carries(p, "consumers", 0)
     /\ IF ConsumersAbsent(p) THEN Step(p) ELSE Errs(p)
     /\ UNCHANGED host
  \/ /\ Carries(p, "consumers", 1)
     /\ IF StageFree(p)
        THEN host' = [host EXCEPT !.stage = p] /\ Step(p) ELSE Errs(p) /\ UNCHANGED host
  \/ /\ Carries(p, "consumers", 2)
     /\ host' = [host EXCEPT !.contracts = @ \cup {p}]
     /\ Step(p) \/ Errs(p)
  \/ Carries(p, "consumers", 3) /\ PairBegins(p, "consumers")
  \/ /\ Carries(p, "consumers", 4)
     /\ \/ /\ host' = [host EXCEPT !.consumers.whole = TRUE, !.late = HaveLooked, !.stage = None]
           /\ Passes(p)
        \/ /\ host' = [host EXCEPT !.consumers.whole = TRUE, !.late = HaveLooked]
           /\ Errs(p)
        \/ host' = [host EXCEPT !.consumers = None] /\ Errs(p)

\* The registry and the deployment are handed to the worker.
HandsOff(p) ==
  \/ /\ Carries(p, "handoff", 0)
     /\ IF Whole("consumers") THEN PairBegins(p, "handoff") ELSE Errs(p) /\ UNCHANGED host
  \/ Carries(p, "handoff", 1) /\ PairEnds(p, "handoff")

\* A backup, its evidence, the WAL, a restore and the retention of the backups.
BacksUp(p) ==
  /\ Carries(p, "backup", 0)
  /\ \/ /\ host.backup = None
        /\ host' = [host EXCEPT !.backup = p]
        /\ Passes(p) \/ Errs(p)
     \/ Errs(p) /\ UNCHANGED host

\* runOwnedReplayBootstrapStageLifecycle: what a command owns it removes again.
BootstrapsReplay(p) ==
  \/ /\ Carries(p, "replay", 0)
     /\ IF host.replayStage = None
        THEN host' = [host EXCEPT !.replayStage = p] /\ Step(p) ELSE Errs(p) /\ UNCHANGED host
  \/ /\ Carries(p, "replay", 1)
     /\ \/ host.replay = None /\ PairBegins(p, "replay")
        \/ host' = [host EXCEPT !.replayStage = None] /\ Errs(p)
  \/ /\ Carries(p, "replay", 2)
     /\ \/ host' = [host EXCEPT !.replay.whole = TRUE, !.replayStage = None] /\ Passes(p)
        \/ host' = [host EXCEPT !.replay = None, !.replayStage = None] /\ Errs(p)

\* activate-caddy: it is started, then looked at from outside.
Activates(p) ==
  /\ Carries(p, "activate", 0)
  /\ \/ /\ host' = [host EXCEPT !.ingress = [by |-> p, at |-> hour]]
        /\ Gives(p, hour) \/ Errs(p)
     \/ Errs(p) /\ UNCHANGED host

\* Fault: what is served is not looked at from outside.
Inside(due) == Whole("browser") /\ hour >= due

\* An observation: the public origin, health, disk, backups, browser, a synchronized clock.
Observable(due) == host.ingress # None /\ Whole("browser") /\ hour >= due

PointSeen(due) == [due |-> due, at |-> hour, through |-> host.ingress]

ObservesCutover(p) ==
  /\ Carries(p, "observe", 0)
  /\ \/ Observable(pilot[p].activation) /\ Gives(p, PointSeen(pilot[p].activation))
     \/ Errs(p)
  /\ UNCHANGED host

\* Fault: a checkpoint replaces one that is there.
Overwrites(n) == TRUE

\* link: the path must be free.
PathFree(n) == host.points[n] = None

AppendsCutover(p) ==
  /\ Carries(p, "checkpoint", 0)
  /\ \/ /\ PathFree(1)
        /\ host' = [host EXCEPT !.points[1] = pilot[p].seen]
        /\ Passes(p) \/ Errs(p)
     \/ Errs(p) /\ UNCHANGED host

\* Browser acceptance and the evidence of the deployment: bytes, then their checksum.
AppendsPair(p) ==
  \E f \in {"browser", "deployment"} :
    \/ Carries(p, f, 0) /\ PairBegins(p, f)
    \/ Carries(p, f, 1) /\ PairEnds(p, f)

HostStep(p) ==
  /\ \/ StartsServices(p) \/ DeploysConsumers(p) \/ HandsOff(p) \/ BacksUp(p) \/ BootstrapsReplay(p)
     \/ Activates(p) \/ ObservesCutover(p) \/ AppendsCutover(p) \/ AppendsPair(p)
  /\ UNCHANGED <<pilot, canary, hour>>

\* The process is killed: nothing is taken back.  One nobody listens to is gone.
HostStops(p) ==
  /\ remote[p].cmd # None /\ (Piloting(p) => remote[p].answer = None)
  /\ remote' = [remote EXCEPT ![p] = IF Piloting(p) THEN [@ EXCEPT !.answer = "error"] ELSE NoProcess]
  /\ UNCHANGED <<host, pilot, canary, hour>>

(***************************************************************************)
(* The timer.                                                              *)
(***************************************************************************)

\* Fault: each checkpoint is due when the one before it was.
DueEarly(dep, n) == dep.at + Wait[IF n > 1 THEN n - 1 ELSE 1]

DueAt(dep, n) == dep.at + Wait[n]

Kept == Cardinality({i \in 1 .. 4 : host.points[i] # None})

\* Fault: the clock may have been set back since the last observation.
AnyClock(dep) ==
  \A i \in 1 .. Kept : host.points[i] # None /\ host.points[i].due = DueAt(dep, i)

\* validateState: the checkpoints kept are the first ones of this deployment.
StateFits(dep) == AnyClock(dep) /\ hour >= host.points[Kept].at

TickBegins(t) ==
  /\ canary[t].at = "idle" /\ Whole("deployment") /\ Kept > 0 /\ StateFits(host.deployment)
  /\ IF Kept < 4 THEN hour >= DueAt(host.deployment, Kept + 1) ELSE host.promotion = None
  /\ canary' = [canary EXCEPT ![t] =
       [at |-> IF Kept = 4 THEN "finishing" ELSE "observing", now |-> hour, dep |-> host.deployment,
        state |-> host.points]]
  /\ UNCHANGED <<host, pilot, remote, hour>>

NextPoint(t) == 1 + Cardinality({i \in 1 .. 4 : canary[t].state[i] # None})

\* The observation must be of the second the tick began.
TickObserves(t) ==
  /\ canary[t].at = "observing" /\ hour = canary[t].now
  /\ LET due == DueAt(canary[t].dep, NextPoint(t)) IN
       /\ Observable(due)
       /\ canary' = [canary EXCEPT ![t].at = "appending", ![t].state[NextPoint(t)] = PointSeen(due)]
  /\ UNCHANGED <<host, pilot, remote, hour>>

\* Fault: the promotion is written before the last checkpoint.
FinishesFirst(t) == canary[t].at \in {"appending", "finishing"} /\ canary[t].state[4] # None

MayFinish(t) == canary[t].at = "finishing"

TickAppends(t) ==
  /\ canary[t].at = "appending"
  /\ LET n == NextPoint(t) - 1 IN
       /\ PathFree(n)
       /\ host' = [host EXCEPT !.points[n] = canary[t].state[n]]
       /\ canary' = [canary EXCEPT ![t] = IF n = 4 THEN [@ EXCEPT !.at = "finishing"] ELSE Resting]
  /\ UNCHANGED <<pilot, remote, hour>>

TickFinishes(t) ==
  /\ MayFinish(t)
  /\ host' = [host EXCEPT
       !.promotion = IF @ = None THEN [dep |-> canary[t].dep, state |-> canary[t].state] ELSE @]
  /\ canary' = [canary EXCEPT ![t] = Resting]
  /\ UNCHANGED <<pilot, remote, hour>>

\* An error or a kill: the next tick begins anew from what is kept.
TickFails(t) ==
  /\ canary[t].at # "idle"
  /\ canary' = [canary EXCEPT ![t] = Resting]
  /\ UNCHANGED <<host, pilot, remote, hour>>

(***************************************************************************)
(* The operator and the clock.                                             *)
(***************************************************************************)

\* The host is prepared for another run once nothing runs: the evidence goes, the
\* canary's state may stay where it was.
OperatorClears ==
  /\ host.clears < MaxClears
  /\ \A p \in Pilots : remote[p] = NoProcess /\ (pilot[p].at > 0 => pilot[p].end \notin {None, "rollingBack"})
  /\ \A t \in Ticks : canary[t].at = "idle"
  /\ \E stays \in BOOLEAN :
       host' = [EmptyHost EXCEPT !.points = IF stays THEN host.points ELSE @,
                                 !.promotion = IF stays THEN host.promotion ELSE @,
                                 !.ingress = host.ingress, !.clears = host.clears + 1,
                                 !.skews = host.skews]
  /\ UNCHANGED <<pilot, remote, canary, hour>>

HourPasses ==
  /\ hour < LastHour
  /\ hour' = hour + 1
  /\ UNCHANGED <<host, pilot, remote, canary>>

ClockSetBack ==
  /\ host.skews < MaxSkews /\ hour > 0
  /\ hour' = hour - 1
  /\ host' = [host EXCEPT !.skews = @ + 1]
  /\ UNCHANGED <<pilot, remote, canary>>

PilotStep(p) ==
  PilotStarts(p) \/ AsksHost(p) \/ Hears(p) \/ PilotFails(p) \/ RollsBack(p) \/ PilotDies(p)

CanaryStep(t) ==
  TickBegins(t) \/ TickObserves(t) \/ TickAppends(t) \/ TickFinishes(t) \/ TickFails(t)

PromotionNext ==
  \/ OperatorClears \/ HourPasses \/ ClockSetBack
  \/ \E p \in Pilots : PilotStep(p) \/ HostStep(p) \/ HostStops(p)
  \/ \E t \in Ticks : CanaryStep(t)

PromotionSpec == PromotionInit /\ [][PromotionNext]_promotionVars

(***************************************************************************)
(* What a promotion promises.                                              *)
(***************************************************************************)

\* Types of the state of the scripts and of the host's files.
PromotionTypeOK ==
  /\ \A f \in Pairs : host[f] \in PairFiles \cup {None}
  /\ host.ingress # None => host.ingress \in Ingresses /\ host.ingress.at <= LastHour
  /\ host.contracts \subseteq Pilots /\ hour \in 0 .. LastHour
  /\ \A p \in Pilots :
       /\ pilot[p].at \in 0 .. 12 /\ remote[p].part \in 0 .. 4
       /\ pilot[p].end \in Ends \cup {None}
  /\ \A t \in Ticks : canary[t].at \in {"idle", "observing", "appending", "finishing"}

\* A promotion that is claimed has been earned: its four checkpoints are kept, each was
\* observed when it was due or later, counted from the activation its deployment names,
\* in order, and through what that activation serves; a pilot that rolled back, a
\* deployment made anew, a crash between checkpoint and promotion and a clock set back
\* do not change this (production-canary-resume-runtime.mjs:44-156).
PromotionIsEarned ==
  host.promotion # None =>
    LET dep == host.promotion.dep
        state == host.promotion.state IN
      /\ host.clears = 0 => host.points = state
      /\ \A i \in 1 .. 4 :
           /\ state[i].due = dep.at + Wait[i] /\ state[i].at >= state[i].due
           /\ state[i].through = [by |-> dep.by, at |-> dep.at]
           /\ i > 1 => state[i].at >= state[i - 1].at

\* The evidence of a deployment is that of one pilot: consumers, handoff, backup, replay,
\* browser and the cutover are its own, whoever else ran a pilot at the same time
\* (timeweb-production-host-command.mjs:565-608, bootstrap-runtime.mjs:59-76).
EvidenceIsOwn ==
  Whole("deployment") =>
    LET p == host.deployment.by IN
      /\ host.backup = p /\ \A f \in Pairs : Whole(f) /\ host[f].by = p
      /\ host.points[1] # None /\ host.points[1].through = [by |-> p, at |-> host.deployment.at]

\* Contracts that are not recorded are not deployed again, however often the command is
\* asked for, fails or is killed.  Once they are recorded, only a command that had looked
\* before may still deploy, one at most, and never in the place of what is recorded
\* (timeweb-production-host-command.mjs:226-270, 383-440, 846-858).
DeploysAgainOnlyUnseen ==
  IF Whole("consumers")
  THEN LET others == host.contracts \ {host.consumers.by} IN
         /\ host.consumers.by \in host.contracts
         /\ others \subseteq host.late /\ \A p, q \in others : p = q
  ELSE \A p, q \in host.contracts : p = q

\* What a pilot opened it closes when it fails after that, the answer to the activation
\* being lost included; unless the rollback itself fails, or overtakes the activation
\* (bootstrap-runtime.mjs:268-325).
FailedIsClosed ==
  \A p \in Pilots :
    host.ingress # None /\ host.ingress.by = p => pilot[p].end \notin {"failed", "rolledBack"}

\* Promotions are earned, evidence is of one run, nothing is deployed again that the
\* command could have seen, and nothing is left open.
PromotionPromise == PromotionIsEarned /\ EvidenceIsOwn /\ DeploysAgainOnlyUnseen /\ FailedIsClosed
=============================================================================
