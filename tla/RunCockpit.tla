----------------------------- MODULE RunCockpit ------------------------------
(***************************************************************************)
(* The page of one run (RunCockpit in App.tsx): the effect that polls the  *)
(* run until it is terminal, the request for the preflight report, which   *)
(* both that effect and one of its own may begin, and the product events   *)
(* that tell a milestone was passed while the page looked on.              *)
(***************************************************************************)
EXTENDS Nothing, Integers, FiniteSets

CONSTANTS
  MaxGeneration,  \* bound: restarts of the polling effect
  MaxPolls,       \* bound: polls of one effect
  MaxReports      \* bound: requests for the report

ASSUME CockpitAssumption == {MaxGeneration, MaxPolls, MaxReports} \subseteq Nat \ {0}

Generations == 1 .. MaxGeneration

Reports == 1 .. MaxReports

\* Events of a run: created, preflight concluded, the rest of its stages.
Created == 1
Preflighted == 2
Concluded == 3

Sequences == Created .. Concluded

VARIABLES
  sequence,  \* the run on the server
  blocked,   \* whether its preflight fails, which ends it
  generation,\* the polling effect that is current; 0: the page is closed
  poll,      \* what each effect's poll is doing
  hydrated,  \* the sequence of the run that is shown, or 0
  troubled,  \* hydrationError: polling has stopped
  report,    \* requests for the report
  attempt,   \* preflightReportAttempts of the run
  reading,   \* needsPreflightReport: the page's step
  due,       \* the report effect has to run
  observed,  \* observedPreflightState: a sequence, or 0
  milestone  \* PREFLIGHT_COMPLETED events that were emitted

cockpitVars ==
  <<sequence, blocked, generation, poll, hydrated, troubled, report, attempt, reading, due,
    observed, milestone>>

PreflightOver(n) == n >= Preflighted

TerminalAt(n) == n = Concluded \/ (blocked /\ n = Preflighted)

ReportAnswers == {"none", "pending", "valid", "other"}

AttemptKinds == {"none", "loading", "pending", "terminal", "valid"}

\* Types of the state; a valid report that is attempted was answered so.
CockpitTypeOK ==
  /\ sequence \in Sequences /\ blocked \in BOOLEAN
  /\ generation \in 0 .. MaxGeneration
  /\ poll \in [Generations -> [stage : {"new", "due", "asked", "over"}, run : Sequences \cup {0, -1},
                 with : 0 .. MaxReports, polls : 0 .. MaxPolls]]
  /\ hydrated \in Sequences \cup {0}
  /\ troubled \in BOOLEAN
  /\ report \in [Reports -> [stage : {"unused", "asked", "answered"}, answer : ReportAnswers,
                   joined : Sequences \cup {0}]]
  /\ attempt \in [kind : AttemptKinds, sequence : Sequences \cup {0}, of : 0 .. MaxReports]
  /\ reading \in BOOLEAN /\ due \in BOOLEAN
  /\ observed \in Sequences \cup {0}
  /\ milestone \in Nat
  /\ attempt.kind = "valid" => report[attempt.of].answer = "valid"

Fresh(stage) == [stage |-> stage, run |-> 0, with |-> 0, polls |-> 0]

CockpitInit ==
  /\ sequence = Created /\ blocked \in BOOLEAN
  /\ generation = 1
  /\ poll = [g \in Generations |-> Fresh(IF g = 1 THEN "due" ELSE "new")]
  /\ hydrated = 0 /\ troubled = FALSE
  /\ report = [q \in Reports |-> [stage |-> "unused", answer |-> "none", joined |-> 0]]
  /\ attempt = [kind |-> "none", sequence |-> 0, of |-> 0]
  /\ reading \in BOOLEAN /\ due = FALSE
  /\ observed = 0 /\ milestone = 0

serverVars == <<sequence, blocked>>

reportVars == <<report, attempt, due>>

\* The run goes on at the server.
RunAdvances ==
  /\ ~TerminalAt(sequence)
  /\ sequence' = sequence + 1
  /\ UNCHANGED <<blocked, generation, poll, hydrated, troubled, reportVars, reading, observed, milestone>>

---------------------------------------------------------------------------
(* Polling.                                                                *)

\* Fault: the attempt of the first request is not recorded.
Unrecorded(q) == attempt

Recorded(q) == [kind |-> "loading", sequence |-> hydrated, of |-> q]

\* What is recorded of a request that was answered, at the sequence its asker knew.
Concluding(q, n) ==
  [kind |-> CASE report[q].answer = "valid" -> "valid"
              [] report[q].answer = "pending" -> "pending"
              [] OTHER -> "terminal",
   sequence |-> n, of |-> q]

IsNext(q) == report[q].stage = "unused" /\ \A p \in 1 .. q - 1 : report[p].stage # "unused"

\* load: the run, and with it the report if the page shows it and none was attempted.
Load(g) ==
  /\ poll[g].stage = "due" /\ g = generation /\ poll[g].polls < MaxPolls
  /\ IF reading /\ attempt.kind = "none"
       THEN \E q \in Reports :
              /\ IsNext(q)
              /\ report' = [report EXCEPT ![q].stage = "asked"]
              /\ attempt' = Recorded(q)
              /\ poll' = [poll EXCEPT ![g].stage = "asked", ![g].with = q, ![g].polls = @ + 1]
       ELSE /\ poll' = [poll EXCEPT ![g].stage = "asked", ![g].with = 0, ![g].polls = @ + 1]
            /\ UNCHANGED <<report, attempt>>
  /\ UNCHANGED <<serverVars, generation, hydrated, troubled, due, reading, observed, milestone>>

\* The server answers with the run, or fails.
AnswerRun(g) ==
  /\ poll[g].stage = "asked" /\ poll[g].run = 0
  /\ \E n \in {sequence, -1} : poll' = [poll EXCEPT ![g].run = n]
  /\ UNCHANGED <<serverVars, generation, hydrated, troubled, reportVars, reading, observed, milestone>>

\* Fault: the answer counts although the effect was cleaned up.
NotCancelled(g) == generation # 0

NotCleanedUp(g) == generation = g

\* Promise.all: the run is there, and the report that was asked with it.
Loaded(g) ==
  /\ poll[g].stage = "asked" /\ poll[g].run > 0
  /\ poll[g].with # 0 => report[poll[g].with].stage = "answered"

LoadOver(g) == poll' = [poll EXCEPT ![g] = Fresh("over")]

\* The run is shown, unless the effect was cleaned up since; it is polled again until
\* it is terminal.
ShowRun(g) ==
  LET n == poll[g].run  q == poll[g].with IN
  /\ Loaded(g)
  /\ IF NotCleanedUp(g)
       THEN /\ hydrated' = n /\ troubled' = FALSE /\ due' = TRUE
            /\ attempt' = IF q = 0 THEN attempt ELSE Concluding(q, n)
            /\ milestone' = IF observed # 0 /\ n > observed /\ ~PreflightOver(observed) /\ PreflightOver(n)
                              THEN milestone + 1 ELSE milestone
            /\ observed' = IF observed = 0 \/ (n > observed /\ ~PreflightOver(observed))
                             THEN n ELSE observed
            /\ poll' = [poll EXCEPT ![g].stage = IF TerminalAt(n) THEN "over" ELSE "due",
                          ![g].run = 0, ![g].with = 0]
       ELSE LoadOver(g) /\ UNCHANGED <<hydrated, troubled, due, attempt, milestone, observed>>
  /\ UNCHANGED <<serverVars, generation, report, reading>>

\* A failure is shown, and the polling of this effect ends.
LoadFails(g) ==
  /\ poll[g].stage = "asked" /\ poll[g].run = -1
  /\ troubled' = IF NotCleanedUp(g) THEN TRUE ELSE troubled
  /\ LoadOver(g)
  /\ UNCHANGED <<serverVars, generation, hydrated, reportVars, reading, observed, milestone>>

\* Fault: the timer of the old effect is left to run.
LeaveTimer(g) == poll[g]

TimerCleared(g) == IF poll[g].stage = "due" THEN [poll[g] EXCEPT !.stage = "over"] ELSE poll[g]

\* Refresh status, a verified consumer, or another credential: the effect is cleaned
\* up and begins again.
RestartPolling ==
  /\ generation \in 1 .. MaxGeneration - 1
  /\ generation' = generation + 1
  /\ poll' = [g \in Generations |->
       IF g = generation THEN TimerCleared(g) ELSE IF g = generation + 1 THEN Fresh("due") ELSE poll[g]]
  /\ troubled' = FALSE
  /\ UNCHANGED <<serverVars, hydrated, reportVars, reading, observed, milestone>>

LeaveCockpit ==
  /\ generation # 0
  /\ poll' = [poll EXCEPT ![generation] = TimerCleared(generation)]
  /\ generation' = 0 /\ due' = FALSE
  /\ UNCHANGED <<serverVars, hydrated, troubled, report, attempt, reading, observed, milestone>>

---------------------------------------------------------------------------
(* The report.                                                             *)

\* The user goes to a step that shows the report, or leaves it.
ChangeStep ==
  /\ generation # 0
  /\ reading' = ~reading /\ due' = TRUE
  /\ UNCHANGED <<serverVars, generation, poll, hydrated, troubled, report, attempt, observed, milestone>>

\* Fault: also a report that was taken is asked for again when the run has moved.
SettledUntilMoved ==
  \/ attempt.kind = "terminal"
  \/ attempt.kind \in {"valid", "pending"} /\ hydrated <= attempt.sequence

\* An attempt that is over, or was refused while the run has not moved since.
Settled ==
  \/ attempt.kind \in {"valid", "terminal"}
  \/ attempt.kind = "pending" /\ hydrated <= attempt.sequence

\* The effect of the report: it joins the request under way, records one that was
\* answered while nobody heard it, or makes one.
ReportEffect ==
  /\ due /\ generation # 0
  /\ due' = FALSE
  /\ IF ~reading \/ hydrated = 0 \/ Settled THEN UNCHANGED <<report, attempt>>
     ELSE IF attempt.kind = "loading"
       THEN IF report[attempt.of].stage = "answered"
            THEN attempt' = Concluding(attempt.of, hydrated) /\ UNCHANGED report
            ELSE report' = [report EXCEPT ![attempt.of].joined = hydrated] /\ UNCHANGED attempt
       ELSE \E q \in Reports :
              /\ IsNext(q)
              /\ report' = [report EXCEPT ![q].stage = "asked", ![q].joined = hydrated]
              /\ attempt' = Recorded(q)
  /\ UNCHANGED <<serverVars, generation, poll, hydrated, troubled, reading, observed, milestone>>

\* getPreflightReport on the server: pending before the preflight is over, then the
\* report, which may be missing or damaged, or the request fails.
AnswerReport(q) ==
  /\ report[q].stage = "asked" /\ report[q].answer = "none"
  /\ \E a \in {IF PreflightOver(sequence) THEN "valid" ELSE "pending", "other"} :
       report' = [report EXCEPT ![q].answer = a]
  /\ UNCHANGED <<serverVars, generation, poll, hydrated, troubled, attempt, due, reading, observed, milestone>>

\* The answer arrives: whoever joined the request records it.
ReportArrives(q) ==
  /\ report[q].stage = "asked" /\ report[q].answer # "none"
  /\ report' = [report EXCEPT ![q].stage = "answered", ![q].joined = 0]
  /\ attempt' = IF report[q].joined = 0 THEN attempt
                ELSE Concluding(q, report[q].joined)
  /\ UNCHANGED <<serverVars, generation, poll, hydrated, troubled, due, reading, observed, milestone>>

PollStep(g) == Load(g) \/ AnswerRun(g) \/ ShowRun(g) \/ LoadFails(g)

CockpitNext ==
  \/ RunAdvances \/ RestartPolling \/ LeaveCockpit \/ ChangeStep \/ ReportEffect
  \/ \E g \in Generations : PollStep(g)
  \/ \E q \in Reports : AnswerReport(q) \/ ReportArrives(q)

CockpitSpec == CockpitInit /\ [][CockpitNext]_cockpitVars

---------------------------------------------------------------------------
(* Properties.                                                             *)

\* While the page is open, shows no error and not the end of the run, its current
\* effect has a poll ahead or under way; and no other effect has one ahead.
PollingGoesOn ==
  /\ generation # 0 /\ ~troubled /\ ~(hydrated # 0 /\ TerminalAt(hydrated)) =>
       poll[generation].stage \in {"due", "asked"}
  /\ \A g \in Generations \ {generation} : poll[g].stage # "due"

\* The run that is shown never goes back to an earlier state, although an answer of an
\* earlier effect may arrive after a newer one.
ShownRunAdvances == [][hydrated' >= hydrated]_cockpitVars

\* There is one request for the report at a time.
OneReportRequest ==
  Cardinality({q \in Reports : report[q].stage = "asked"}) <= 1

\* A page tells of the end of the preflight at most once, and only when it has shown
\* the run before it: never on opening a run whose preflight is over.
MilestoneOnce ==
  /\ milestone <= 1
  /\ milestone = 1 => PreflightOver(observed)

\* A report that was taken stays.
ReportStays == [][attempt.kind = "valid" => attempt'.kind = "valid"]_cockpitVars

\* What the page of a run promises.
CockpitPromise ==
  /\ []PollingGoesOn /\ []OneReportRequest /\ []MilestoneOnce
  /\ ShownRunAdvances /\ ReportStays
=============================================================================
