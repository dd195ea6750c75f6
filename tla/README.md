# Orivra: TLA+ models

Orivra turns a run manifest into a proven FDC round: a preflight is accepted, a
transaction is submitted (by a wallet, by the relayer, or replayed from a
recording), the round finalizes, a proof is fetched and verified, the consumer
is verified, and a proof bundle is assembled. PostgreSQL holds everything: the
append-only journal of every run, the rows of a command queue, the artifacts.
Worker processes claim commands, run handlers that talk to the network, and
commit what the handlers return. Around that core are the API that admits runs
and signs wallets in, a web application, clients for repositories, shells and
assistants, and the scripts that deploy, promote and back up a production host.

The modules model the core in depth (what may happen between any two
transactions, when workers crash, leases expire, clients repeat requests and
handlers of one run overlap), and each of the other parts where several actors
meet or a failure may fall between two steps.

## Inventory

| Component | State | Operations | Modelled by |
|---|---|---|---|
| Run journal and projection (`packages/domain/src/run-lifecycle.ts`) | the events of a run | `appendRunEvents`, `projectRun` | `RunJournal`; promise to readers: `RunLifecycle` |
| Command queue (`apps/api/src/postgres.ts`, migration 001) | command rows: status, attempts, lease token, deadlines | claim, renew, complete, retry | `CommandQueue` |
| Worker loop (`createRunWorker`, `runWorkerLoop`) | the command in hand, its lease, the loaded snapshot | `processOne`; the loop with its heartbeat | `CommandQueue`, `Deployment` |
| Command handlers (`createProductionCommandHandlers`) | persisted artifacts | twelve handlers | `RunPipeline`; the evidence of live runs: `Attestation` |
| Submissions and verifications (`enqueue` in `production-service.ts`, migration 005) | requests past their checks | check, insert, conflict | `RunPipeline` |
| Relayer transactions (`postgres.ts`, `live-runtime.ts`) | signed transactions, broadcast marks, nonces | sign, persist, claim the attempt, broadcast, mark | `RelayerBroadcast` |
| Run admission (`createRun`, migration 008) | idempotency records, daily quotas, live caps | create, repeat, refuse | `RunAdmission` |
| Wallet identity and sessions (`wallet-session-service.ts`) | challenges, quota rows, identities, sessions | admit, consume, verify, provision, clean up | `WalletSessions` |
| Account tokens (`account-token-service.ts`, `AccountSettings.tsx`) | credentials and issuance keys; the page's authority | issue, revoke, list | `AccountIssuance`, `AccountPage` |
| Run listing (`listRuns`, `RunsIndex.tsx`) | rows, cursors, collected pages | page, load more | `RunListing` |
| Browser session controller (`wallet-session-controller.ts`) | the bearer, its revision, storage | restore, create, sign out, forget | `SessionController` |
| Wallet sign-in (`WalletSignInDialog.tsx`, `wallet-provider-adapter.ts`) | the dialog, an adapter per start, journeys | connect, challenge, sign | `WalletSignIn` |
| Run page and wallet submission (`App.tsx`, `run-client.ts`) | polls, report, recovery marker | poll, submit, attach | `RunCockpit`, `WalletBroadcast` |
| Manifest composer (`ManifestComposer.tsx`) | draft, saved draft, intent | edit, import, take over, submit | `ManifestComposer` |
| Deployment, heartbeat, migrations (`migration-runner.ts`, worker `bootstrap.ts`) | roles, ledger, heartbeat rows | bootstrap, migrate, serve, beat, clean up | `Deployment` |
| HTTP surface (`app.ts`, `bootstrap.ts`) | exchanges, share links | read a body, authenticate, answer | `HttpSurface` |
| FDC adapters (`packages/fdc-coston2`) | samples, preflight pins, proofs | preflight, sign, observe, prove, verify | `Attestation` |
| Clients (`packages/cli`, `action`, `mcp`) | a plan per client, keys, files | gate, command line, recording, connector | `Clients` |
| Promotion (`timeweb-*`, `production-canary-*`) | files of evidence, the host's processes | pilot, rollback, canary ticks | `Promotion` |
| Backups (`timeweb-production-*backup*`, `*pitr*`) | backups, log segments, evidence, a volume | back up, select, restore, retain | `ProductionBackups` |
| Demo recording (`canonical-url-attack-*`) | recordings, imported rows, what is served | record, import, load | `DemoRecording` |
| Proof bundle, replay, code generation | none | pure | what a replay asks: `DemoRecording`, `Attestation` |
| Wire contracts, public pages, Solidity contracts, container images, gates and smoke scripts | none another actor reads | | not modelled |

How they interact: the API inserts rows (`createRun`: the run, its
`RUN_CREATED` event and `RUN_PREFLIGHT`; `enqueue`: later commands). Workers
share nothing but the database: a claim locks one row with `SKIP LOCKED`,
writes a fresh lease token and appends recovery evidence in one transaction;
the handler reads journal and artifacts in one snapshot, leaves the database
for as long as the network takes, and its result (events, artifacts, child
commands) is committed together with the end of the lease. A failure is
reported by `retryCommand`, which requeues the row or, when it is final, fails
the run and cancels its other commands. Browser and clients see the rest only
through HTTP answers, which may be late, lost, or those to another request.
The scripts share files of evidence, a container runtime and the storage of
backups.

What is hard about it: the state a handler works from is stale by the time it
reports; a lease can expire while its worker goes on; a worker can die between
any two transactions; recovery events are derived from a journal that other
commands of the same run write to; several commands of one run are alive at
once (a consumer verification may be requested at any time); and a run goes on
only because every handler leaves a child behind. Outside the core: calls that
interleave between SQL statements under READ COMMITTED; answers that arrive
after the page, the session or the dialog they were for is gone; a process on
a remote host that outlives its connection; files that are inspected and then
used. `PROJECT.json` lists these hazards at their lines, with the properties
that cover them.

What makes each component correct:

- journal: stages in order, one end, nothing after it;
- queue: one holder per command, reports only by the holder, effect and end of
  command in one commit, no work dropped silently, and a recovery view that
  agrees with the rows;
- handlers: no stage without its evidence, no open run without work, a bundle
  exactly for concluded runs;
- submissions: one in force per run, explicit, of the run's own mode;
- relayer: at most one transaction and one broadcast per run;
- admission: exact quotas, answers that tell the intent, live runs within the cap;
- wallet sessions: one session per signed challenge, one project per address,
  no more challenges than the quotas;
- credentials: one secret per key; a page that shows no secret or account of a
  session that was left;
- browser: what is shown is held, what was given up stays gone, one broadcast
  per tab, one intent until it has its run;
- evidence: the cost, request, round and proof of a run belong together;
- HTTP: bounded bodies, answers to whom they belong, links that work;
- clients: a gate passes only on its own run's evidence, one run per identity;
- deployment: whole plans only, readiness that means a worker;
- promotion: earned by four checkpoints of one deployment;
- backups: evidence only of what can be restored, deletion only behind it;
- demonstration: what is served was rebuilt by the release that imported it.

## Modules

The core, composed by refinement:

- `RunJournal`: events, `Accepts` (one call of `appendRunEvents` on one event),
  `AcceptsAll` (a batch), the derived recovery view (`Unresolved`,
  `LastResumed`), the projected stages (`StageStatus`). Pure operators.
- `RunLifecycle`: the abstract specification: a run advances, concludes once, or
  fails once.
- `CommandQueue` (extends `RunJournal`): variables `journal`, `cmd`, `worker`.
  What a handler does is a parameter (`Outcomes`, any children of the same
  run). Actions and code: `Claim` = `claimNextCommand`; `Renew` = the renewal
  awaited before the handler; `Load` = `loadRunExecutionContext`;
  `HandlerThrows`, `HandlerMissing` = the failure paths of `processOne`;
  `Complete` and `CompletionRefused` = `completeCommand` committing or rolling
  back; `Retry` and `RetryRefused` = `retryCommand`; `Crash` = the process ends;
  `DeadlinePasses` = a backoff or lease runs out; `Enqueue` = the API's INSERT.
- `RunPipeline` (extends `CommandQueue`): adds `artifacts`, the snapshot `view`
  of each worker and the `admitted` requests. Each handler is an operator from
  the snapshot to the set of results it may have, branch by branch; `Admit`,
  `Insert`, `InsertRefused` are `enqueue` with its gap between check and
  INSERT. `ImplementsQueue` states that handlers and API use the queue as
  `CommandQueue` allows.
- `RelayerBroadcast` (extends `RunPipeline`): the two relayer handlers call by
  call, with the transaction rows, the account's nonce and the network between
  the calls. `FindForRun`, `Sign`, `Persist`, `SubmitReturns` are
  SUBMIT_RELAYER; `FindToBroadcast`, `ClaimAttempt`, `Reread`, `Resolve`,
  `Send`, `Answered`, `Mark`, `BroadcastReturns` are
  BROADCAST_RELAYER_TRANSACTION; `Break` is any call that throws, whether it
  took effect or not; `Arrive` is the network taking a transaction, possibly
  after its sender gave up. `ImplementsPipeline` states that the steps amount
  to the one-step handlers of `RunPipeline`.
- `CommandQueueProofs` (the queue) and `RunPipelineProofs` (pipeline and relayer)
  hold the theorems about these modules.

The chain of refinements is `RelayerBroadcast` => `RunPipeline` =>
`CommandQueue` => `RunLifecycle`; each arrow is a property of a run and a
theorem.

The services of the API, and what the browser and other clients do with them.
They take `None` from `Nothing`; each has one promise, a conjunction of named
parts, and several have a live specification.

- `RunAdmission`: `createRun` statement by statement (`Begin`, `Lock`,
  `Reserve`, `Count`, `Insert`, `Violate`, `Reconcile`, `Abort`) by processes
  with different limits, across midnight, with the sweep of old windows.
- `AdmissionLedger`: what `createRun` amounts to. A call is answered in one step
  (`Admit`, `Tell`); there are no locks and no counters, the runs of a day are
  counted. `RunAdmission` implements it (`ImplementsLedger`).
- `WalletSessions`: the challenge's two quota rows with their locks, the
  cleanup on the same connection, and a login's transaction, over a bounded
  pool.
- `AccountIssuance`: `createAccountToken` under READ COMMITTED with its unique
  index, revocation, sign-out. `AccountPage`: the page over it, whose authority
  marker every transition of the session advances.
- `RunListing`: `updated_at` is the start of a transaction that may wait for
  its run; the cursor is printed without the fraction of the second; the page
  appends what arrives. `InOrder` is the `ORDER BY`; every request is a call of
  its own, and `stray` when another answer has overtaken it; `view.mixed` says
  that the rows shown are not one list of the session.
- `SessionController`: every operation of the controller with its attempt, the
  tab's storage (which may refuse), and the server's answers in any order.
- `WalletSignIn`: each start and each choice of a wallet is a journey of awaits
  that is answered even when the dialog has moved on.
- `WalletBroadcast`: `submitWithEip1193` with its marker, reloads and a second
  tab. `RunCockpit`: the polling effect and the report's effect of `App.tsx`.
- `ManifestComposer`: one draft, replaced by template, landing, import or
  staged replacement; the intent that is sent until the server has its run.
- `Clients`: gate, command line and connector as plans of requests (`Steps`);
  an API that finds runs by key (`HandleCreate`) and whose answers may be lost
  or another run's.

Operations:

- `Deployment`: role bootstrap, migration runners of several releases,
  readiness, the worker's loop with its heartbeat and shutdown.
- `Attestation`: the ports of `live-runtime.ts` in order, in a world where
  registry, fee, policy, transaction, round and proof service move between the
  steps. The relayer's signing is two steps: `RelayerResolves` reads the registry,
  `SignRelayerTransaction` compares and signs after three more calls, in which
  the registry may have moved on. `sentTx.named` is the hub it named at the read.
- `HttpSurface`: the Node bridge chunk by chunk, the router's authentication
  and scopes, share links (intent, link, repetition), reads of evidence that
  may be damaged, a process that restarts as another release.
- `Promotion`: the pilot's phases, the process on the host that outlives its
  connection, the rollback, and the canary's ticks. A pair of evidence is two
  linked files, the second of which makes it whole. The deployer looks for its
  pair, makes the directory of the run, deploys, links the pair and removes the
  directory, each a step (`part` 0 to 4) of a process that may be killed between
  two of them. `host.late` is a history variable: who had looked, and not yet made
  the directory, when the pair became whole.
- `ProductionBackups`: the log, `archive_command`, `wal-g` pushes, the day's
  job and the pilot's commands step by step, the restore volume, retention.
- `DemoRecording`: releases that generate and compile differently, the file of
  a recording, the import script with its importer, the server that starts.

`ServicesProofs` (admission, wallet sessions, issuance, list of runs), `BrowserProofs`
(controller, sign-in, broadcast), `ClientProofs` (account page, run page,
composer, clients outside the browser) and `OperationsProofs` (attestation,
recording, HTTP surface, deployment, backups, promotion) hold the theorems
about these modules, `ServicesCompositionProofs` and `OperationsCompositionProofs`
those about their compositions `MCServices` and `MCOperations`.

`MCCommandQueue`, `MCRunPipeline`, `MCRelayerBroadcast`, `MCRunListing`,
`MCServices`, `MCOperations` and `MCLive` are the instances for TLC.

Abstractions that matter. A claim token (a UUID written with `attempts + 1` in
one statement) is the attempt number. A clock is one bit per row, or a small
number where ages are compared. An event keeps only what the code compares.
A digest is the value it is of. An idempotency key is a model value. PostgreSQL
gives what READ COMMITTED and its locks give: a statement sees what is
committed, an upsert or a unique index waits for the row's writer. Definitions
marked "Fault" are the bugs the properties are tried against; they are used
nowhere else.

## Runs

| Run | Instance | Shows |
|---|---|---|
| `queue` | two scenes: 2 workers and the 2 commands of a run; 1 worker, a normal, an unhandled and an auxiliary command. `MaxAttempts` 2, `ClaimBound` 3 | types; `SoleHolder`, `OnlyTheHolderReports`: a worker whose lease was taken changes nothing. `EffectsAreFinal`: no command that may run again has already moved its run. `RecoveryViewAgrees`, `ResumedBeforeWork`: journal and rows tell the same story of retries. `LostWorkIsReported`: dropped commands only in runs that are told to be over. `ImplementsLifecycle`: refinement of `RunLifecycle`. |
| `pipeline_replay` | a replay run with two competing submissions, consumer and deployed-consumer verification | types; `BundleOfConcludedRun`; `OneExplicitSubmission`; `ImplementsQueue`: refinement of `CommandQueue`. |
| `pipeline_wallet` | a wallet run from preflight to bundle, a consumer verification at any time | `StagesHaveEvidence`, `OpenRunHasWork` |
| `pipeline_relayer_live` | a relayer run up to its verified proof, fair workers and clocks | liveness: `SubmittedRunsAdvance` |
| `relayer` | two scenes: 2 workers that crash and one relayer run, `MaxAttempts` 3, `ClaimBound` 3; two relayer runs whose commands fail or wait once | types; `SentOnceAfterAttempt`, `SubmittedIsTaken`, `TakenIsFollowed`, `UntakenIsNext` (two runs that sign the same nonce); `ImplementsPipeline`: refinement of `RunPipeline` |
| `services` | the modules of services, browser and clients, a part at a time | one promise each; of issuance and page (`CredentialsPromise`) and of run page and broadcast (`RunPagePromise`) together |
| `operations` | the modules of operations, a part at a time, scene by scene | one promise each |
| `live` | admission, wallet sessions, controller, sign-in, issuance, account page, gates and connector, each under its fairness | `EverythingEnds` |
| `expired_lease`, `early_retry`, `early_resume`, `run_listing_stable` | smallest instances | the findings below |

Parts share no variable, so a state of a suite is a state of one part and the
initial states of the others (`Resting`, `SceneIsSet` pick one for each). The
promises of the parts are:

| Promise | Says |
|---|---|
| `AdmissionPromise` | `QuotaIsExact`: a day's count is the number of runs created that day. `AnswersTellTheIntent`. `AdmittedWithinCap` (action). `ImplementsLedger`: the statements amount to the steps of `AdmissionLedger`; a call is refused only what is full just then. |
| `WalletPromise` | `OneSessionPerChallenge`, `OneProjectPerAddress`, `QuotasBoundChallenges` |
| `CredentialsPromise` | `OneSecretPerKey`, `AnswersNameTheRow`, `KeysStayTaken`; `SecretOfItsSession`, `AccountOfItsSession`, `RevokedIsShown`, `RevocationStaysShown`, `ErrandsSpareOthers` |
| `ListingPromise` | `MissedShareTheSecond`, `RepeatsWentBack`: what pages leave out or repeat has one of two causes |
| `ControllerPromise` | `ShownIsHeld`, `GivenUpStaysGone`, `GoodSessionsAreKept` |
| `SignInPromise` | `SessionIsOneJourney`, `SignedInIsHeld`, `NoLateSession`, `ClosedAsksNothing` |
| `RunPagePromise` | `OneBroadcastPerTab`, `BroadcastIsRemembered`, `HashIsKept`; `PollingGoesOn`, `OneReportRequest`, `MilestoneOnce`, `ShownRunAdvances`, `ReportStays` |
| `ComposerPromise` | `OfferedAsRequested`, `SavedUnlessNoted`, `RetriesAreTheSame`, `DraftIsTheUsers`, `SavedUntilMade` |
| `ClientsPromise` | `PassedIsProved`, `OneRunPerIdentity`, `WalletSpendsOnce`, `RecordingIsWhole` |
| `DeploymentPromise` | `WholePlansOnly`, `RunnersTakeTurns`, `ReadyMeansServed`, `NoneTakenAfterFailure`, `MarkedRowsAreEnded` |
| `AttestationPromise` | `RelayerSpendsAsQuoted`, `SubmittedAsPrepared`, `RoundOfTheBlock`, `PassedIsTrusted` |
| `HttpPromise` | `BodiesAreBounded`, `AnswersBelong`, `LinksWork`, `ShownIsStored` |
| `PromotionPromise` | `PromotionIsEarned`, `EvidenceIsOwn`, `DeploysAgainOnlyUnseen`: contracts are deployed again only by a command that had looked for the evidence before it was there; `FailedIsClosed` |
| `BackupsPromise` | `EvidenceIsRestorable`, `EvidencedIsKept`, `DeletedIsCovered` |
| `RestorePromise` | `PassedIsRestored`, `OneSelects` |
| `DemoPromise` | `ServedIsRebuilt`, `ImportedIsExpected` |

The relayer's instances end at the broadcast: its child POLL_TRANSACTION_RECEIPT
is not among their commands, as in `pipeline_relayer_live`, which has the rest.

Bounds of the core. `MaxAttempts` is 2 or 3 for the code's 8: the code
distinguishes the first attempt, the second (`attempts === 2` in the claim),
later ones and the last, and 3 attempts have all four. `ClaimBound` limits
faults, not work: a worker holding attempt `ClaimBound` or later does not crash
and its lease does not expire, so a command is claimed at most `MaxAttempts +
ClaimBound` times and everything else stays possible. Two workers are enough for
one to hold the lease another lost; a third only repeats this with a later
attempt. One run is enough because no transaction of the queue reads or writes
two runs; two relayer runs are the fewest that compete for a nonce, and what
crashes add to them is covered by the theorem. Where one run would be too large
with two workers the instance has one, which can still crash and be overtaken
by its own reclaim.

Bounds of the suites. Each is named in its module (`MaxTries`, `MaxPolls`,
`LastDay`, ...) and appears only in guards. They are chosen so that the case the
promise is about happens: two calls of one key with different manifests and a
third that competes for the quota; two days; one more challenge than a limit;
two pages, two requests for them in flight; a session and its successor; two starts of a dialog; two tabs; a
poll restarted once; four drafts; three migration runners, one older and one
foreign; two regimes of fees and one upgrade of the registry; a body of one
chunk too many; two jobs of one commit; two pilots and two ticks at once; two
daily jobs and two pilots with eight segments; three releases, the second with
other sources and the third with another generator. Deadlock is not checked: a
system whose work is done rests.

One bound is part of what is claimed: `MaxAnew` is 1. With two preparations of
the host and three pilots `PassedIsRestored` fails: a pilot still running from
the first host overwrites the volume of one whose backup the third pilot has
selected again. The code does not ask for this (it runs one pilot per host), so
`RestorePromise` is claimed, and proved, for one preparation only; `BackupsPromise` holds for
any number of them.

Fairness. `LiveSpec` of the pipeline: weak fairness of each worker's turn
(`runWorkerLoop` polls for ever and the platform starts a dead process again)
and of each deadline. Crashes are never required and, by `ClaimBound`, finitely
many per command. No request is owed: a run nobody submits waits for ever, and
the property starts at the submission. Two things are left out of that run: a
consumer verification that comes too early can end a run or, by the second
finding, never be retried; and a command that can never be claimed again makes
each claim that picks it fail, and it sorts first (`ORDER BY available_at`),
while the model lets a claim pick any row. `live`: a call that has begun goes
on, and fetches settle one way or another (weak fairness); advisory locks, row
locks and the pool's waiters are queues, so a step that is enabled again and
again is taken (strong fairness of `Lock` and of the requests and logins of
`WalletSessions`); a wallet answers what it is asked; of gates and connectors
only their timers are fair, the API never has to answer.

## Proofs

`CommandQueueProofs` proves three theorems for any number of workers, runs,
commands and attempts, from `QueueAssumption` alone:

- `QueueTyped`: `QueueTypeOK` is invariant. It is not inductive: a claim writes
  the attempt of the row as the worker's token, and a report releases the row
  of the worker's command, so a busy worker must have a command. `QueueInv` adds
  that, and
- `OneHolder` needs more: that two workers never hold the same token of the same
  command. `QueueInv` says that a busy worker's token is at least 1 and at most
  the attempts of its row, and that two busy workers of one command have
  different tokens. A claim writes an attempt larger than every token handed
  out before, so it preserves this; every other step keeps tokens or lets a
  worker go idle. `SoleHolder` follows: a live lease has the row's own token.
- `HolderReports`: every step satisfies `OnlyTheHolderReports`. A report that
  changes a row or a journal went through `LeaseLive`, and with the row
  invariant (a leased row's token is its attempts) the reporter is the latest
  claimant.

The module continues with what journal and rows say of each other. Its
invariant `HistoryInv` is, for each command, which recovery events the journal
has of each attempt, given the row's status and attempts and what a worker of
the command has loaded. From it, with any clock, crashes and manual retries:

- `EffectsStay` (`EffectsAreFinal`), `RecoveryAgrees` (`RecoveryViewAgrees`),
  `LossIsReported` (`LostWorkIsReported`), `WorkIsResumed`
  (`ResumedBeforeWork`) and `EvidenceInOrder` (the evidence of a command tells
  its attempts in order; no run checks it by itself).
- `LifecycleImplemented`: the queue refines `RunLifecycle`, if every outcome a
  handler may have is `Stepwise` (its events are ones `transitionRun` allows in
  a row). The code's handlers are; `RunPipelineProofs` proves it of them.

`RunPipelineProofs` proves `QueueImplemented`, the refinement of `CommandQueue`
by `RunPipeline`: every handler, whatever its snapshot, ends with a result the
queue allows (`HandlerResults`), so every step of the pipeline is a step of the
queue or leaves it alone. It rests on `PipelineAssumption` and on
`OutcomeAssumption` (the constant `Outcomes` has all that handlers append). Then,
from the inductive `PipelineInv` (which artifacts, requests and commands a run of
a stage has, and how old the snapshot of a worker may be):

- `PipelineTyped`, `EvidenceComesWithStages` (`StagesHaveEvidence`),
  `SubmissionIsExplicit` (`OneExplicitSubmission`);
- `BundleOfTheEnd` (`BundleOfConcludedRun`) and `OpenRunsGoOn`
  (`OpenRunHasWork`), each under a hypothesis `MayHave(modes, kinds)`: the
  constant set of commands has, for each run of these modes, the commands its
  handlers enqueue. The code makes a row whenever a handler asks for one; an
  instance that leaves kinds out (as the relayer's does) is where it is needed;
- `PipelineImplementsLifecycle`: the refinement of `RunLifecycle` without the
  hypothesis on outcomes.

Of the relayer the module first carries `QueueInv` over to `RelayerSpec` the same way, and
then proves, for any number of runs and workers and any history of the network:

- `SentOnce`: `SentOnceAfterAttempt` alone says nothing of a worker that is
  about to send. `SendOK` adds that such a worker's run has an attempt on record
  and no call yet, and that no other worker is there for the same run: only the
  step that turns a row from signed to attempted leads there.
- `NeverOutrun`: `NonceOK` says that the transactions the network has taken use
  exactly the nonces below the pending one, that rows have different nonces,
  and that a nonce in hand is at most the pending one. A nonce below it that
  nobody persisted does not exist, so a row is only inserted with the pending
  nonce, and the network's next transaction leaves no other one waiting.
- `RelayerImplementsPipeline`: the refinement of `RunPipeline`; the call by call
  handlers report what its one-step handlers may report.
- `RelayerTyped`, `ReportsWhatIsTaken` (`SubmittedIsTaken`), `NothingForgotten`
  (`TakenIsFollowed`), from `BroadcastInv`: what a worker between two calls has
  read is what the row said or says, and a row that the network took keeps a
  command that can be claimed until the run is submitted.

`ServicesProofs`, for any callers, processes, limits, days, requests, pool sizes:

- `AdmissionKeepsItsPromise`: an uncommitted reservation is counted with its
  transaction, whose row locks keep others out, so committed rows count runs.
- `AdmissionImplementsLedger`: the refinement, part of that promise. An insertion
  is the ledger's `Admit`: the lock kept the count and the cap that were read
  earlier (`ReservationHolds`, `CountHolds`), and the row's count is that of the
  runs (`QuotaIsExact`, `FullIsFull`), so the ledger needs no counter. Every other
  step tells a call what is so, or leaves the ledger alone (`CallTells`).
- `WalletKeepsItsPromise`: the quota rows are read under the locks they are
  written under; a challenge is consumed by the login that locked it.
- `IssuanceKeepsItsPromise`: the unique index orders two transactions of a key.
- `ListingKeepsItsPromise`: for any runs, sizes of pages, open transactions and
  requests. `InOrderSorts` shows that a page falls in the order of the query;
  `ListingInv` says that rows that are not mixed are one falling list whose
  cursor is its last row's (`ViewKept`), that a request that is not stray continues the list at the
  cursor of its last row (`AskedKept`), and that each run untouched since the
  session was shown is on a page, still to come after the cursor, or lost within
  the second of a row before it (`AllAccounted`).

`BrowserProofs`, for any order of answers, reloads, failures of the storage:
`ControllerKeepsItsPromise`, `SignInKeepsItsPromise` and
`BroadcastKeepsItsPromise`. Their invariants say of every call in flight which
attempt, journey or marker it belongs to and what it may still write.

`ClientProofs`, for any errands, looks, drafts, runs and answers:

- `AccountKeepsItsPromise`. `PageInv` says of every errand and every look which
  authority it was asked under, what the ledger had for that bearer when it was
  answered, and that the one look still under way saw every revocation that is
  already shown; so the answers that are dropped are exactly those that could
  show another session's keys, or an older state of one's own.
- `CockpitKeepsItsPromise`. What the current look was answered is not behind
  what is shown, and no look of a later one has begun (`PollOK`); a report that
  is asked for is the attempt that is loading (`ReportOK`), and a valid attempt
  has its answer (`AttemptOK`); until the run is over a look is due or under way,
  unless the page says that it is in trouble (`GoesOn`).
- `ComposerKeepsItsPromise`. The promise is mostly about steps, so each action
  has a lemma that gives both the invariant and what the step is allowed
  (`ComposerAllows`): a dialog is open for something that is there (`Offers`), a
  page that is left keeps no draft and no intent (`LeftEmpty`), and the intent of
  a request stays until it is answered (`IntentKept`).
- `ClientsKeepTheirPromise`. How far a client is in its plan tells what was done
  (`PlanOK`), and an answer is of what was asked (`ReplyOK`); two runs have two
  keys, each of an identity or of one start (`KeysDiffer`, `KeysAreOf`), so who
  resumes meets its own run; a transaction on the chain is of the run whose key
  its own start made (`ChainOK`).

`OperationsProofs`:

- `EvidenceBelongsTogether`: `AttestationPromise` is invariant for any runs, fees,
  caps, rounds and changes of the registry. The promise speaks of transactions
  that exist and of stages that are reached; the invariant adds why they stay
  right: a preflight is in hand and a transaction missing until the run is
  accepted (`InOrder`), the evidence of an accepted run comes from one stable
  sample below its cap (`EvidenceKept`, by `OneSample`: one element, and not the
  one that cannot be encoded), and a signing that was begun keeps the registry it
  read and the run accepted until it ends, a round is known only after the submission
  (`RoundKept`), a verdict is given last (`ProofKept`).
- `DemoIsAsMeant`: `DemoPromise` is invariant for any releases, persisted runs,
  imports and starts. What is served is only right because every row was rebuilt
  by the release it names (`RowsAreRebuilt`), and a row is only rebuilt because
  an import inserts the very bytes it verified, whatever is at the path by then
  (`ImportCarries`).
- `AnswersAreRight`: `HttpPromise` is invariant for any exchanges. `HttpInv` says
  of each exchange what it has at its stage (`Sound`), and that of the intents
  of a project and key there is one, which a link that is told must match.
- `DeploymentsAgree`: `DeploymentPromise` is invariant for any migrators, servers
  and workers of any releases. A runner that holds the lock has applied, with
  what was there, a prefix of its own plan, and nobody else writes
  (`SchemaInv`); a row's age is at most its worker's, and what a worker may
  still write to it follows from where its loop is (`RowsInv`).
- `BackupsKeepTheirPromise`: `BackupsPromise` is invariant for any jobs and
  backups. A job between the archiver's answer and the evidence holds a segment
  that is archived and a backup that ended in it or before; a job with evidence
  keeps its backup or enough later ones were taken (`JobKeeps`). Retention keeps
  this because as many backups as are kept after one were taken after it.
- `RestoreKeepsItsPromise`: `RestorePromise` is invariant for any pilots and
  backups while `MaxAnew` is at most 1, the hypothesis of the theorem. At most two
  pilots restore at the same time, one of them left from before the host was
  prepared anew, and what is selected is the evidence of one of the two
  (`TwoAtMost`). A volume holds nothing, or what its pilot's evidence or the
  selected evidence says (`RestoreKeeps`); when the later one has restored, the
  earlier one is past its look at the volume (`Unspoiled`) and cannot restore over
  it. A pilot that saw the other's backup passes only if its evidence is the
  selected one, and then the two are one backup.
- `PromotionKeepsItsPromise`: `PromotionPromise` is invariant for any pilots and
  ticks, kills, clears and clocks set back. Contracts that are not in the pair
  are of whoever holds the directory, which only the one who makes the pair
  whole gives back, and who takes it after that had looked before (`StageKept`,
  `UnderWay`); its own pair finds the path taken. So a whole pair stays the one it
  is, what a pilot's phases left (`Achieved`) stays until it is done, and
  the evidence of a deployment is its own. The checkpoints that are kept are the
  first ones and each was due (`Earned`, `FirstOnes`); what a tick holds agrees
  with them, so a link where nothing was makes them equal (`TickKept`). What a
  pilot activated is open only while it may close it (`IngressOf`).

The type invariants are theorems too (`QueueTyped`, `PipelineTyped`,
`RelayerTyped`, and one `...TypesHold` for each other part). They say more than
that a variable is in a set, so most need what the part's own invariant does not
say:

- that what waits is waited for: a dialog with a spinner is that of a journey
  which awaits something in that stage (`DialogKept`), a controller that restores,
  creates or signs out has its call under way (`FlightKept`), the account page's
  lane is never left to an errand that is over (`Occupied`), a composer knows the
  intent of a request it sent (`SentTyped`), a lock of admission and of wallets is
  of a call inside its transaction;
- that numbers stay in their bounds: a body and its deadline (`SurfaceBounded`),
  the rounds and samples of a run (`RoundsBounded`), the age of a heartbeat row
  (`RowsBounded`), the hour of an activation (`HourBounded`);
- that names have a bearer: what a backup job names is a segment of the log, and
  whoever pushed finds a backup listed, since retention never leaves nothing
  (`BackupsBounded`); a row of the demonstration is of a release and rebuilt by
  one (`OfReleases`).

The two composition modules say that a behaviour of `MCServices` or of
`MCOperations` is one of every part: the parts share no variable, a scene allows
some of the steps of its part, and what rests stutters (`...IsPart`). So what is
proved of the parts, for every value of their constants, holds of what TLC runs:
`ServicesTypesHold`, `OperationsTypesHold`, `CredentialsKeepTheirPromise`,
`RunPageKeepsItsPromise`, `ServicesKeepTheirPromises`,
`OperationsKeepTheirPromises` and, under its hypothesis, `RestoreHoldsTogether`.

Hypotheses on constants are the modules' named assumptions, which TLC evaluates
on every instance. Those that say of `None` that it is not a value of some kind
hold of a `null` in the code; that a plan is not empty holds of the directory of
migrations; that there is a round, a segment of the log and a release holds of
any chain, database and build; a holder of a token got it as a browser or as a
command line. Before an invariant was proved TLC checked it on the instance of
the run it belongs to (`HistoryInv` on 219,911 states, `PipelineInv` on 123,898,
8,568 and 47,208, `BroadcastInv` on 169,590, those of admission, wallets and
issuance on 127,448, `ListingInv` on 1,045,479, of the browser on 48,802 and
1,920, `PromotionInv` on 590,276, `RestoreInv` on 226,224, and with three pilots
on 9,957,040).

The proofs have one lemma or step per action and are checked by `tlapm` on the
eight modules. Not proved, with the reason:

- liveness (`SubmittedRunsAdvance`, `EverythingEnds`): fairness and ENABLED are
  out of the prover's reach;
- `RestorePromise` with more than one preparation of the host is false: see the
  bounds.

Every other property of a passing run is a theorem (`BundleOfConcludedRun` and
`OpenRunHasWork` under `MayHave`). The four properties of the
runs that end in a violation are false, as the next section says.

## Findings

Four runs end in a violation, each of a sentence in the repository's documents:

- `expired_lease`: `docs/slices/002` says that expired leases are reclaimable.
  The claim first tells the lost lease to the journal, and the journal of a
  run that is over takes nothing. A worker that dies while it builds the proof
  bundle leaves a row nobody can claim.
- `early_retry`: ADR 0019 says that a retryable failure is retried. If another
  command moves the run between the announcement and the claim of attempt 2,
  the claim announces attempt 1 again and conflicts with the first
  announcement.
- `early_resume`: ADR 0019 says that every retry claim appends `RUN_RESUMED`.
  Attempt 3 or later after such a move appends nothing.
- `run_listing_stable`: `docs/slices/014` says that pagination is stable. The
  cursor is `new Date(String(row.updated_at))`, which drops the fraction of the
  second, so the other rows of that second are on no page.

What the models show of the code without a document to contradict it:

- The deployer looks for its evidence (`timeweb-production-host-command.mjs:848`)
  and makes the directory of the run later (line 405). If another process of the
  run seals the pair and removes its directory in between (lines 255-264), the
  contracts are deployed a second time; the second pair is refused, so what is
  recorded stays. `docs/slices/029d` says that the deployer "executes exactly once
  in the foreground", of one run of the pilot; two pilots at once are needed for
  this, and `DeploysAgainOnlyUnseen` claims what holds for them.
- The relayer reads the registry (`live-runtime.ts:542`) and signs after three more
  calls; if the hub is replaced in between, or before the transaction is mined, the
  transaction goes to the old one and reverts, and the run fails.
- A page of runs that was asked for by a session that is gone is appended to
  the list of the next one (`RunsIndex.tsx:136`; `view.mixed` in `RunListing`),
  and the former session's rows stay until the next one's first page has come
  (`RunsIndex.tsx:114`). A request that fails late enables "Load more" while a
  page is under way, so that page can be appended twice (`RunsIndex.tsx:139`).
- A report recorded as pending for a run whose preflight is over is not asked
  again until the run moves (`App.tsx:715`).
- A file imported while a replacement is confirmed brings the old key back with
  another manifest (`ManifestComposer.tsx:677`).
- A rerun of the command line makes a second run, its key being fresh; a failed
  gate's rerun of the same commit resumes the same failed run.
- A rollback may be overtaken by an activation still running on the host
  (`timeweb-production-bootstrap-runtime.mjs:310`; the end "overtaken"), and a
  crash between the bytes and the checksum of a pair leaves "evidence already
  exists" for good.
- Waiting until the switched segment is exactly the last one archived times out
  when another actor switches later; the backup listed last may be another's;
  retention counts backups without evidence, so a slow job overtaken by enough
  later backups deletes its own. All three fail safe but for the last, which
  `EvidencedIsKept` states with its exception.

## Plan

Done: the core (queue, pipeline, relayer) with its refinements and proofs; the
services, the browser, the clients and operations as above. Left:

1. The journal operators against a fold of `appendRunEvents` over bounded
   histories (TLC only).
2. `Deployment` under fairness: a worker told to stop ends.

## Not modelled

- Pure functions that keep nothing: schemas of `packages/contracts`, canonical
  JSON, checksums, the text of generated contracts and integration packages,
  rendering, routes and the local list of product events. Where they refuse,
  the refusal is an outcome of the operation that calls them.
- The Solidity library, the images and their configuration, and the gates and
  smoke scripts that run a fixed list of steps alone.
- Older orchestrators that only tests call (`runDigitalOceanProductionPromotion`,
  `runTimewebDirectProductionPilot`, `resumeTimewebProductionCanary`,
  `runApplicationRollback`), and `timeweb-pitr-production`, a backup and restore
  of its own with the same steps.
- Of modelled parts: the order of keys in a stored payload, which the API
  compares as text; lock order inside PostgreSQL (a deadlock it breaks is a
  refused transaction here); relayer fee caps and the daily quota of the relayer
  beyond the failures they cause; the local replay of a pull request and the
  connector's cache; the 1 MiB limit on the inventory of a backup.
