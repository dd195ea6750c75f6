------------------------------ MODULE Clients -------------------------------
(***************************************************************************)
(* The clients outside the browser, against one API: the gate in a         *)
(* repository's workflow (live for a merge group, by replay for a push),   *)
(* the command line (a run with a local wallet or without, the recording of*)
(* two runs) and the connector for assistants.                             *)
(*                                                                         *)
(* A client goes through its plan, a request at a time.  The API handles a *)
(* request and its answer arrives, or is lost, or is that of another run.  *)
(***************************************************************************)
EXTENDS Nothing, Naturals, Sequences, FiniteSets

CONSTANTS
  Clients,
  KindOf,      \* "liveGate", "gate", "wallet", "relayer", "recorder", "connector" or "validator".
  IdentityOf,  \* What the key of a gate or a connector is made of: job and commit, operationId.
  ContentOf,   \* The manifest; for a recorder and a validator the runs of the command line.
  RunIds,      \* Bound: runs the project may have.
  TimeLimit,   \* The deadline of a gate, the patience of the others, in ticks.
  MaxStarts    \* Bound: times a client is started.

ClientKinds == {"liveGate", "gate", "wallet", "relayer", "recorder", "connector", "validator"}

\* Those that have runs of their own.
Submitters == {c \in Clients : KindOf[c] \notin {"recorder", "validator"}}

RunKeys == (Clients \cup {IdentityOf[c] : c \in Clients} \cup {None}) \X Nat

RunRecords ==
  [key : RunKeys, content : {ContentOf[c] : c \in Submitters} \cup {None},
   mode : {"relayer", "wallet", "replay"},
   stage : {"preparing", "ready", "submitted", "proved", "passed", "refused", "failed"},
   sub : RunKeys \cup {None}, ver : RunKeys \cup {None}, again : BOOLEAN]

\* An identity is of a commit or an operation, never of a process; nothing is null.
ASSUME ClientsAssumption ==
  /\ {TimeLimit, MaxStarts} \subseteq Nat /\ TimeLimit > 0
  /\ KindOf \in [Clients -> ClientKinds]
  /\ \A c \in Clients :
       /\ KindOf[c] = "recorder" => ContentOf[c] \in RunIds \X RunIds /\ ContentOf[c][1] # ContentOf[c][2]
       /\ KindOf[c] = "validator" => ContentOf[c] \in RunIds
       /\ IdentityOf[c] \notin Clients \cup {None}
  /\ None \notin Clients \cup {"done"} /\ None \notin RunKeys /\ None \notin RunRecords

VARIABLES
  book,    \* The API's runs: [key, content, mode, stage, sub, ver, again], or None.
  client,  \* [at, starts, age, run, reply, proj, held, end]: see ClientsTypeOK.
  chain,   \* Transactions of local wallets: [by, start, run].
  file     \* What the recorder's path holds: None or [whole, runs].

clientsVars == <<book, client, chain, file>>

ModeOf(c) == CASE KindOf[c] \in {"liveGate", "relayer"} -> "relayer"
               [] KindOf[c] = "wallet" -> "wallet"
               [] OTHER -> "replay"

\* What a client asks for, in order.
Steps ==
  [kind \in ClientKinds |->
     CASE kind = "liveGate" -> <<"create", "submit", "boundary", "verify", "terminal", "bundle", "replay">>
       [] kind = "gate" -> <<"create", "submit", "terminal", "bundle", "replay">>
       [] kind = "wallet" -> <<"create", "submit", "sign", "attach">>
       [] kind \in {"relayer", "connector"} -> <<"create", "submit">>
       [] kind = "recorder" -> <<"bundle", "bundle", "write">>
       [] kind = "validator" -> <<"bundle", "replay">>]

Engaged(c) == client[c].at > 0

StepOf(c) == Steps[KindOf[c]][client[c].at]

Unstarted ==
  [at |-> 0, starts |-> 0, age |-> 0, run |-> None, reply |-> None, proj |-> None, held |-> <<>>,
   end |-> None]

\* A run of the project that was concluded before.
EarlierRun ==
  [key |-> <<None, 0>>, content |-> None, mode |-> "relayer", stage |-> "passed",
   sub |-> <<None, 0>>, ver |-> <<None, 0>>, again |-> FALSE]

ClientsInit ==
  /\ \E n \in 0 .. Cardinality(RunIds) : book = [i \in RunIds |-> IF i <= n THEN None ELSE EarlierRun]
  /\ client = [c \in Clients |-> Unstarted]
  /\ chain = {}
  /\ file = None

\* Fault: every attempt of a job has a key of its own.
KeyOfAttempt(c) == <<c, client[c].starts>>

\* The command line makes a key for each command; a gate derives it from repository,
\* commit, tree, workflow and job; the connector is given it, or makes one.
KeyFor(c) ==
  IF KindOf[c] \in {"wallet", "relayer"} THEN <<c, client[c].starts>> ELSE <<IdentityOf[c], 0>>

EndsAs(c, how) == client' = [client EXCEPT ![c].at = 0, ![c].end = how, ![c].reply = None]

\* Configuration and secrets are read; without them nothing is asked.
ClientStarts(c) ==
  /\ ~Engaged(c) /\ client[c].starts < MaxStarts /\ client[c].end \in {None, "failed", "pending"}
  /\ \E configured \in BOOLEAN :
       client' = [client EXCEPT
         ![c] = [Unstarted EXCEPT !.at = IF configured THEN 1 ELSE 0, !.starts = client[c].starts + 1,
                   !.end = IF configured THEN None ELSE "failed",
                   !.run = IF KindOf[c] = "validator" THEN ContentOf[c] ELSE None]]
  /\ UNCHANGED <<book, chain, file>>

(***************************************************************************)
(* The API, as these clients meet it.                                      *)
(***************************************************************************)

Asking(c, stp) == Engaged(c) /\ StepOf(c) = stp /\ client[c].reply = None

Replies(c, r) == client' = [client EXCEPT ![c].reply = r]

Refuses(c) == Replies(c, [ok |-> FALSE])

\* A run of the key is found, or created; another content under the key is refused.
HandleCreate(c) ==
  /\ Asking(c, "create")
  /\ LET had == {i \in RunIds : book[i] # None /\ book[i].key = KeyFor(c)} IN
       IF had # {}
       THEN /\ \E i \in had : IF book[i].content = ContentOf[c] /\ book[i].mode = ModeOf(c)
                              THEN Replies(c, [ok |-> TRUE, run |-> i]) ELSE Refuses(c)
            /\ UNCHANGED book
       ELSE \E i \in RunIds :
              /\ book[i] = None /\ \A j \in RunIds : j < i => book[j] # None
              /\ book' = [book EXCEPT
                   ![i] = [key |-> KeyFor(c), content |-> ContentOf[c], mode |-> ModeOf(c),
                           stage |-> "preparing", sub |-> None, ver |-> None, again |-> FALSE]]
              /\ Replies(c, [ok |-> TRUE, run |-> i])
  /\ UNCHANGED <<chain, file>>

\* A submission waits for the preflight; a run has one.  A wallet's is prepared, and
\* the answer may be that to another request.
HandleSubmit(c) ==
  /\ Asking(c, "submit")
  /\ LET i == client[c].run IN
       IF book[i].sub = KeyFor(c) \/ (book[i].sub = None /\ book[i].stage = "ready")
       THEN /\ book' = [book EXCEPT ![i].sub = KeyFor(c),
                          ![i].stage = IF @ = "ready" /\ book[i].mode # "wallet" THEN "submitted" ELSE @]
            /\ \E j \in RunIds : book[j] # None /\ Replies(c, [ok |-> TRUE, run |-> j])
       ELSE /\ IF book[i].stage = "preparing" THEN Replies(c, [ok |-> FALSE, wait |-> TRUE])
                                              ELSE Refuses(c)
            /\ UNCHANGED book
  /\ UNCHANGED <<chain, file>>

\* The local wallet signs and broadcasts; the answer may be an error all the same.
Broadcast(c) ==
  /\ Asking(c, "sign")
  /\ chain' = chain \cup {[by |-> c, start |-> client[c].starts, run |-> client[c].held[1]]}
  /\ \E answered \in BOOLEAN : IF answered THEN Replies(c, [ok |-> TRUE]) ELSE Refuses(c)
  /\ UNCHANGED <<book, file>>

HandleAttach(c) ==
  /\ Asking(c, "attach")
  /\ LET i == client[c].run IN
       IF book[i].stage = "ready"
       THEN book' = [book EXCEPT ![i].stage = "submitted"] /\ Replies(c, [ok |-> TRUE])
       ELSE Refuses(c) /\ UNCHANGED book
  /\ UNCHANGED <<chain, file>>

HandleVerify(c) ==
  /\ Asking(c, "verify")
  /\ LET i == client[c].run IN
       IF book[i].ver = KeyFor(c) \/ (book[i].ver = None /\ book[i].stage = "proved")
       THEN book' = [book EXCEPT ![i].ver = KeyFor(c)] /\ Replies(c, [ok |-> TRUE])
       ELSE Refuses(c) /\ UNCHANGED book
  /\ UNCHANGED <<chain, file>>

Terminal(i) == book[i] # None /\ book[i].stage \in {"passed", "refused", "failed"}

\* The projection of the run, or of another.
HandleLook(c) ==
  /\ Asking(c, "boundary") \/ Asking(c, "terminal")
  /\ \E i \in RunIds : book[i] # None /\ Replies(c, [ok |-> TRUE, run |-> i, proj |-> book[i]])
  /\ UNCHANGED <<book, chain, file>>

\* The run whose bundle is asked: a recorder asks for each of its two.
BundleAsked(c) ==
  IF KindOf[c] = "recorder" THEN ContentOf[c][client[c].at] ELSE client[c].run

\* The bundle of the run, or of another; a run that has not concluded has none.
HandleBundle(c) ==
  /\ Asking(c, "bundle")
  /\ \/ Refuses(c)
     \/ \E i \in RunIds : Terminal(i) /\ book[i].stage # "failed" /\ Replies(c, [ok |-> TRUE, run |-> i])
  /\ UNCHANGED <<book, chain, file>>

\* The API replays the bytes it is sent and names their run.
HandleReplay(c) ==
  /\ Asking(c, "replay")
  /\ Replies(c, [ok |-> TRUE, run |-> client[c].held[1]])
  /\ UNCHANGED <<book, chain, file>>

(***************************************************************************)
(* What the clients make of the answers.                                   *)
(***************************************************************************)

\* Fault: only the wait for an answer is bounded, not the time when it is used.
NoDeadline(c) == TRUE

\* withinDeadline: before and after every operation of a gate.
InTime(c) == KindOf[c] \in {"gate", "liveGate"} => client[c].age < TimeLimit

Heard(c, stp) ==
  /\ Engaged(c) /\ StepOf(c) = stp /\ client[c].reply # None /\ client[c].reply.ok /\ InTime(c)

\* The next step, or the end of the plan.
Proceeds(c, rec) ==
  client' = [client EXCEPT
    ![c] = IF rec.at = Len(Steps[KindOf[c]])
           THEN [rec EXCEPT !.at = 0, !.reply = None, !.end = "done"]
           ELSE [rec EXCEPT !.at = @ + 1, !.reply = None]]

RunMade(c) ==
  /\ Heard(c, "create")
  /\ Proceeds(c, [client[c] EXCEPT !.run = client[c].reply.run])
  /\ UNCHANGED <<book, chain, file>>

\* Fault: a submission's answer is taken for whatever run it names.
ForWhatever(c) == TRUE

\* parseSubmissionResponse: run, mode and the owner of the effect; a gate does not look.
ForMyRun(c) == KindOf[c] \in {"gate", "liveGate"} \/ client[c].reply.run = client[c].run

Submitted(c) ==
  /\ Heard(c, "submit")
  /\ IF ForMyRun(c) THEN Proceeds(c, [client[c] EXCEPT !.held = <<client[c].reply.run>>])
                    ELSE EndsAs(c, "failed")
  /\ UNCHANGED <<book, chain, file>>

\* PREFLIGHT_NOT_READY: asked again after a pause, until the patience ends; the
\* connector then names its operation, to be repeated.
Waits(c) ==
  /\ Engaged(c) /\ client[c].reply # None /\ "wait" \in DOMAIN client[c].reply
  /\ IF client[c].age < TimeLimit
     THEN Replies(c, None)
     ELSE EndsAs(c, IF KindOf[c] = "connector" THEN "pending" ELSE "failed")
  /\ UNCHANGED <<book, chain, file>>

StepGoesOn(c, stp) ==
  /\ Heard(c, stp)
  /\ Proceeds(c, client[c])
  /\ UNCHANGED <<book, chain, file>>

\* A projection: another run's is an error; the loop goes on until the proof is
\* verified, or for the second wait until the run is terminal.
Inspects(c) ==
  /\ Heard(c, "boundary") \/ Heard(c, "terminal")
  /\ LET proj == client[c].reply.proj
         over == proj.stage \in {"passed", "refused", "failed"} IN
       IF client[c].reply.run # client[c].run THEN EndsAs(c, "failed")
       ELSE IF StepOf(c) = "terminal" /\ over THEN Proceeds(c, [client[c] EXCEPT !.proj = proj])
       ELSE IF StepOf(c) = "boundary" /\ over
            THEN Proceeds(c, [client[c] EXCEPT !.at = @ + 1])
       ELSE IF StepOf(c) = "boundary" /\ proj.stage = "proved" THEN Proceeds(c, client[c])
       ELSE Replies(c, None)
  /\ UNCHANGED <<book, chain, file>>

HoldsBundle(c) ==
  /\ Heard(c, "bundle")
  /\ Proceeds(c, [client[c] EXCEPT
       !.held = IF KindOf[c] = "recorder" THEN Append(@, client[c].reply.run) ELSE <<client[c].reply.run>>])
  /\ UNCHANGED <<book, chain, file>>

\* Fault: the replay's identity is not compared with the run.
AnyBundle(c) == TRUE

\* replayPersistedBundle, and assertTerminalBundle of the bundle that was held.
BundleIsMine(c) == client[c].reply.run = client[c].run /\ client[c].held[1] = client[c].run

\* Fault: a transaction broadcast again after its hash was recorded is not counted.
EvidenceComplete(c) == client[c].proj.stage = "passed"

\* The verdict of the gate: consumer verified, nothing broadcast again, commit and tree.
Accepts(c) ==
  /\ client[c].proj.stage = "passed"
  /\ KindOf[c] = "liveGate" => ~client[c].proj.again

Replayed(c) ==
  /\ Heard(c, "replay")
  /\ IF BundleIsMine(c) /\ (KindOf[c] = "validator" \/ Accepts(c))
     THEN Proceeds(c, client[c]) ELSE EndsAs(c, "failed")
  /\ UNCHANGED <<book, chain, file>>

\* An error, an answer lost, a process killed; an answer late for a gate.
ClientFails(c) ==
  /\ Engaged(c) /\ ~(StepOf(c) = "write" /\ client[c].reply # None)
  /\ EndsAs(c, "failed")
  /\ UNCHANGED <<book, chain, file>>

\* Fault: the connector waits for its answer without a timer.
TimerOfGates(c) == KindOf[c] \in {"gate", "liveGate", "validator"}

HasTimer(c) == KindOf[c] \in {"gate", "liveGate", "connector", "validator"}

\* The timer of a gate and of a connector's request.
ClientExpires(c) ==
  /\ Engaged(c) /\ client[c].age = TimeLimit
  /\ HasTimer(c)
  /\ EndsAs(c, "failed")
  /\ UNCHANGED <<book, chain, file>>

(***************************************************************************)
(* The recording.                                                          *)
(***************************************************************************)

\* Fault: the recording is not compared with what was asked for.
RecordedAnyhow(c) == TRUE

\* It names the two runs and holds their bundles.
AsRequested(c) == client[c].held = ContentOf[c]

\* Fault: the file is written in place.
PathWhileWriting(c) == [whole |-> FALSE, runs |-> client[c].held]

\* What the path holds while a file of another name is written and synced.
WhileWriting(c) == file

WriteBegins(c) ==
  /\ Asking(c, "write")
  /\ IF AsRequested(c)
     THEN /\ file' = WhileWriting(c)
          /\ Replies(c, [ok |-> TRUE])
     ELSE EndsAs(c, "failed") /\ UNCHANGED file
  /\ UNCHANGED <<book, chain>>

\* Renamed; or the other file is removed, or stays when the process is killed.
WriteEnds(c) ==
  /\ Heard(c, "write")
  /\ \/ /\ file' = [whole |-> TRUE, runs |-> client[c].held]
        /\ Proceeds(c, client[c])
     \/ EndsAs(c, "failed") /\ UNCHANGED file
  /\ UNCHANGED <<book, chain>>

(***************************************************************************)
(* The world, and the next-state relation.                                 *)
(***************************************************************************)

\* A run goes on by itself; the conclusion of a relayed or wallet run is asked for.
BookAdvances(i) ==
  /\ book[i] # None
  /\ LET s == book[i].stage
         asked == book[i].ver # None \/ book[i].mode = "replay" IN
       \E n \in CASE s = "preparing" -> {"ready", "failed"}
                  [] s = "submitted" -> {"proved", "failed"}
                  [] s = "proved" -> IF asked THEN {"passed", "refused", "failed"} ELSE {}
                  [] OTHER -> {} :
         \E again \in BOOLEAN :
           /\ again => book[i].mode = "relayer" /\ n = "proved"
           /\ book' = [book EXCEPT ![i].stage = n, ![i].again = @ \/ again]
  /\ UNCHANGED <<client, chain, file>>

ClockTicks ==
  /\ \E c \in Clients : Engaged(c) /\ client[c].age < TimeLimit
  /\ client' = [c \in Clients |->
       IF Engaged(c) /\ client[c].age < TimeLimit THEN [client[c] EXCEPT !.age = @ + 1] ELSE client[c]]
  /\ UNCHANGED <<book, chain, file>>

ClientStep(c) ==
  \/ ClientStarts(c) \/ RunMade(c) \/ Submitted(c) \/ Waits(c) \/ StepGoesOn(c, "sign") \/ StepGoesOn(c, "attach")
  \/ StepGoesOn(c, "verify") \/ Inspects(c) \/ HoldsBundle(c) \/ Replayed(c) \/ ClientFails(c)
  \/ WriteBegins(c) \/ WriteEnds(c) \/ Broadcast(c)

ApiHandles(c) ==
  \/ HandleCreate(c) \/ HandleSubmit(c) \/ HandleAttach(c) \/ HandleVerify(c) \/ HandleLook(c)
  \/ HandleBundle(c) \/ HandleReplay(c)

ClientsNext ==
  \/ ClockTicks
  \/ \E i \in RunIds : BookAdvances(i)
  \/ \E c \in Clients : ClientStep(c) \/ ApiHandles(c) \/ ClientExpires(c)

ClientsSpec == ClientsInit /\ [][ClientsNext]_clientsVars

(***************************************************************************)
(* What the clients promise.                                               *)
(***************************************************************************)

\* Types of the clients' state (packages/action, packages/cli, packages/mcp).
ClientsTypeOK ==
  /\ \A i \in RunIds : book[i] # None =>
       book[i].stage \in {"preparing", "ready", "submitted", "proved", "passed", "refused", "failed"}
  /\ \A c \in Clients :
       /\ client[c].at \in 0 .. Len(Steps[KindOf[c]]) /\ client[c].starts \in 0 .. MaxStarts
       /\ client[c].age \in 0 .. TimeLimit /\ client[c].run \in RunIds \cup {None}
       /\ client[c].held \in Seq(RunIds) /\ client[c].end \in {None, "done", "failed", "pending"}

Gates == {c \in Clients : KindOf[c] \in {"gate", "liveGate"}}

\* A gate that is passed has a run of its own manifest and mode, submitted under its own
\* key, concluded and accepted by the consumer, with nothing broadcast again, and its
\* bundle is that of the run: another run's answers do not pass it, nor does an answer
\* after the deadline (action/index.ts:84-105, runtime.ts:115-146).
PassedIsProved ==
  \A c \in Gates : client[c].end = "done" =>
    LET i == client[c].run IN
      /\ book[i].content = ContentOf[c] /\ book[i].mode = ModeOf(c)
      /\ book[i].key = KeyFor(c) /\ book[i].sub = KeyFor(c) /\ book[i].stage = "passed"
      /\ KindOf[c] = "liveGate" => ~book[i].again
      /\ client[c].held = <<i>> /\ client[c].age < TimeLimit

\* However often a job is run again or an operation repeated, one commit and one
\* operation have one run: an answer lost to the first attempt costs no second
\* transaction (runtime.ts:97-113, mcp/runtime.ts:219-232).
OneRunPerIdentity ==
  \A c \in {d \in Clients : KindOf[d] \in {"gate", "liveGate", "connector"}} :
    Cardinality({i \in RunIds : book[i] # None /\ book[i].key[1] \in {IdentityOf[c], c}}) <= 1

\* The local wallet sends one transaction for a run at most, and only one that was
\* prepared for the run the command created (cli/index.ts:255-280, 484-500).
WalletSpendsOnce ==
  \A t \in chain :
    /\ book[t.run].key = <<t.by, t.start>> /\ book[t.run].sub = book[t.run].key
    /\ \A u \in chain : u.run = t.run => u = t

\* The path of a recording holds what was there, or all of a recording of the two runs
\* that were asked for (cli/bin.ts:16-38, cli/index.ts:335-373).
RecordingIsWhole ==
  file # None => file.whole /\ \E c \in Clients : KindOf[c] = "recorder" /\ file.runs = ContentOf[c]

\* Gates pass on evidence of their own, nothing is done twice, files are whole.
ClientsPromise == PassedIsProved /\ OneRunPerIdentity /\ WalletSpendsOnce /\ RecordingIsWhole

\* A gate and a connector end, even when the API never answers.
GatesEnd ==
  \A c \in {d \in Clients : KindOf[d] \in {"gate", "liveGate", "connector"}} :
    [](Engaged(c) => <>~Engaged(c))

\* Timers fire; the steps of clients that can be taken are.
ClientsFairness ==
  /\ WF_clientsVars(ClockTicks)
  /\ \A c \in Clients : WF_clientsVars(ClientExpires(c))
=============================================================================
