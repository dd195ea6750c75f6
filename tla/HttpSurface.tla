---------------------------- MODULE HttpSurface -----------------------------
(***************************************************************************)
(* The HTTP surface of the API: the Node bridge that reads a request, the  *)
(* router that authenticates and checks it, and the operations that read a *)
(* run's records or derive a share link from it.                           *)
(*                                                                         *)
(* Exchanges are concurrent and each is lost with the process.  Tokens are *)
(* revoked or expire, evidence arrives or is damaged, clients give up, and *)
(* the process restarts, perhaps as another release, between any two steps.*)
(***************************************************************************)
EXTENDS Nothing, Naturals, FiniteSets

CONSTANTS
  Exchanges,    \* A request and its answer.
  AsksOf,       \* The requests an exchange may make: see Asks.
  Holders,      \* Tokens of projects.
  HolderOf,     \* [project, kind]: "browser" or "cli", for each.
  RunsKept,     \* Runs that exist.
  OwnerOf,      \* The project of each run.
  BodyLimit,    \* The eight kilobytes of a wallet request's body, in chunks.
  Deadline,     \* Its ten seconds, in ticks.
  MaxReleases   \* Bound: releases of the API.

Routes == {"login", "account", "list", "read", "lab", "bundle", "share", "command", "template"}

\* A share link: its token is the digest of the intent that asked for it.
Links == [project : {HolderOf[t].project : t \in Holders}, keyed : {"key"}, run : RunsKept]

\* from: the page the request comes from; keyed: its idempotency key; run: of its path;
\* who: a token of a project, a link, or None; content: what its body turns out to be.
Asks ==
  [route : Routes, from : {"own page", "other page", "no page"}, keyed : {None, "key"},
   run : RunsKept \cup {None}, content : {"fits", "other shape", "with a key", "not json"},
   who : Holders \cup Links \cup {None}]

ASSUME HttpAssumption ==
  /\ AsksOf \in [Exchanges -> SUBSET Asks]
  /\ \A t \in Holders : HolderOf[t].kind \in {"browser", "cli"}
  /\ {BodyLimit, Deadline, MaxReleases} \subseteq Nat /\ Deadline > 0 /\ MaxReleases > 0

VARIABLES
  serving,   \* The release that serves, or None while the process is down.
  exchange,  \* [at, ask, size, age, late, auth, got]: see HttpTypeOK; None before it and
             \* when it was refused or lost: the client may ask again.
             \* late: the token was revoked before the request came.
  gone,      \* Tokens revoked or expired.
  intents,   \* run_commands of derived products: [project, keyed, run].
  shares,    \* share_tokens.
  records,   \* A run's evidence: "none", "unsafe", "safe" or "damaged".
  cached     \* The release whose templates a browser holds, or None.

httpVars == <<serving, exchange, gone, intents, shares, records, cached>>

HttpInit ==
  /\ serving = 1
  /\ exchange = [x \in Exchanges |-> None]
  /\ gone = {}
  /\ intents \in {{}} \cup {{l} : l \in Links}
  /\ shares = intents
  /\ records \in [RunsKept -> {"none", "unsafe", "safe"}]
  /\ cached = None

At(x, s) == exchange[x] # None /\ exchange[x].at = s

Answer(x, got) ==
  exchange' = [exchange EXCEPT ![x].at = "answered", ![x].got = got]

\* Refused, or its connection gone.
Over(x) == exchange' = [exchange EXCEPT ![x] = None]

Advance(x, s) == exchange' = [exchange EXCEPT ![x].at = s]

\* An exception nobody catches ends the process, and every exchange with it.
ProcessEnds ==
  /\ serving' = None
  /\ exchange' = [x \in Exchanges |->
       IF At(x, "answered") THEN exchange[x] ELSE None]
  /\ UNCHANGED <<gone, intents, shares, records, cached>>

(***************************************************************************)
(* The bridge.                                                             *)
(***************************************************************************)

IsPublicAuthPost(ask) == ask.route = "login"

\* Fault: the preflight of every origin is allowed.
SentFromAnywhere(ask) == TRUE

\* A browser asks first, and corsPreflightResponse allows its own origin only; without
\* asking it sends what carries no credential.
IsSent(ask) == ask.from = "other page" => ask.route \in {"login", "template"}

\* Origin, encodings and declared length, before any of the body is read.
HeadersPass(ask, declared) == ask.from = "own page" /\ declared <= BodyLimit

Arrive(x) ==
  /\ serving # None /\ exchange[x] = None
  /\ \E ask \in AsksOf[x], declared \in {0, BodyLimit + 1} :
       /\ IsSent(ask)
       /\ IsPublicAuthPost(ask) => HeadersPass(ask, declared)
       /\ exchange' = [exchange EXCEPT
            ![x] = [at |-> "reading", ask |-> ask, size |-> 0, age |-> 0,
                    late |-> ask.who \in gone, auth |-> None, got |-> [told |-> "nothing"]]]
  /\ UNCHANGED <<serving, gone, intents, shares, records, cached>>

\* Fault: the length that was declared is trusted.
WithinDeclared(x) == TRUE

\* Each chunk is counted before it is kept.
WithinLimit(x) == exchange[x].size < BodyLimit

\* A chunk of the body of a wallet request; other bodies are read without a limit.
ReadChunk(x) ==
  /\ At(x, "reading") /\ IsPublicAuthPost(exchange[x].ask)
  /\ exchange[x].size <= BodyLimit
  /\ IF exchange[x].age = Deadline \/ ~WithinLimit(x)
     THEN Over(x)
     ELSE exchange' = [exchange EXCEPT ![x].size = @ + 1]
  /\ UNCHANGED <<serving, gone, intents, shares, records, cached>>

TimePasses ==
  /\ \E x \in Exchanges : At(x, "reading") /\ exchange[x].age < Deadline
  /\ exchange' = [x \in Exchanges |->
       IF At(x, "reading") /\ IsPublicAuthPost(exchange[x].ask) /\ exchange[x].age < Deadline
       THEN [exchange[x] EXCEPT !.age = @ + 1] ELSE exchange[x]]
  /\ exchange' # exchange
  /\ UNCHANGED <<serving, gone, intents, shares, records, cached>>

\* Fault: a body that arrives after all is served.
MayEndLate(x) == TRUE

\* The timer of the deadline ends the wait for the next chunk.
MayEnd(x) == IsPublicAuthPost(exchange[x].ask) => exchange[x].age < Deadline

BodyEnds(x) ==
  /\ At(x, "reading")
  /\ IF MayEnd(x) THEN Advance(x, "routed") ELSE Over(x)
  /\ UNCHANGED <<serving, gone, intents, shares, records, cached>>

\* The client gives up within its body: a wallet request's connection is closed, the
\* error of another is nobody's.
BodyAborts(x) ==
  /\ At(x, "reading")
  /\ IF IsPublicAuthPost(exchange[x].ask)
     THEN Over(x) /\ UNCHANGED <<serving, gone, intents, shares, records, cached>>
     ELSE ProcessEnds

(***************************************************************************)
(* The router.                                                             *)
(***************************************************************************)

\* Fault: a revoked token that is stored is one.
AuthorityOfStored(who) ==
  CASE who \in Holders -> [kind |-> HolderOf[who].kind, project |-> HolderOf[who].project, run |-> None]
    [] who \in shares -> [kind |-> "share", project |-> who.project, run |-> who.run]
    [] OTHER -> None

\* authenticate(): a token of a project, or that of a share link.
Authority(who) ==
  CASE who \in Holders \ gone ->
         [kind |-> HolderOf[who].kind, project |-> HolderOf[who].project, run |-> None]
    [] who \in shares \ gone -> [kind |-> "share", project |-> who.project, run |-> who.run]
    [] OTHER -> None

\* Fault: the run of the path is not compared with the link's.
SharedReads(auth, ask) == auth.kind = "share" => ask.route \in {"read", "lab", "bundle"}

\* isSharedRead and the scope of the link.
WithinShare(auth, ask) ==
  auth.kind = "share" => ask.route \in {"read", "lab", "bundle"} /\ ask.run = auth.run

\* The checks between authentication and the service; account routes are a browser's.
Admitted(auth, ask) ==
  /\ WithinShare(auth, ask)
  /\ ask.route = "account" => auth.kind = "browser"
  /\ ask.route \in {"share", "command"} => ask.keyed # None
  /\ ask.content = "fits"

\* A wallet request is parsed and goes to the service that keeps sessions.
ServeLogin(x) ==
  /\ At(x, "routed") /\ exchange[x].ask.route = "login"
  /\ exchange[x].ask.from = "own page"
  /\ IF exchange[x].ask.content = "fits" THEN Answer(x, [told |-> "session"]) ELSE Over(x)
  /\ UNCHANGED <<serving, gone, intents, shares, records, cached>>

Authenticate(x) ==
  /\ At(x, "routed") /\ exchange[x].ask.route \notin {"login", "template"}
  /\ LET auth == Authority(exchange[x].ask.who) IN
       IF auth # None /\ Admitted(auth, exchange[x].ask)
       THEN exchange' = [exchange EXCEPT ![x].at = "admitted", ![x].auth = auth]
       ELSE Over(x)
  /\ UNCHANGED <<serving, gone, intents, shares, records, cached>>

\* The query of authenticate() is outside the router's try.
AuthenticationThrows(x) ==
  /\ At(x, "routed") /\ exchange[x].ask.who # None
  /\ exchange[x].ask.route \notin {"login", "template"}
  /\ ProcessEnds

(***************************************************************************)
(* The operations.                                                         *)
(***************************************************************************)

\* Fault: the run is looked up by its id alone.
OwnedById(x) == exchange[x].ask.run # None

\* Every query names the run and the project of the credential.
Owned(x) ==
  LET r == exchange[x].ask.run IN r # None /\ OwnerOf[r] = exchange[x].auth.project

\* Fault: a consumer that passed is reported safe whatever the artifacts say.
LabUnverified(r) == IF records[r] \in {"safe", "damaged"} THEN "safe" ELSE records[r]

\* getConsumerLabReport: artifact and event must agree, the safe source match its digest
\* and have compiled; the verdict is safe when every check is enforced and passed.
LabReport(r) == IF records[r] = "damaged" THEN "invalid" ELSE records[r]

\* The bundle, the receipt made of it, the evidence of a deployed consumer: bytes that
\* match their digest and name the run.
BundleBytes(r) == IF records[r] = "damaged" THEN "invalid" ELSE records[r]

\* What a read shows; the run and its events are rows, checked by their schema.
Shown(route, r) ==
  CASE route = "lab" -> LabReport(r) [] route = "bundle" -> BundleBytes(r) [] OTHER -> "run"

ServeRead(x) ==
  /\ At(x, "admitted") /\ exchange[x].ask.route \in {"read", "lab", "bundle"}
  /\ LET r == exchange[x].ask.run
         of == Shown(exchange[x].ask.route, r) IN
       IF Owned(x) /\ of \notin {"none", "invalid"}
       THEN Answer(x, [told |-> "data", run |-> r, link |-> None, was |-> records[r], of |-> of])
       ELSE Over(x)
  /\ UNCHANGED <<serving, gone, intents, shares, records, cached>>

\* listRuns, the account and the commands of a run have modules of their own.
ServeElsewhere(x) ==
  /\ At(x, "admitted") /\ exchange[x].ask.route \in {"list", "account", "command"}
  /\ Over(x)
  /\ UNCHANGED <<serving, gone, intents, shares, records, cached>>

Intent(x) ==
  [project |-> exchange[x].auth.project, keyed |-> exchange[x].ask.keyed, run |-> exchange[x].ask.run]

SameKey(x) == {i \in intents : i.project = exchange[x].auth.project /\ i.keyed = exchange[x].ask.keyed}

\* Fault: whatever the key was used for, the link is made.
ConflictUnseen(x) == FALSE

Conflicts(x) == \E i \in SameKey(x) : i # Intent(x)

\* persistCompletedIntent: looked up, inserted, and looked up again by who lost the race.
PersistIntent(x) ==
  /\ At(x, "admitted") /\ exchange[x].ask.route = "share"
  /\ IF ~Owned(x) \/ Conflicts(x)
     THEN Over(x) /\ UNCHANGED intents
     ELSE /\ Advance(x, IF SameKey(x) = {} THEN "intended" ELSE "repeated")
          /\ intents' = intents \cup (IF SameKey(x) = {} THEN {Intent(x)} ELSE {})
  /\ UNCHANGED <<serving, gone, shares, records, cached>>

\* Fault: an intent that was there has its link already.
NewLinks(x) == IF At(x, "repeated") THEN {} ELSE {Intent(x)}

\* INSERT ... ON CONFLICT DO NOTHING, also when the intent is an earlier request's.
LinksStored(x) == {Intent(x)}

CreateShare(x) ==
  /\ At(x, "intended") \/ At(x, "repeated")
  /\ shares' = shares \cup LinksStored(x)
  /\ Answer(x, [told |-> "data", run |-> exchange[x].ask.run, link |-> Intent(x), was |-> "none",
               of |-> "run"])
  /\ UNCHANGED <<serving, gone, intents, records, cached>>

\* Any query of an operation may fail; the router answers for it.
OperationFails(x) ==
  /\ At(x, "admitted") \/ At(x, "intended") \/ At(x, "repeated")
  /\ Over(x)
  /\ UNCHANGED <<serving, gone, intents, shares, records, cached>>

\* Fault: a browser that sends a tag is told that nothing changed.
KnownAtAll == cached # None

\* The tag is the digest of the bytes.
NotModified == cached = serving

\* Templates and the demonstration: prepared at the start, revalidated by their tag.
ServeTemplate(x) ==
  /\ At(x, "routed") /\ exchange[x].ask.route = "template"
  /\ cached' = IF NotModified THEN cached ELSE serving
  /\ Answer(x, [told |-> "data", seen |-> cached', served |-> serving])
  /\ UNCHANGED <<serving, gone, intents, shares, records>>

(***************************************************************************)
(* The world, and the next-state relation.                                 *)
(***************************************************************************)

Revoke(t) ==
  /\ t \notin gone
  /\ gone' = gone \cup {t}
  /\ UNCHANGED <<serving, exchange, intents, shares, records, cached>>

EvidenceChanges(r) ==
  /\ records' \in {[records EXCEPT ![r] = e] : e \in {"unsafe", "safe", "damaged"}}
  /\ records[r] \in {"none", "safe"} /\ records' # records
  /\ records[r] = "safe" => records'[r] = "damaged"
  /\ UNCHANGED <<serving, exchange, gone, intents, shares, cached>>

Crash == serving # None /\ ProcessEnds

Restart ==
  /\ serving = None
  /\ serving' \in 1 .. MaxReleases
  /\ UNCHANGED <<exchange, gone, intents, shares, records, cached>>

HttpNext ==
  \/ TimePasses \/ Crash \/ Restart
  \/ \E t \in Holders \cup shares : Revoke(t)
  \/ \E r \in RunsKept : EvidenceChanges(r)
  \/ \E x \in Exchanges :
       \/ Arrive(x) \/ ReadChunk(x) \/ BodyEnds(x) \/ BodyAborts(x)
       \/ ServeLogin(x) \/ Authenticate(x) \/ AuthenticationThrows(x) \/ ServeTemplate(x)
       \/ ServeRead(x) \/ ServeElsewhere(x) \/ PersistIntent(x) \/ CreateShare(x)
       \/ OperationFails(x)

HttpSpec == HttpInit /\ [][HttpNext]_httpVars

(***************************************************************************)
(* What the surface promises.                                              *)
(***************************************************************************)

Answered == {x \in Exchanges : At(x, "answered") /\ exchange[x].got.told = "data"}

OfRuns == {x \in Answered : exchange[x].ask.route # "template"}

Linked == {x \in OfRuns : exchange[x].got.link # None}

\* Types of the surface's state (app.ts, bootstrap.ts).
HttpTypeOK ==
  /\ serving \in (1 .. MaxReleases) \cup {None}
  /\ \A x \in Exchanges : exchange[x] # None =>
       /\ exchange[x].at \in {"reading", "routed", "admitted", "intended", "repeated", "answered"}
       /\ exchange[x].ask \in AsksOf[x] /\ exchange[x].age \in 0 .. Deadline
       /\ exchange[x].size \in 0 .. BodyLimit + 1 /\ exchange[x].late \in BOOLEAN
       /\ exchange[x].auth # None => exchange[x].auth.kind \in {"browser", "cli", "share"}
  /\ gone \subseteq Holders \cup Links /\ intents \subseteq Links /\ shares \subseteq Links
  /\ records \in [RunsKept -> {"none", "unsafe", "safe", "damaged"}]
  /\ cached \in (1 .. MaxReleases) \cup {None}

\* A wallet request holds no more memory than its limit, and one that is served was
\* complete before its deadline (bootstrap.ts:500-538).
BodiesAreBounded ==
  \A x \in Exchanges : exchange[x] # None /\ IsPublicAuthPost(exchange[x].ask) =>
    /\ exchange[x].size <= BodyLimit
    /\ exchange[x].got.told = "session" => exchange[x].age < Deadline /\ exchange[x].ask.from = "own page"

\* What is told of a run is told to its project or to the link of that run, not to
\* another page, and not with a token revoked before the request (app.ts:815-1000).
AnswersBelong ==
  /\ \A x \in Exchanges : exchange[x] # None /\ exchange[x].auth # None =>
       ~exchange[x].late /\ exchange[x].ask.from # "other page"
  /\ \A x \in OfRuns :
       /\ OwnerOf[exchange[x].got.run] = exchange[x].auth.project
       /\ exchange[x].auth.kind = "share" =>
            exchange[x].got.link = None /\ exchange[x].got.run = exchange[x].auth.run

\* A link that was handed out is stored, whichever of the requests with its key failed
\* or came twice, and a key has one link (production-service.ts:537-591, 1575-1618).
LinksWork ==
  \A x \in Linked :
    /\ exchange[x].got.link \in shares
    /\ \A y \in Linked : exchange[y].auth.project = exchange[x].auth.project
                         /\ exchange[y].ask.keyed = exchange[x].ask.keyed =>
                         exchange[y].got.link = exchange[x].got.link

\* Evidence that is not what was stored is not shown (production-service.ts:1391-1539),
\* and a template is the one that is served (app.ts:251-288).
ShownIsStored ==
  \A x \in Answered :
    IF x \in OfRuns THEN exchange[x].got.of = "safe" => exchange[x].got.was = "safe"
    ELSE exchange[x].got.seen = exchange[x].got.served

\* Bounded bodies, answers to whom they belong, links that work, evidence as stored.
HttpPromise == BodiesAreBounded /\ AnswersBelong /\ LinksWork /\ ShownIsStored
=============================================================================
