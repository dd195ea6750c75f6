---------------------------- MODULE MCOperations ----------------------------
(***************************************************************************)
(* Deployment, evidence, the HTTP surface, the release, the backups     *)
(* and the demonstration for TLC.  A behaviour is about one part, and where a part has    *)
(* several actors about one scene with those that meet there; others rest.  *)
(***************************************************************************)
EXTENDS Deployment, Attestation, HttpSurface, Promotion, ProductionBackups,
        DemoRecording

CONSTANTS
  m1, m2, m3, v1, w1, w2,
  h1, h2, x1, x2, x3, x4, x5, x6,
  p1, p2, t1, t2, b1, b2, b3, b4, i1, i2

VARIABLE part

\* Deployment: m1 is of an older release, m3 of a foreign one.
MCPlanOf ==
  [p \in Migrators \cup Servers \cup Workers |->
     CASE p = m1 -> <<"a">> [] p = m3 -> <<"d", "e">> [] OTHER -> <<"a", "b", "c">>]

DeploymentScene ==
  [pair |-> {v1, w1, w2}, leftover |-> {v1, w1}, migrations |-> {m1, m2, m3, v1},
   rollout |-> {m1, m2, v1, w1}]

MCHowSubmitted == [r \in Proving |-> r]
MCFeeCap == [r \in Proving |-> 1]

\* HttpSurface: h1 is a token of a project, h2 a session of another.
MCHolderOf ==
  [h \in Holders |-> IF h = h1 THEN [project |-> "p", kind |-> "cli"]
                     ELSE [project |-> "q", kind |-> "browser"]]

MCOwnerOf == [r \in RunsKept |-> "p"]

MCLink == [project |-> "p", keyed |-> "key", run |-> 1]

MCAsk(route, from, who, run, keyed, content) ==
  [route |-> route, from |-> from, who |-> who, run |-> run, keyed |-> keyed, content |-> content]

\* x1 and x2 ask for sessions or templates, x3 and x4 and x5 for links, x5 and x6 look.
MCAsksOf ==
  [x \in Exchanges |->
     CASE x \in {x1, x2} ->
            {MCAsk("login", f, None, None, None, c) : f \in {"own page", "other page"}, c \in {"fits", "not json"}}
            \cup {MCAsk("template", "other page", None, None, None, "fits")}
       [] x = x3 -> {MCAsk("share", "own page", h1, r, "key", "fits") : r \in {1, 2}}
       [] x = x4 -> {MCAsk("share", "no page", h1, 1, k, "fits") : k \in {None, "key"}}
       [] x = x5 -> {MCAsk("share", "no page", w, 1, "key", "fits") : w \in {h2, MCLink}}
       [] OTHER ->
            {MCAsk(route, f, h1, 1, None, "fits") : route \in {"bundle", "lab"}, f \in {"own page", "other page"}}
            \cup {MCAsk("read", "no page", w, r, None, "fits") : w \in {h2, MCLink}, r \in {1, 2}}
            \cup {MCAsk("account", "own page", w, None, None, "fits") : w \in {h1, h2}}]

HttpScene == [visitors |-> {x1, x2}, sharing |-> {x3, x4, x5}, looking |-> {x6}]

\* Promotion: two pilots at once; a second one after the host was prepared anew; one
\* with two ticks at a time.
PromotionScene == [concurrent |-> {p1, p2}, again |-> {p1, p2, t1}, canary |-> {p1, t1, t2}]

\* Backups: two days at once, a pilot beside the timer, a pilot on a host prepared anew.
BackupScene == [days |-> {b1, b2}, beside |-> {b1, b3}, anew |-> {b3, b4}]

\* DemoRecording: runs 1 and 4 asked for the files of the first two releases, 2 and 3
\* for the control; 3 was submitted again.
MCCodegen == <<1, 1, 2>>
MCSources == <<1, 2, 2>>
MCRunBundle ==
  [run \in 1 .. 4 |->
     [run |-> run, gen |-> 1, once |-> run # 3,
      url |-> CASE run = 1 -> 1 [] run = 4 -> 2 [] OTHER -> None]]

Scenes == DOMAIN DeploymentScene \cup DOMAIN HttpScene \cup DOMAIN PromotionScene
          \cup DOMAIN BackupScene \cup {"evidence", "demo"}

\* One initial state for a part that rests.
SceneIsSet ==
  /\ part \notin DOMAIN DeploymentScene => schema.tables = "none"
  /\ \A w \in Workers : worker[w].at = "ended" <=> part = "leftover" /\ w = w2
  /\ part # "evidence" => registry.fee = 1 /\ globalCap = 1
  /\ intents = (IF part = "looking" THEN {MCLink} ELSE {})
  /\ part # "looking" => \A r \in RunsKept : records[r] = "none"

OperationsInit ==
  /\ part \in Scenes
  /\ DeploymentInit /\ AttestationInit /\ HttpInit /\ PromotionInit /\ BackupsInit
  /\ DemoInit
  /\ SceneIsSet

DeploymentScenes ==
  /\ DeploymentNext
  /\ \A m \in Migrators \ DeploymentScene[part] : migrator'[m] = migrator[m]
  /\ \A w \in Workers \ DeploymentScene[part] : worker'[w].at = worker[w].at

HttpScenes ==
  /\ HttpNext
  /\ \A x \in Exchanges \ HttpScene[part] : exchange'[x] = exchange[x]
  /\ part = "visitors" => gone' = gone
  /\ part # "visitors" => serving' # 2
  /\ part = "sharing" => gone' \subseteq {h1}
  /\ part # "looking" => records' = records
  /\ records'[2] = records[2]

PromotionScenes ==
  /\ PromotionNext
  /\ \A p \in Pilots \ PromotionScene[part] : pilot'[p] = pilot[p]
  /\ \A t \in Ticks \ PromotionScene[part] : canary'[t] = canary[t]
  /\ part = "concurrent" => hour' <= 1
  /\ part # "concurrent" /\ hour' > hour => \E p \in Pilots : pilot[p].at > 8
  /\ part = "canary" \/ host'.skews = 0
  /\ part = "again" \/ host'.clears = 0
  /\ part = "again" =>
       /\ pilot'[p1].end \in {None, "passed"} /\ pilot'[p2].end # "killed"
       /\ host.clears = 0 => pilot'[p2] = pilot[p2]

BackupScenes ==
  /\ BackupsNext
  /\ \A j \in Jobs \ BackupScene[part] : job'[j] = job[j]
  /\ part = "anew" => wal'.open < LastSegment /\ \A j \in Jobs : job'[j].at # "killed"
  /\ part # "anew" => shelf'.anew = 0

OperationsNext ==
  /\ UNCHANGED part
  /\ IF part \in DOMAIN DeploymentScene THEN DeploymentScenes ELSE UNCHANGED deploymentVars
  /\ IF part = "evidence" THEN AttestationNext ELSE UNCHANGED attestationVars
  /\ IF part \in DOMAIN HttpScene THEN HttpScenes ELSE UNCHANGED httpVars
  /\ IF part \in DOMAIN PromotionScene THEN PromotionScenes ELSE UNCHANGED promotionVars
  /\ IF part \in DOMAIN BackupScene THEN BackupScenes ELSE UNCHANGED backupsVars
  /\ IF part = "demo" THEN DemoNext ELSE UNCHANGED demoVars

operationsVars ==
  <<part, deploymentVars, attestationVars, httpVars, promotionVars, backupsVars,
    demoVars>>

OperationsSpec == OperationsInit /\ [][OperationsNext]_operationsVars

\* Types of the parts' states.
OperationsTypeOK ==
  /\ part \in Scenes
  /\ part \in DOMAIN DeploymentScene => DeploymentTypeOK
  /\ part = "evidence" => AttestationTypeOK
  /\ part \in DOMAIN HttpScene => HttpTypeOK
  /\ part \in DOMAIN PromotionScene => PromotionTypeOK
  /\ part \in DOMAIN BackupScene => BackupsTypeOK
  /\ part = "demo" => DemoTypeOK
=============================================================================
