----------------------------- MODULE MCServices -----------------------------
(***************************************************************************)
(* The services of the API, the components of the browser and the clients  *)
(* outside it for TLC.                                                     *)
(* They share no state: a behaviour is about one of them, its part, or of   *)
(* the clients about one scene, and the others rest.                       *)
(***************************************************************************)
EXTENDS
  RunAdmission, WalletSessions, RunListing, SessionController, WalletSignIn,
  AccountIssuance, AccountPage, WalletBroadcast, RunCockpit, ManifestComposer,
  Clients

CONSTANTS
  c1, c2, c3, c4, k1, k2, k3, wallet_run, relayer_run, replay_run,
  a1, a2, a3, r1, r2, r3, l1, l2, l3, l4,
  tpl1, tpl2, p1, p2, s1, s2, t1, t2, i1, i2, i3, i4,
  g1, g2, g3, lw, lr, rec, con, val, ja, jb, ma, mb

VARIABLE part

\* RunAdmission: c1 and c2 compete for a key with different manifests.
MCKeyOf == [c \in Calls |-> IF c \in {c1, c2} THEN k1 ELSE IF c = c3 THEN k2 ELSE k3]

MCManifestOf ==
  [c \in Calls |-> CASE c = c2 -> replay_run [] c = c3 -> relayer_run [] OTHER -> wallet_run]

MCDayLimit == [c \in Calls |-> IF c = c3 THEN 1 ELSE 2]

MCLiveLimit == [c \in Calls |-> IF c = c3 THEN 2 ELSE 1]

\* WalletSessions: two challenges of one address and one of another, l1 and l2
\* answer those of a1, l3 answers the first again.
MCAddressOf == [r \in Requests |-> IF r = r3 THEN a2 ELSE a1]

MCChallengeOf == [l \in Logins |-> IF l = l2 THEN r2 ELSE r1]

\* RunListing.
MCProjectOf == [r \in Runs |-> IF r = 9 THEN p2 ELSE p1]

MCSessionOf == [s \in Sessions |-> IF s = s1 THEN p1 ELSE p2]

\* AccountIssuance: three calls with a key, one of them of another intent.
MCIssueKeyOf == [i \in Issues |-> IF i = i4 THEN k2 ELSE k1]

MCIntentOf == [i \in Issues |-> IF i = i3 THEN "action" ELSE "cli"]

\* Clients: g1 and g2 are jobs of one commit with different manifests, val replays what
\* rec has recorded.
MCKindOf ==
  [c \in Clients |->
    CASE c \in {g1, g2} -> "liveGate" [] c = g3 -> "gate" [] c = lw -> "wallet" [] c = lr -> "relayer"
      [] c = rec -> "recorder" [] c = con -> "connector" [] OTHER -> "validator"]

MCIdentityOf == [c \in Clients |-> IF c \in {g1, g2} THEN ja ELSE jb]

MCContentOf ==
  [c \in Clients |-> CASE c = rec -> <<1, 2>> [] c = val -> 2 [] c = g2 -> mb [] OTHER -> ma]

ClientScene ==
  [gates |-> {g1, g2}, one |-> {g1, val}, connect |-> {con, g3}, local |-> {lw, lr}, record |-> {rec, val}]

Parts ==
  {"admission", "wallet", "listing", "controller", "sign-in", "issuance", "account",
   "broadcast", "cockpit", "composer"} \cup DOMAIN ClientScene

\* One initial state for a part that rests.
Resting ==
  /\ part # "controller" => storage = None /\ ~denied
  /\ part # "sign-in" => wallet = [account |-> a1, chain |-> "other", knows |-> FALSE]
  /\ part # "cockpit" => ~blocked /\ ~reading
  /\ part # "composer" => saved = None /\ ~signed
  /\ book[1] # None <=> part = "record"
  /\ book[2] # None <=> part \in {"record", "one"}

ServicesInit ==
  /\ part \in Parts
  /\ AdmissionInit /\ WalletInit /\ ListingInit /\ ControllerInit /\ SignInInit
  /\ IssuanceInit /\ AccountPageInit /\ BroadcastInit /\ CockpitInit
  /\ ComposerInit /\ ClientsInit
  /\ Resting

ClientScenes ==
  /\ ClientsNext
  /\ \A c \in Clients \ ClientScene[part] : client'[c] = client[c]

ServicesNext ==
  /\ UNCHANGED part
  /\ IF part = "admission" THEN AdmissionNext ELSE UNCHANGED admissionVars
  /\ IF part = "wallet" THEN WalletNext ELSE UNCHANGED walletVars
  /\ IF part = "listing" THEN ListingNext ELSE UNCHANGED listingVars
  /\ IF part = "controller" THEN ControllerNext ELSE UNCHANGED controllerVars
  /\ IF part = "sign-in" THEN SignInNext ELSE UNCHANGED signInVars
  /\ IF part = "issuance" THEN IssuanceNext ELSE UNCHANGED issuanceVars
  /\ IF part = "account" THEN AccountPageNext ELSE UNCHANGED accountVars
  /\ IF part = "broadcast" THEN BroadcastNext ELSE UNCHANGED broadcastVars
  /\ IF part = "cockpit" THEN CockpitNext ELSE UNCHANGED cockpitVars
  /\ IF part = "composer" THEN ComposerNext ELSE UNCHANGED composerVars
  /\ IF part \in DOMAIN ClientScene THEN ClientScenes ELSE UNCHANGED clientsVars

\* Types of the parts' states.
ServicesTypeOK ==
  /\ part \in Parts
  /\ part = "admission" => AdmissionTypeOK
  /\ part = "wallet" => WalletTypeOK
  /\ part = "listing" => ListingTypeOK
  /\ part = "controller" => ControllerTypeOK
  /\ part = "sign-in" => SignInTypeOK
  /\ part = "issuance" => IssuanceTypeOK
  /\ part = "account" => AccountPageTypeOK
  /\ part = "broadcast" => BroadcastTypeOK
  /\ part = "cockpit" => CockpitTypeOK
  /\ part = "composer" => ComposerTypeOK
  /\ part \in DOMAIN ClientScene => ClientsTypeOK

servicesVars ==
  <<part, admissionVars, walletVars, listingVars, controllerVars, signInVars,
    issuanceVars, accountVars, broadcastVars, cockpitVars, composerVars, clientsVars>>

ServicesSpec == ServicesInit /\ [][ServicesNext]_servicesVars

\* What the server promises of the credentials it issues, and the browser of the page
\* that shows them.
CredentialsPromise == IssuancePromise /\ AccountPromise

\* What the page of a run promises, and the submission by wallet that is made from it.
RunPagePromise == BroadcastPromise /\ CockpitPromise
=============================================================================
