------------------------------- MODULE MCLive -------------------------------
(***************************************************************************)
(* What must happen eventually, on small instances, one part at a time, as *)
(* in MCServices; each part has the fairness of its own specification.     *)
(***************************************************************************)
EXTENDS MCServices

LiveParts == {"admission", "wallet", "controller", "sign-in", "issuance", "account", "gates", "connect"}

LiveInit == ServicesInit /\ part \in LiveParts

LiveSpec ==
  /\ LiveInit
  /\ [][ServicesNext]_servicesVars
  /\ \A c \in Calls :
       /\ WF_admissionVars(part = "admission" /\ ~At(c, "idle") /\ CallStep(c))
       /\ SF_admissionVars(part = "admission" /\ Lock(c))
  /\ \A r \in Requests : SF_walletVars(part = "wallet" /\ RequestStep(r))
  /\ \A l \in Logins : SF_walletVars(part = "wallet" /\ LoginStep(l))
  /\ WF_controllerVars(part = "controller" /\ CallsSettle)
  /\ WF_controllerVars(part = "controller" /\ AnswersArrive)
  /\ \A a \in Attempts : WF_signInVars(part = "sign-in" /\ JourneyStep(a))
  /\ \A i \in Issues : WF_issuanceVars(part = "issuance" /\ IssueStep(i))
  /\ \A l \in Looks : WF_accountVars(part = "account" /\ LookStep(l))
  /\ \A e \in Errands : WF_accountVars(part = "account" /\ AccountErrandStep(e))
  /\ WF_clientsVars(part \in {"gates", "connect"} /\ ClockTicks)
  /\ \A c \in Clients : WF_clientsVars(part \in {"gates", "connect"} /\ ClientExpires(c))

\* Whoever waits is answered, whatever is running ends: calls that wait for the
\* project's lock, challenge requests and logins, the session controller, the dialog,
\* whoever issues a credential, the account page, gates and connectors.
EverythingEnds ==
  /\ WaitersAreAnswered /\ CallsEnd /\ BusyEnds /\ SpinnerEnds
  /\ IssuingEnds /\ ErrandsEnd /\ GatesEnd
=============================================================================
