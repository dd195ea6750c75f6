--------------------- MODULE ServicesCompositionProofs ----------------------
(***************************************************************************)
(* The parts of MCServices together.  They share no state: a behaviour of  *)
(* the composition is one of each of its parts, in which what rests        *)
(* stutters, and what is proved of the parts holds of it.                  *)
(***************************************************************************)
EXTENDS MCServices, ServicesProofs, BrowserProofs, ClientProofs

\* Of admission of runs.
LEMMA AdmissionIsPart == ServicesSpec => AdmissionSpec
<1>1. ServicesInit => AdmissionInit
  BY DEF ServicesInit
<1>2. [ServicesNext]_servicesVars => [AdmissionNext]_admissionVars
  BY DEF ServicesNext, servicesVars
<1> QED
  BY <1>1, <1>2, PTL DEF ServicesSpec, AdmissionSpec

\* Of wallet sessions.
LEMMA WalletIsPart == ServicesSpec => WalletSpec
<1>1. ServicesInit => WalletInit
  BY DEF ServicesInit
<1>2. [ServicesNext]_servicesVars => [WalletNext]_walletVars
  BY DEF ServicesNext, servicesVars
<1> QED
  BY <1>1, <1>2, PTL DEF ServicesSpec, WalletSpec

\* Of the list of runs.
LEMMA ListingIsPart == ServicesSpec => ListingSpec
<1>1. ServicesInit => ListingInit
  BY DEF ServicesInit
<1>2. [ServicesNext]_servicesVars => [ListingNext]_listingVars
  BY DEF ServicesNext, servicesVars
<1> QED
  BY <1>1, <1>2, PTL DEF ServicesSpec, ListingSpec

\* Of the session of the browser.
LEMMA ControllerIsPart == ServicesSpec => ControllerSpec
<1>1. ServicesInit => ControllerInit
  BY DEF ServicesInit
<1>2. [ServicesNext]_servicesVars => [ControllerNext]_controllerVars
  BY DEF ServicesNext, servicesVars
<1> QED
  BY <1>1, <1>2, PTL DEF ServicesSpec, ControllerSpec

\* Of the sign-in.
LEMMA SignInIsPart == ServicesSpec => SignInSpec
<1>1. ServicesInit => SignInInit
  BY DEF ServicesInit
<1>2. [ServicesNext]_servicesVars => [SignInNext]_signInVars
  BY DEF ServicesNext, servicesVars
<1> QED
  BY <1>1, <1>2, PTL DEF ServicesSpec, SignInSpec

\* Of the issuance of tokens.
LEMMA IssuanceIsPart == ServicesSpec => IssuanceSpec
<1>1. ServicesInit => IssuanceInit
  BY DEF ServicesInit
<1>2. [ServicesNext]_servicesVars => [IssuanceNext]_issuanceVars
  BY DEF ServicesNext, servicesVars
<1> QED
  BY <1>1, <1>2, PTL DEF ServicesSpec, IssuanceSpec

\* Of the account page.
LEMMA AccountPageIsPart == ServicesSpec => AccountPageSpec
<1>1. ServicesInit => AccountPageInit
  BY DEF ServicesInit
<1>2. [ServicesNext]_servicesVars => [AccountPageNext]_accountVars
  BY DEF ServicesNext, servicesVars
<1> QED
  BY <1>1, <1>2, PTL DEF ServicesSpec, AccountPageSpec

\* Of the submission by wallet.
LEMMA BroadcastIsPart == ServicesSpec => BroadcastSpec
<1>1. ServicesInit => BroadcastInit
  BY DEF ServicesInit
<1>2. [ServicesNext]_servicesVars => [BroadcastNext]_broadcastVars
  BY DEF ServicesNext, servicesVars
<1> QED
  BY <1>1, <1>2, PTL DEF ServicesSpec, BroadcastSpec

\* Of the page of a run.
LEMMA CockpitIsPart == ServicesSpec => CockpitSpec
<1>1. ServicesInit => CockpitInit
  BY DEF ServicesInit
<1>2. [ServicesNext]_servicesVars => [CockpitNext]_cockpitVars
  BY DEF ServicesNext, servicesVars
<1> QED
  BY <1>1, <1>2, PTL DEF ServicesSpec, CockpitSpec

\* Of the composer.
LEMMA ComposerIsPart == ServicesSpec => ComposerSpec
<1>1. ServicesInit => ComposerInit
  BY DEF ServicesInit
<1>2. [ServicesNext]_servicesVars => [ComposerNext]_composerVars
  BY DEF ServicesNext, servicesVars
<1> QED
  BY <1>1, <1>2, PTL DEF ServicesSpec, ComposerSpec

\* Of the clients outside the browser.
LEMMA ClientsIsPart == ServicesSpec => ClientsSpec
<1>1. ServicesInit => ClientsInit
  BY DEF ServicesInit
<1>2. [ServicesNext]_servicesVars => [ClientsNext]_clientsVars
  BY DEF ServicesNext, servicesVars, ClientScenes
<1> QED
  BY <1>1, <1>2, PTL DEF ServicesSpec, ClientsSpec

\* The state of the services, of the browser and of the other clients keeps its types, each
\* part's within the bounds of its constants.
THEOREM ServicesTypesHold == ServicesSpec => []ServicesTypeOK
<1>1. ServicesInit => part \in Parts
  BY DEF ServicesInit
<1>2. part \in Parts /\ [ServicesNext]_servicesVars => (part \in Parts)'
  BY DEF ServicesNext, servicesVars, Parts, ClientScene
<1>3. ServicesSpec => [](part \in Parts)
  BY <1>1, <1>2, PTL DEF ServicesSpec
<1>4. ServicesSpec => []AdmissionTypeOK
  BY AdmissionIsPart, AdmissionTypesHold, PTL
<1>5. ServicesSpec => []WalletTypeOK
  BY WalletIsPart, WalletTypesHold, PTL
<1>6. ServicesSpec => []ListingTypeOK
  BY ListingIsPart, ListingTypesHold, PTL
<1>7. ServicesSpec => []ControllerTypeOK
  BY ControllerIsPart, ControllerTypesHold, PTL
<1>8. ServicesSpec => []SignInTypeOK
  BY SignInIsPart, SignInTypesHold, PTL
<1>9. ServicesSpec => []IssuanceTypeOK
  BY IssuanceIsPart, IssuanceTypesHold, PTL
<1>10. ServicesSpec => []AccountPageTypeOK
  BY AccountPageIsPart, AccountTypesHold, PTL
<1>11. ServicesSpec => []BroadcastTypeOK
  BY BroadcastIsPart, BroadcastTypesHold, PTL
<1>12. ServicesSpec => []CockpitTypeOK
  BY CockpitIsPart, CockpitTypesHold, PTL
<1>13. ServicesSpec => []ComposerTypeOK
  BY ComposerIsPart, ComposerTypesHold, PTL
<1>14. ServicesSpec => []ClientsTypeOK
  BY ClientsIsPart, ClientTypesHold, PTL
<1>15. /\ part \in Parts /\ AdmissionTypeOK /\ WalletTypeOK /\ ListingTypeOK /\ ControllerTypeOK
      /\ SignInTypeOK /\ IssuanceTypeOK /\ AccountPageTypeOK /\ BroadcastTypeOK
      /\ CockpitTypeOK /\ ComposerTypeOK /\ ClientsTypeOK
      => ServicesTypeOK
  BY DEF ServicesTypeOK
<1> QED
  BY <1>3, <1>4, <1>5, <1>6, <1>7, <1>8, <1>9,
     <1>10, <1>11, <1>12, <1>13, <1>14, <1>15, PTL

\* The service of account tokens (account-token-service.ts) gives one secret per key, answers
\* of the row it made and never frees a key, and the account page (AccountSettings.tsx) shows
\* a secret, an account and a revocation only in the session they belong to, and for good.
THEOREM CredentialsKeepTheirPromise == ServicesSpec => CredentialsPromise
<1>1. ServicesSpec => IssuancePromise
  BY IssuanceIsPart, IssuanceKeepsItsPromise
<1>2. ServicesSpec => AccountPromise
  BY AccountPageIsPart, AccountKeepsItsPromise
<1> QED
  BY <1>1, <1>2 DEF CredentialsPromise

\* A tab asks the wallet for one broadcast of a run and remembers it and its hash
\* (run-client.ts), and the run's page goes on looking, never goes back, tells
\* each milestone once and keeps a valid preflight report (App.tsx).
THEOREM RunPageKeepsItsPromise == ServicesSpec => RunPagePromise
<1>1. ServicesSpec => BroadcastPromise
  BY BroadcastIsPart, BroadcastKeepsItsPromise
<1>2. ServicesSpec => CockpitPromise
  BY CockpitIsPart, CockpitKeepsItsPromise
<1> QED
  BY <1>1, <1>2 DEF RunPagePromise

\* What the other parts promise holds of the composition: admission, sessions, the list of
\* runs, the session and the sign-in of the browser, the composer and the clients.
THEOREM ServicesKeepTheirPromises ==
  ServicesSpec =>
    /\ AdmissionPromise /\ ControllerPromise /\ SignInPromise /\ ComposerPromise
    /\ []WalletPromise /\ []ListingPromise /\ []ClientsPromise
<1>1. ServicesSpec => AdmissionPromise
  BY AdmissionIsPart, AdmissionKeepsItsPromise
<1>2. ServicesSpec => ControllerPromise
  BY ControllerIsPart, ControllerKeepsItsPromise
<1>3. ServicesSpec => SignInPromise
  BY SignInIsPart, SignInKeepsItsPromise
<1>4. ServicesSpec => ComposerPromise
  BY ComposerIsPart, ComposerKeepsItsPromise
<1>5. ServicesSpec => []WalletPromise
  BY WalletIsPart, WalletKeepsItsPromise, PTL
<1>6. ServicesSpec => []ListingPromise
  BY ListingIsPart, ListingKeepsItsPromise, PTL
<1>7. ServicesSpec => []ClientsPromise
  BY ClientsIsPart, ClientsKeepTheirPromise, PTL
<1> QED
  BY <1>1, <1>2, <1>3, <1>4, <1>5, <1>6, <1>7
=============================================================================
