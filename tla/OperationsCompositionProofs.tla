-------------------- MODULE OperationsCompositionProofs ---------------------
(***************************************************************************)
(* The parts of MCOperations together.  A behaviour of the composition is  *)
(* one of each of its parts: a scene allows some of the steps of its part, *)
(* and what rests stutters.  So what is proved of the parts holds of it.   *)
(***************************************************************************)
EXTENDS MCOperations, OperationsProofs

\* Of the deployment.
LEMMA DeploymentIsPart == OperationsSpec => DeploymentSpec
<1>1. OperationsInit => DeploymentInit
  BY DEF OperationsInit
<1>2. [OperationsNext]_operationsVars => [DeploymentNext]_deploymentVars
  BY DEF OperationsNext, operationsVars, DeploymentScenes
<1> QED
  BY <1>1, <1>2, PTL DEF OperationsSpec, DeploymentSpec

\* Of the evidence of runs.
LEMMA AttestationIsPart == OperationsSpec => AttestationSpec
<1>1. OperationsInit => AttestationInit
  BY DEF OperationsInit
<1>2. [OperationsNext]_operationsVars => [AttestationNext]_attestationVars
  BY DEF OperationsNext, operationsVars
<1> QED
  BY <1>1, <1>2, PTL DEF OperationsSpec, AttestationSpec

\* Of the HTTP surface.
LEMMA HttpIsPart == OperationsSpec => HttpSpec
<1>1. OperationsInit => HttpInit
  BY DEF OperationsInit
<1>2. [OperationsNext]_operationsVars => [HttpNext]_httpVars
  BY DEF OperationsNext, operationsVars, HttpScenes
<1> QED
  BY <1>1, <1>2, PTL DEF OperationsSpec, HttpSpec

\* Of the promotion.
LEMMA PromotionIsPart == OperationsSpec => PromotionSpec
<1>1. OperationsInit => PromotionInit
  BY DEF OperationsInit
<1>2. [OperationsNext]_operationsVars => [PromotionNext]_promotionVars
  BY DEF OperationsNext, operationsVars, PromotionScenes
<1> QED
  BY <1>1, <1>2, PTL DEF OperationsSpec, PromotionSpec

\* Of the backups.
LEMMA BackupsIsPart == OperationsSpec => BackupsSpec
<1>1. OperationsInit => BackupsInit
  BY DEF OperationsInit
<1>2. [OperationsNext]_operationsVars => [BackupsNext]_backupsVars
  BY DEF OperationsNext, operationsVars, BackupScenes
<1> QED
  BY <1>1, <1>2, PTL DEF OperationsSpec, BackupsSpec

\* Of the demonstration.
LEMMA DemoIsPart == OperationsSpec => DemoSpec
<1>1. OperationsInit => DemoInit
  BY DEF OperationsInit
<1>2. [OperationsNext]_operationsVars => [DemoNext]_demoVars
  BY DEF OperationsNext, operationsVars
<1> QED
  BY <1>1, <1>2, PTL DEF OperationsSpec, DemoSpec

\* The state of deployment, evidence, HTTP surface, promotion, backups and demonstration
\* keeps its types, each part's within the bounds of its constants.
THEOREM OperationsTypesHold == OperationsSpec => []OperationsTypeOK
<1>1. OperationsInit => part \in Scenes
  BY DEF OperationsInit
<1>2. part \in Scenes /\ [OperationsNext]_operationsVars => (part \in Scenes)'
  BY DEF OperationsNext, operationsVars, Scenes, DeploymentScene, HttpScene, PromotionScene, BackupScene
<1>3. OperationsSpec => [](part \in Scenes)
  BY <1>1, <1>2, PTL DEF OperationsSpec
<1>4. OperationsSpec => []DeploymentTypeOK
  BY DeploymentIsPart, DeploymentTypesHold, PTL
<1>5. OperationsSpec => []AttestationTypeOK
  BY AttestationIsPart, AttestationTypesHold, PTL
<1>6. OperationsSpec => []HttpTypeOK
  BY HttpIsPart, HttpTypesHold, PTL
<1>7. OperationsSpec => []PromotionTypeOK
  BY PromotionIsPart, PromotionTypesHold, PTL
<1>8. OperationsSpec => []BackupsTypeOK
  BY BackupsIsPart, BackupsTypesHold, PTL
<1>9. OperationsSpec => []DemoTypeOK
  BY DemoIsPart, DemoTypesHold, PTL
<1>10. /\ part \in Scenes /\ DeploymentTypeOK /\ AttestationTypeOK /\ HttpTypeOK
      /\ PromotionTypeOK /\ BackupsTypeOK /\ DemoTypeOK
      => OperationsTypeOK
  BY DEF OperationsTypeOK
<1> QED
  BY <1>3, <1>4, <1>5, <1>6, <1>7, <1>8, <1>9, <1>10, PTL

\* What every part promises holds of the composition: the schema and readiness, the
\* evidence of runs, the answers over HTTP, the promotion, the backups and the demonstration.
THEOREM OperationsKeepTheirPromises ==
  OperationsSpec =>
    [](/\ DeploymentPromise /\ AttestationPromise /\ HttpPromise
       /\ PromotionPromise /\ BackupsPromise /\ DemoPromise)
<1>1. OperationsSpec => []DeploymentPromise
  BY DeploymentIsPart, DeploymentsAgree, PTL
<1>2. OperationsSpec => []AttestationPromise
  BY AttestationIsPart, EvidenceBelongsTogether, PTL
<1>3. OperationsSpec => []HttpPromise
  BY HttpIsPart, AnswersAreRight, PTL
<1>4. OperationsSpec => []PromotionPromise
  BY PromotionIsPart, PromotionKeepsItsPromise, PTL
<1>5. OperationsSpec => []BackupsPromise
  BY BackupsIsPart, BackupsKeepTheirPromise, PTL
<1>6. OperationsSpec => []DemoPromise
  BY DemoIsPart, DemoIsAsMeant, PTL
<1> QED
  BY <1>1, <1>2, <1>3, <1>4, <1>5, <1>6, PTL

\* And that of the restores, under its hypothesis that the host is prepared anew at most
\* once: a pilot that passed has restored the backup of its own evidence.
THEOREM RestoreHoldsTogether ==
  ASSUME MaxAnew <= 1
  PROVE  OperationsSpec => []RestorePromise
<1>1. OperationsSpec => BackupsSpec
  BY BackupsIsPart
<1>2. BackupsSpec => []RestorePromise
  BY RestoreKeepsItsPromise
<1> QED
  BY <1>1, <1>2, PTL
=============================================================================
