-------------------------- MODULE OperationsProofs --------------------------
(***************************************************************************)
(* The parts around the application keep their promises for every value of *)
(* their constants: the evidence of a run, the recording of the            *)
(* demonstration, exchanges over HTTP, the deployment with its migrations, *)
(* the base backups, and the promotion of a release. Each part has its own *)
(* inductive invariant: what the promise says, and what every actor        *)
(* between two of its steps holds.                                         *)
(***************************************************************************)
EXTENDS Deployment, Attestation, HttpSurface, DemoRecording, ProductionBackups, Promotion,
        SequenceTheorems, FiniteSetTheorems, WellFoundedInduction, TLAPS

(***************************************************************************)
(* AttestationPromise holds of the evidence of any number of runs, for all *)
(* fees, caps, rounds and changes of the registry: cost, request, round    *)
(* and proof of a run belong together however the world moves between      *)
(* steps.                                                                  *)
(***************************************************************************)

Samples == {"usual", "other", "not encodable"}

\* What the registry said when the preflight read it.
Pins == [version : 0 .. MaxUpgrades, fee : Fees]

Samplings == [pin : Pins, samples : Seq(Samples)]

Evidences == [pin : Pins, cap : Fees, stable : BOOLEAN]

Txs == [to : 0 .. MaxUpgrades, value : Fees, own : BOOLEAN, named : 0 .. MaxUpgrades,
        on : BOOLEAN, mined : {"no", "success", "reverted"}, round : Nat]

Proofs == [of : {"own", "alike", "foreign"}, included : BOOLEAN]

\* The types the steps of a proof need.
EvidenceTypes ==
  /\ registry \in Pins /\ globalCap \in Fees
  /\ epoch \in [now : Nat, finalized : Nat]
  /\ stage \in [Proving -> RunStages]
  /\ sampling \in [Proving -> Samplings \cup {None}]
  /\ evidence \in [Proving -> Evidences \cup {None}]
  /\ sentTx \in [Proving -> Txs \cup {None}]
  /\ votingRound \in [Proving -> Nat \cup {None}]
  /\ proof \in [Proving -> Proofs \cup {None}]
  /\ verdict \in [Proving -> {"passed", "refused", None}]

\* The stages of a run that was accepted, and of one that was submitted.
Accepted == RunStages \ {"created", "failed"}
Submitted == RunStages \ {"created", "accepted", "signed", "failed"}

\* A preflight is in hand only before the run is accepted, and a signing only of the
\* relayer's and only when it was; there is no transaction before, and none of the relayer
\* until it signs.
InOrder(r) ==
  /\ sampling[r] # None => stage[r] = "created" \/ (stage[r] = "accepted" /\ HowSubmitted[r] = "relayer")
  /\ stage[r] = "created" => sentTx[r] = None
  /\ stage[r] = "accepted" /\ HowSubmitted[r] = "relayer" => sentTx[r] = None

\* An accepted run has the evidence of samples that agreed, at a price below its cap.
EvidenceKept(r) ==
  stage[r] \in Accepted =>
    evidence[r] \in Evidences /\ evidence[r].stable /\ evidence[r].pin.fee <= FeeCap[r]

\* What the relayer signed stays what the evidence of the run says.
SpentAsQuoted(r) ==
  HowSubmitted[r] = "relayer" /\ (sentTx[r] # None \/ stage[r] \in Submitted \cup {"signed"}) =>
    /\ stage[r] # "created"
    /\ sentTx[r].value <= FeeCap[r] /\ sentTx[r].value <= evidence[r].cap
    /\ sentTx[r].to = sentTx[r].named /\ sentTx[r].to = evidence[r].pin.version

\* A transaction that is signed, or observed as submitted, is that of the evidence.
OwnTransaction(r) ==
  stage[r] \in Submitted \cup {"signed"} =>
    sentTx[r] \in Txs /\ sentTx[r].own /\ sentTx[r].value = evidence[r].pin.fee

\* The round is that of the block, and is known only after the submission.
RoundKept(r) ==
  votingRound[r] # None =>
    /\ stage[r] \notin {"created", "accepted", "signed"}
    /\ sentTx[r] \in Txs /\ sentTx[r].mined = "success" /\ votingRound[r] = sentTx[r].round

\* A verified proof was under the root, and the verdict is given on the proof that is kept.
ProofKept(r) ==
  /\ stage[r] \in {"verified", "concluded"} => proof[r].included
  /\ verdict[r] = "passed" => stage[r] = "concluded" /\ proof[r].of # "foreign"

EvidenceOf(r) ==
  InOrder(r) /\ EvidenceKept(r) /\ SpentAsQuoted(r) /\ OwnTransaction(r) /\ RoundKept(r) /\ ProofKept(r)

\* The inductive invariant.
AttestationInv == EvidenceTypes /\ \A r \in Proving : EvidenceOf(r)

\* Samples that agree are one sample: the preflight's two blockers leave nothing else.
LEMMA OneSample ==
  ASSUME NEW S \in SUBSET Samples, Cardinality(S) = 1, "not encodable" \notin S
  PROVE  S \in {{"usual"}, {"other"}}
<1>1. IsFiniteSet({"usual"}) /\ IsFiniteSet({"other"}) /\ IsFiniteSet({"not encodable"})
  BY FS_Singleton
<1>2. IsFiniteSet(Samples)
  <2>1. IsFiniteSet({"usual"} \cup {"other"})
    BY <1>1, FS_Union
  <2>2. IsFiniteSet(({"usual"} \cup {"other"}) \cup {"not encodable"})
    BY <1>1, <2>1, FS_Union
  <2>3. Samples = ({"usual"} \cup {"other"}) \cup {"not encodable"}
    BY DEF Samples
  <2> QED
    BY <2>2, <2>3
<1>3. IsFiniteSet(S)
  BY <1>2, FS_Subset
<1>4. PICK s : S = {s}
  BY <1>3, FS_Singleton
<1> QED
  BY <1>4 DEF Samples

\* The invariant implies the promise.
LEMMA AttestationInvImplies == AttestationInv => AttestationPromise
<1> SUFFICES ASSUME AttestationInv PROVE AttestationPromise
  OBVIOUS
<1>1. RelayerSpendsAsQuoted
  BY DEF AttestationInv, EvidenceOf, SpentAsQuoted, RelayerSpendsAsQuoted
<1>2. SubmittedAsPrepared
  BY DEF AttestationInv, EvidenceOf, EvidenceKept, OwnTransaction, Accepted, Submitted,
         SubmittedAsPrepared
<1>3. RoundOfTheBlock
  BY DEF AttestationInv, EvidenceOf, RoundKept, RoundOfTheBlock
<1>4. PassedIsTrusted
  BY DEF AttestationInv, EvidenceOf, ProofKept, PassedIsTrusted
<1> QED
  BY <1>1, <1>2, <1>3, <1>4 DEF AttestationPromise

\* Nothing is in hand, sent or proved at first.
LEMMA AttestationInitInv == AttestationInit => AttestationInv
<1> SUFFICES ASSUME AttestationInit PROVE AttestationInv
  OBVIOUS
<1>1. EvidenceTypes
  BY AttestationAssumption DEF AttestationInit, EvidenceTypes, Pins, RunStages
<1>2. ASSUME NEW r \in Proving PROVE EvidenceOf(r)
  BY <1>2, AttestationAssumption
     DEF AttestationInit, EvidenceOf, InOrder, EvidenceKept, SpentAsQuoted, OwnTransaction, RoundKept,
         ProofKept, Accepted, Submitted
<1> QED
  BY <1>1, <1>2 DEF AttestationInv

\* What the world does, without touching a run, keeps the invariant.
LEMMA WorldMoves ==
  ASSUME AttestationInv, EvidenceTypes',
         UNCHANGED <<stage, sampling, evidence, sentTx, votingRound, proof, verdict>>
  PROVE  AttestationInv'
  BY DEF AttestationInv, EvidenceOf, InOrder, EvidenceKept, SpentAsQuoted, OwnTransaction, RoundKept,
         ProofKept

\* A step of one run keeps the invariant when it keeps the types and that run's part.
LEMMA OneRunMoves ==
  ASSUME AttestationInv, NEW r \in Proving, EvidenceTypes', EvidenceOf(r)',
         \A q \in Proving \ {r} :
           /\ stage'[q] = stage[q] /\ sampling'[q] = sampling[q] /\ evidence'[q] = evidence[q]
           /\ sentTx'[q] = sentTx[q] /\ votingRound'[q] = votingRound[q]
           /\ proof'[q] = proof[q] /\ verdict'[q] = verdict[q]
  PROVE  AttestationInv'
<1>1. ASSUME NEW q \in Proving \ {r} PROVE EvidenceOf(q)'
  BY <1>1 DEF AttestationInv, EvidenceOf, InOrder, EvidenceKept, SpentAsQuoted, OwnTransaction,
              RoundKept, ProofKept
<1> QED
  BY <1>1 DEF AttestationInv
\* Every step keeps the invariant.
LEMMA AttestationNextInv == AttestationInv /\ [AttestationNext]_attestationVars => AttestationInv'
<1> SUFFICES ASSUME AttestationInv, [AttestationNext]_attestationVars PROVE AttestationInv'
  OBVIOUS
<1>1. CASE RegistryChanges
  <2>1. EvidenceTypes'
    BY <1>1, AttestationAssumption DEF RegistryChanges, AttestationInv, EvidenceTypes, Pins
  <2> QED
    BY <1>1, <2>1, WorldMoves DEF RegistryChanges
<1>2. CASE RoundPasses
  <2>1. EvidenceTypes'
    BY <1>2 DEF RoundPasses, AttestationInv, EvidenceTypes
  <2> QED
    BY <1>2, <2>1, WorldMoves DEF RoundPasses
<1>3. CASE PolicyConfigured
  <2>1. EvidenceTypes'
    BY <1>3 DEF PolicyConfigured, AttestationInv, EvidenceTypes
  <2> QED
    BY <1>3, <2>1, WorldMoves DEF PolicyConfigured
<1>4. CASE UNCHANGED attestationVars
  <2>1. EvidenceTypes'
    BY <1>4 DEF attestationVars, AttestationInv, EvidenceTypes
  <2> QED
    BY <1>4, <2>1, WorldMoves DEF attestationVars
<1>5. ASSUME NEW r \in Proving,
             \/ Mined(r) \/ PreflightBegins(r) \/ SampleTaken(r) \/ AttemptFails(r) \/ PreflightEnds(r)
             \/ RelayerResolves(r) \/ SignRelayerTransaction(r) \/ BroadcastSigned(r)
             \/ BroadcastUnanswered(r) \/ WalletSendsTx(r) \/ AttachObserved(r) \/ GetReceipt(r) \/ IsRelayFinalized(r)
             \/ FetchProof(r) \/ VerifyDaProof(r) \/ VerifyByConsumer(r) \/ GivesUp(r)
      PROVE  AttestationInv'
  <2>r. EvidenceTypes /\ EvidenceOf(r)
    BY DEF AttestationInv
  <2>1. CASE Mined(r)
    <3>0. sentTx[r] \in Txs /\ registry \in Pins
      BY <2>1, <2>r DEF Mined, EvidenceTypes
    <3>a. sentTx'[r] \in Txs
      BY <2>1, <2>r, <3>0 DEF Mined, EvidenceTypes, Txs, Pins
    <3>1. EvidenceTypes'
      BY <2>1, <2>r, <3>0, <3>a DEF Mined, EvidenceTypes
    <3>2. EvidenceOf(r)'
      BY <2>1, <2>r, <3>0 DEF Mined, Txs, EvidenceTypes, Reaches, EvidenceOf, Accepted, Submitted, RunStages,
            InOrder, EvidenceKept, SpentAsQuoted, OwnTransaction, RoundKept,
            ProofKept
    <3> QED
      BY <2>1, <3>1, <3>2, OneRunMoves DEF Mined, AttestationInv, EvidenceTypes, Reaches
  <2>2. CASE PreflightBegins(r)
    <3>1. EvidenceTypes'
      BY <2>2, AttestationAssumption DEF PreflightBegins, AttestationInv, EvidenceTypes, Reaches, RunStages,
         Samplings, Pins
    <3>2. EvidenceOf(r)'
      BY <2>2, <2>r DEF PreflightBegins, EvidenceTypes, Reaches, EvidenceOf, Accepted, Submitted, RunStages,
            InOrder, EvidenceKept, SpentAsQuoted, OwnTransaction, RoundKept,
            ProofKept, Samplings, Pins
    <3> QED
      BY <2>2, <3>1, <3>2, OneRunMoves DEF PreflightBegins, AttestationInv, EvidenceTypes, Reaches
  <2>3. CASE SampleTaken(r)
    <3>0. PICK s \in Samples : sampling' = [sampling EXCEPT ![r].samples = Append(@, s)]
      BY <2>3 DEF SampleTaken, Samples
    <3>a. sampling[r] \in Samplings
      BY <2>3, <2>r DEF SampleTaken, EvidenceTypes
    <3>c. Append(sampling[r].samples, s) \in Seq(Samples)
      BY <3>a DEF Samplings
    <3>d. sampling'[r] \in Samplings
      BY <2>r, <3>0, <3>a, <3>c DEF EvidenceTypes, Samplings
    <3>b. sampling' \in [Proving -> Samplings \cup {None}]
      BY <2>r, <3>0, <3>d DEF EvidenceTypes
    <3>1. EvidenceTypes'
      BY <2>3, <2>r, <3>b DEF SampleTaken, EvidenceTypes
    <3>2. EvidenceOf(r)'
      BY <2>3, <2>r DEF SampleTaken, EvidenceTypes, Reaches, EvidenceOf, Accepted, Submitted, RunStages,
            InOrder, EvidenceKept, SpentAsQuoted, OwnTransaction, RoundKept,
            ProofKept
    <3> QED
      BY <2>3, <3>1, <3>2, OneRunMoves DEF SampleTaken, AttestationInv, EvidenceTypes, Reaches
  <2>4. CASE AttemptFails(r)
    <3>1. EvidenceTypes'
      BY <2>4, AttestationAssumption DEF AttemptFails, AttestationInv, EvidenceTypes, Reaches, RunStages
    <3>2. EvidenceOf(r)'
      BY <2>4, <2>r DEF AttemptFails, EvidenceTypes, Reaches, EvidenceOf, Accepted, Submitted, RunStages,
            InOrder, EvidenceKept, SpentAsQuoted, OwnTransaction, RoundKept,
            ProofKept
    <3> QED
      BY <2>4, <3>1, <3>2, OneRunMoves DEF AttemptFails, AttestationInv, EvidenceTypes, Reaches
  <2>5. CASE PreflightEnds(r)
    <3>0. sampling[r] \in Samplings /\ stage[r] = "created" /\ sentTx[r] = None
      BY <2>5, <2>r DEF PreflightEnds, EvidenceTypes, EvidenceOf, InOrder
    <3>a. ASSUME Blockers(r) = {} PROVE EvidenceTypes' /\ EvidenceOf(r)'
      <4>1. sampling[r].pin.fee <= FeeCap[r] /\ SampleSet(r) \in {{"usual"}, {"other"}}
        <5>1. SampleSet(r) \in SUBSET Samples
          BY <3>0 DEF SampleSet, Samplings
        <5>2. Cardinality(SampleSet(r)) = 1 /\ "not encodable" \notin SampleSet(r)
          BY <3>a DEF Blockers
        <5>3. sampling[r].pin.fee \in Nat /\ FeeCap[r] \in Nat
          BY <3>0, AttestationAssumption DEF Samplings, Pins
        <5>4. ~(sampling[r].pin.fee > FeeCap[r])
          BY <3>a DEF Blockers
        <5>5. SampleSet(r) \in {{"usual"}, {"other"}}
          BY <5>1, <5>2, OneSample
        <5>6. sampling[r].pin.fee <= FeeCap[r]
          BY <5>3, <5>4
        <5> QED
          BY <5>5, <5>6
      <4> DEFINE e == [pin |-> sampling[r].pin, cap |-> globalCap, stable |-> SampleSet(r) \in {{"usual"}, {"other"}}]
      <4>2. e \in Evidences /\ e.stable /\ e.pin.fee <= FeeCap[r]
        BY <2>r, <3>0, <4>1 DEF EvidenceTypes, Evidences, Samplings
      <4>3. evidence' = [evidence EXCEPT ![r] = e] /\ stage' = [stage EXCEPT ![r] = "accepted"]
        BY <2>5, <3>a DEF PreflightEnds, Reaches
      <4> HIDE DEF e
      <4>4. EvidenceTypes'
        BY <2>5, <2>r, <4>2, <4>3 DEF PreflightEnds, EvidenceTypes, RunStages
      <4>5. EvidenceOf(r)'
        BY <2>5, <2>r, <3>0, <4>2, <4>3 DEF PreflightEnds, EvidenceTypes, Reaches, EvidenceOf, Accepted,
           Submitted, RunStages,
                  InOrder, EvidenceKept, SpentAsQuoted, OwnTransaction, RoundKept,
                  ProofKept
      <4> QED
        BY <4>4, <4>5
    <3>b. ASSUME Blockers(r) # {} PROVE EvidenceTypes' /\ EvidenceOf(r)'
      <4>1. EvidenceTypes'
        BY <2>5, <2>r, <3>b DEF PreflightEnds, EvidenceTypes, Reaches, RunStages
      <4>2. EvidenceOf(r)'
        BY <2>5, <2>r, <3>0, <3>b DEF PreflightEnds, EvidenceTypes, Reaches, EvidenceOf, Accepted, Submitted,
           RunStages,
                  InOrder, EvidenceKept, SpentAsQuoted, OwnTransaction, RoundKept,
                  ProofKept
      <4> QED
        BY <4>1, <4>2
    <3>1. EvidenceTypes'
      BY <3>a, <3>b
    <3>2. EvidenceOf(r)'
      BY <3>a, <3>b
    <3> QED
      BY <2>5, <3>1, <3>2, OneRunMoves DEF PreflightEnds, AttestationInv, EvidenceTypes, Reaches
  <2>6. CASE SignRelayerTransaction(r)
    <3>0. evidence[r] \in Evidences /\ evidence[r].stable /\ evidence[r].pin.fee <= FeeCap[r]
      BY <2>6, <2>r DEF SignRelayerTransaction, EvidenceOf, EvidenceKept, Accepted, RunStages
    <3>c. sampling[r].pin \in Pins
      BY <2>6, <2>r DEF SignRelayerTransaction, EvidenceTypes, Samplings
    <3>d. sampling' = [sampling EXCEPT ![r] = None] /\ HowSubmitted[r] = "relayer"
      BY <2>6, <2>r DEF SignRelayerTransaction, EvidenceOf, InOrder
    <3>a. ASSUME MaySign(r) PROVE EvidenceTypes' /\ EvidenceOf(r)'
      <4> DEFINE tx == [to |-> evidence[r].pin.version, value |-> evidence[r].pin.fee, own |-> TRUE,
                        named |-> sampling[r].pin.version, on |-> FALSE, mined |-> "no", round |-> 0]
      <4>1. tx \in Txs /\ tx.own /\ tx.value = evidence[r].pin.fee
        BY <2>r, <3>0, <3>c DEF EvidenceTypes, Evidences, Pins, Txs
      <4>2. /\ tx.value <= FeeCap[r] /\ tx.value <= evidence[r].cap
            /\ tx.to = tx.named /\ tx.to = evidence[r].pin.version
        BY <3>a DEF MaySign
      <4>3. sentTx' = [sentTx EXCEPT ![r] = tx] /\ stage' = [stage EXCEPT ![r] = "signed"]
        BY <2>6, <3>a DEF SignRelayerTransaction, Reaches
      <4> HIDE DEF tx
      <4>4. EvidenceTypes'
        BY <2>6, <2>r, <3>d, <4>1, <4>3 DEF SignRelayerTransaction, EvidenceTypes, RunStages
      <4>5. EvidenceOf(r)'
        BY <2>6, <2>r, <3>0, <3>d, <4>1, <4>2, <4>3 DEF SignRelayerTransaction, EvidenceTypes, Reaches, EvidenceOf,
           Accepted, Submitted, RunStages,
                  InOrder, EvidenceKept, SpentAsQuoted, OwnTransaction, RoundKept,
                  ProofKept
      <4> QED
        BY <4>4, <4>5
    <3>b. ASSUME ~MaySign(r) PROVE EvidenceTypes' /\ EvidenceOf(r)'
      <4>1. EvidenceTypes'
        BY <2>6, <2>r, <3>b, <3>d DEF SignRelayerTransaction, EvidenceTypes, Reaches, RunStages
      <4>2. EvidenceOf(r)'
        BY <2>6, <2>r, <3>b, <3>d DEF SignRelayerTransaction, EvidenceTypes, Reaches, EvidenceOf, Accepted,
           Submitted, RunStages,
                  InOrder, EvidenceKept, SpentAsQuoted, OwnTransaction, RoundKept,
                  ProofKept
      <4> QED
        BY <4>1, <4>2
    <3>1. EvidenceTypes'
      BY <3>a, <3>b
    <3>2. EvidenceOf(r)'
      BY <3>a, <3>b
    <3> QED
      BY <2>6, <3>1, <3>2, OneRunMoves DEF SignRelayerTransaction, AttestationInv, EvidenceTypes, Reaches
  <2>7. CASE BroadcastSigned(r)
    <3>0. sentTx[r] \in Txs /\ sentTx[r].own /\ sentTx[r].value = evidence[r].pin.fee
      BY <2>7, <2>r DEF BroadcastSigned, EvidenceOf, OwnTransaction, Submitted
    <3>a. /\ sentTx'[r] \in Txs /\ sentTx'[r].own = sentTx[r].own /\ sentTx'[r].value = sentTx[r].value
          /\ sentTx'[r].to = sentTx[r].to /\ sentTx'[r].named = sentTx[r].named
      BY <2>7, <2>r, <3>0 DEF BroadcastSigned, EvidenceTypes, Txs
    <3>1. EvidenceTypes'
      BY <2>7, <2>r, <3>a DEF BroadcastSigned, EvidenceTypes, Reaches, RunStages
    <3>2. EvidenceOf(r)'
      BY <2>7, <2>r, <3>0, <3>a DEF BroadcastSigned, EvidenceTypes, Reaches, EvidenceOf, Accepted, Submitted,
         RunStages,
            InOrder, EvidenceKept, SpentAsQuoted, OwnTransaction, RoundKept,
            ProofKept
    <3> QED
      BY <2>7, <3>1, <3>2, OneRunMoves DEF BroadcastSigned, AttestationInv, EvidenceTypes, Reaches
  <2>8. CASE BroadcastUnanswered(r)
    <3>0. sentTx[r] \in Txs /\ sentTx[r].own /\ sentTx[r].value = evidence[r].pin.fee
      BY <2>8, <2>r DEF BroadcastUnanswered, EvidenceOf, OwnTransaction, Submitted
    <3>a. /\ sentTx'[r] \in Txs /\ sentTx'[r].own = sentTx[r].own /\ sentTx'[r].value = sentTx[r].value
          /\ sentTx'[r].to = sentTx[r].to /\ sentTx'[r].named = sentTx[r].named
      BY <2>8, <2>r, <3>0 DEF BroadcastUnanswered, EvidenceTypes, Txs
    <3>1. EvidenceTypes'
      BY <2>8, <2>r, <3>a DEF BroadcastUnanswered, EvidenceTypes, Reaches, RunStages
    <3>2. EvidenceOf(r)'
      BY <2>8, <2>r, <3>0, <3>a DEF BroadcastUnanswered, EvidenceTypes, Reaches, EvidenceOf, Accepted,
         Submitted, RunStages,
            InOrder, EvidenceKept, SpentAsQuoted, OwnTransaction, RoundKept,
            ProofKept
    <3> QED
      BY <2>8, <3>1, <3>2, OneRunMoves DEF BroadcastUnanswered, AttestationInv, EvidenceTypes, Reaches
  <2>9. CASE WalletSendsTx(r)
    <3>1. EvidenceTypes'
      BY <2>9, AttestationAssumption DEF WalletSendsTx, AttestationInv, EvidenceTypes, Reaches, RunStages, Txs,
         Pins
    <3>2. EvidenceOf(r)'
      BY <2>9, <2>r DEF WalletSendsTx, EvidenceTypes, Reaches, EvidenceOf, Accepted, Submitted, RunStages,
            InOrder, EvidenceKept, SpentAsQuoted, OwnTransaction, RoundKept,
            ProofKept, Txs, Pins
    <3> QED
      BY <2>9, <3>1, <3>2, OneRunMoves DEF WalletSendsTx, AttestationInv, EvidenceTypes, Reaches
  <2>10. CASE AttachObserved(r)
    <3>1. EvidenceTypes'
      BY <2>10, AttestationAssumption DEF AttachObserved, MatchesIntent, AttestationInv, EvidenceTypes,
         Reaches, RunStages
    <3>2. EvidenceOf(r)'
      BY <2>10, <2>r DEF AttachObserved, MatchesIntent, EvidenceTypes, Reaches, EvidenceOf, Accepted,
         Submitted, RunStages,
            InOrder, EvidenceKept, SpentAsQuoted, OwnTransaction, RoundKept,
            ProofKept
    <3> QED
      BY <2>10, <3>1, <3>2, OneRunMoves DEF AttachObserved, AttestationInv, EvidenceTypes, Reaches
  <2>11. CASE GetReceipt(r)
    <3>0. sentTx[r] \in Txs
      BY <2>11, <2>r DEF GetReceipt, EvidenceOf, OwnTransaction, Submitted, RunStages
    <3>a. sentTx[r].round \in Nat
      BY <3>0 DEF Txs
    <3>1. EvidenceTypes'
      BY <2>11, <2>r, <3>a DEF GetReceipt, RoundOf, EvidenceTypes, Reaches, RunStages
    <3>2. EvidenceOf(r)'
      BY <2>11, <2>r, <3>0 DEF GetReceipt, RoundOf, EvidenceTypes, Reaches, EvidenceOf, Accepted, Submitted,
         RunStages,
            InOrder, EvidenceKept, SpentAsQuoted, OwnTransaction, RoundKept,
            ProofKept
    <3> QED
      BY <2>11, <3>1, <3>2, OneRunMoves DEF GetReceipt, AttestationInv, EvidenceTypes, Reaches
  <2>12. CASE IsRelayFinalized(r)
    <3>1. EvidenceTypes'
      BY <2>12, AttestationAssumption DEF IsRelayFinalized, AttestationInv, EvidenceTypes, Reaches, RunStages
    <3>2. EvidenceOf(r)'
      BY <2>12, <2>r DEF IsRelayFinalized, EvidenceTypes, Reaches, EvidenceOf, Accepted, Submitted, RunStages,
            InOrder, EvidenceKept, SpentAsQuoted, OwnTransaction, RoundKept,
            ProofKept
    <3> QED
      BY <2>12, <3>1, <3>2, OneRunMoves DEF IsRelayFinalized, AttestationInv, EvidenceTypes, Reaches
  <2>13. CASE FetchProof(r)
    <3>1. EvidenceTypes'
      BY <2>13, AttestationAssumption DEF FetchProof, AttestationInv, EvidenceTypes, Reaches, RunStages, Proofs
    <3>2. EvidenceOf(r)'
      BY <2>13, <2>r DEF FetchProof, EvidenceTypes, Reaches, EvidenceOf, Accepted, Submitted, RunStages,
            InOrder, EvidenceKept, SpentAsQuoted, OwnTransaction, RoundKept,
            ProofKept, Proofs
    <3> QED
      BY <2>13, <3>1, <3>2, OneRunMoves DEF FetchProof, AttestationInv, EvidenceTypes, Reaches
  <2>14. CASE VerifyDaProof(r)
    <3>1. EvidenceTypes'
      BY <2>14, AttestationAssumption DEF VerifyDaProof, RootAgrees, AttestationInv, EvidenceTypes, Reaches,
         RunStages
    <3>2. EvidenceOf(r)'
      BY <2>14, <2>r DEF VerifyDaProof, RootAgrees, EvidenceTypes, Reaches, EvidenceOf, Accepted, Submitted,
         RunStages,
            InOrder, EvidenceKept, SpentAsQuoted, OwnTransaction, RoundKept,
            ProofKept
    <3> QED
      BY <2>14, <3>1, <3>2, OneRunMoves DEF VerifyDaProof, AttestationInv, EvidenceTypes, Reaches
  <2>15. CASE VerifyByConsumer(r)
    <3>1. EvidenceTypes'
      BY <2>15, AttestationAssumption DEF VerifyByConsumer, Trusted, AttestationInv, EvidenceTypes, Reaches,
         RunStages
    <3>2. EvidenceOf(r)'
      BY <2>15, <2>r DEF VerifyByConsumer, Trusted, EvidenceTypes, Reaches, EvidenceOf, Accepted, Submitted,
         RunStages,
            InOrder, EvidenceKept, SpentAsQuoted, OwnTransaction, RoundKept,
            ProofKept
    <3> QED
      BY <2>15, <3>1, <3>2, OneRunMoves DEF VerifyByConsumer, AttestationInv, EvidenceTypes, Reaches
  <2>16. CASE GivesUp(r)
    <3>1. EvidenceTypes'
      BY <2>16, AttestationAssumption DEF GivesUp, AttestationInv, EvidenceTypes, Reaches, RunStages
    <3>2. EvidenceOf(r)'
      BY <2>16, <2>r DEF GivesUp, EvidenceTypes, Reaches, EvidenceOf, Accepted, Submitted, RunStages,
            InOrder, EvidenceKept, SpentAsQuoted, OwnTransaction, RoundKept,
            ProofKept
    <3> QED
      BY <2>16, <3>1, <3>2, OneRunMoves DEF GivesUp, AttestationInv, EvidenceTypes, Reaches
  <2>17. CASE RelayerResolves(r)
    <3>1. EvidenceTypes'
      BY <2>17, AttestationAssumption DEF RelayerResolves, AttestationInv, EvidenceTypes, Samplings, Pins
    <3>2. EvidenceOf(r)'
      BY <2>17, <2>r DEF RelayerResolves, EvidenceTypes, EvidenceOf, InOrder, EvidenceKept, SpentAsQuoted,
         OwnTransaction, RoundKept, ProofKept
    <3> QED
      BY <2>17, <3>1, <3>2, OneRunMoves DEF RelayerResolves, AttestationInv, EvidenceTypes
  <2> QED
    BY <1>5, <2>1, <2>2, <2>3, <2>4, <2>5, <2>6, <2>7, <2>8, <2>9, <2>10, <2>11, <2>12, <2>13, <2>14, <2>15,
       <2>16, <2>17
<1> QED
  BY <1>1, <1>2, <1>3, <1>4, <1>5 DEF AttestationNext

\* Whatever the registry, the fees, the policy, the chain and the proof service do between
\* its steps: the relayer pays what was quoted, below the caps, to the hub that was named at
\* the preflight and when it was resolved for the signature;
\* a submitted run has its own request; the round is the block's; a verified proof is under
\* the root, and a consumer passes only a proof of a source it trusts.
THEOREM EvidenceBelongsTogether == AttestationSpec => []AttestationPromise
  BY AttestationInitInv, AttestationNextInv, AttestationInvImplies, PTL DEF AttestationSpec

(***************************************************************************)
(* DemoPromise holds of the recording of the demonstration for every       *)
(* number of releases, whatever they generate and compile, for every set   *)
(* of runs that were persisted, and for any number of imports and starts.  *)
(***************************************************************************)

\* Imports are records of these fields, whatever they hold.
Fields(S) == [at : S, expected : S, bytes : S, by : S, reported : S]

\* Imports and the server are records of their fields.
Shaped ==
  /\ \E S : import \in [Imports -> Fields(S)]
  /\ demo = [selected |-> demo.selected, release |-> demo.release, served |-> demo.served,
             starts |-> demo.starts]

\* What r has rebuilt: its own executions, of an attack on the release that is named
\* and of another run.
RebuiltBy(r, rec) ==
  /\ rec.compiled = Sources[r]
  /\ rec.attack.run # rec.control.run
  /\ rec.attack.url = rec.commit

\* Every row was rebuilt by the release it names, and no recording has two.
RowsAreRebuilt ==
  /\ \A entry \in table : RebuiltBy(entry.by, entry.recording)
  /\ \A entry, other \in table : entry.recording = other.recording => entry = other

\* What an import carries from one step to the next: between its verification and its
\* insertion the bytes it rebuilt, after the commit the row it reports.
ImportCarries(i) ==
  /\ import[i].at = "verified" => RebuiltBy(import[i].by, import[i].bytes)
  /\ import[i].at = "committed" => \E entry \in table : entry.recording = import[i].reported
  /\ import[i].at = "imported" => \E entry \in table : entry.recording = import[i].expected

\* The server replayed what it serves with its own release when it started, and the row
\* it loaded stays.
ServedIsReplayed ==
  demo.served # None =>
    /\ \E entry \in table : entry.recording = demo.served
    /\ {demo.served.attack.gen, demo.served.control.gen} = {Codegen[demo.release]}

\* The inductive invariant.
DemoInv ==
  /\ Shaped
  /\ RowsAreRebuilt
  /\ \A i \in Imports : ImportCarries(i)
  /\ ServedIsReplayed

\* What a release rebuilds bit by bit has what its own compiler and virtual machine made
\* of the sources (verifyCanonicalUrlAttackRecording).
LEMMA RebuildsIsRebuilt ==
  ASSUME NEW r, NEW rec, Rebuilds(r, rec)
  PROVE  RebuiltBy(r, rec)
<1>1. rec.compiled = Sources[r]
  BY DEF Rebuilds, Built, Compiled
<1>2. rec.attack.run # rec.control.run
  BY DEF Rebuilds, Builds, Consistent
<1>3. rec.attack.url = rec.commit
  BY DEF Rebuilds, Builds, FitsDemo
<1> QED
  BY <1>1, <1>2, <1>3 DEF RebuiltBy

\* A release that replays a recording generates both of its consumers.
LEMMA ConsistentIsGenerated ==
  ASSUME NEW r, NEW rec, Consistent(r, rec)
  PROVE  {rec.attack.gen, rec.control.gen} = {Codegen[r]}
  BY DEF Consistent, Replays

\* The invariant implies the promise.
LEMMA DemoInvImplies == DemoInv => DemoPromise
<1> SUFFICES ASSUME DemoInv PROVE DemoPromise
  OBVIOUS
<1>1. ServedIsRebuilt
  BY DEF DemoInv, RowsAreRebuilt, RebuiltBy, ServedIsReplayed, ServedIsRebuilt
<1>2. ImportedIsExpected
  BY DEF DemoInv, RowsAreRebuilt, ImportCarries, ImportedIsExpected
<1> QED
  BY <1>1, <1>2 DEF DemoPromise

\* Nothing is imported or served at first.
LEMMA DemoInitInv == DemoInit => DemoInv
<1> SUFFICES ASSUME DemoInit PROVE DemoInv
  OBVIOUS
<1>1. import \in [Imports -> Fields({"idle", None, 0})]
  BY DEF DemoInit, Fields
<1>2. Shaped
  BY <1>1 DEF DemoInit, Shaped
<1>3. \A i \in Imports : ImportCarries(i)
  BY DEF DemoInit, ImportCarries
<1>4. RowsAreRebuilt /\ ServedIsReplayed
  BY DEF DemoInit, RowsAreRebuilt, ServedIsReplayed
<1> QED
  BY <1>2, <1>3, <1>4 DEF DemoInv

\* A step that leaves the table, the imports and what is served alone, as recording,
\* losing the file, selecting or deploying do, keeps the invariant.
LEMMA DemoUndisturbed ==
  ASSUME DemoInv, UNCHANGED <<table, import>>, demo' = [demo EXCEPT !.selected = demo'.selected]
  PROVE  DemoInv'
<1>1. demo'.served = demo.served /\ demo'.release = demo.release
  BY DEF DemoInv, Shaped
<1>2. Shaped'
  BY DEF DemoInv, Shaped
<1>3. ServedIsReplayed'
  BY <1>1 DEF DemoInv, ServedIsReplayed
<1>4. RowsAreRebuilt' /\ \A i \in Imports : ImportCarries(i)'
  BY DEF DemoInv, RowsAreRebuilt, ImportCarries, RebuiltBy
<1> QED
  BY <1>2, <1>3, <1>4 DEF DemoInv

\* A step of one import that only adds rows keeps the invariant when the rows it adds are
\* rebuilt and new, and what the import carries afterwards is right.
LEMMA DemoImportStep ==
  ASSUME DemoInv, NEW i \in Imports, UNCHANGED demo, Shaped',
         table \subseteq table', RowsAreRebuilt',
         \A j \in Imports \ {i} : import'[j] = import[j],
         ImportCarries(i)'
  PROVE  DemoInv'
<1>1. \A j \in Imports : ImportCarries(j)'
  BY DEF DemoInv, ImportCarries
<1>2. ServedIsReplayed'
  BY DEF DemoInv, ServedIsReplayed
<1> QED
  BY <1>1, <1>2 DEF DemoInv

\* Every step keeps the invariant.
LEMMA DemoNextInv == DemoInv /\ [DemoNext]_demoVars => DemoInv'
<1> SUFFICES ASSUME DemoInv, [DemoNext]_demoVars PROVE DemoInv'
  OBVIOUS
<1>0. demo = [demo EXCEPT !.selected = demo.selected]
  BY DEF DemoInv, Shaped
<1>1. CASE Records
  BY <1>0, <1>1, DemoUndisturbed DEF Records
<1>2. CASE FileIsLost
  BY <1>0, <1>2, DemoUndisturbed DEF FileIsLost
<1>3. CASE Deploys
  BY <1>0, <1>3, DemoUndisturbed DEF Deploys
<1>4. CASE Selects
  <2>1. demo'.selected = recorded
    BY <1>4 DEF Selects, DemoInv, Shaped
  <2> QED
    BY <1>4, <2>1, DemoUndisturbed DEF Selects
<1>5. CASE UNCHANGED demoVars
  BY <1>0, <1>5, DemoUndisturbed DEF demoVars
<1>6. CASE DemoStarts
  <2>1. Shaped' /\ demo'.release = deployed
    BY <1>6 DEF DemoStarts, DemoInv, Shaped
  <2>2. demo'.served # None => Loads(deployed, demo'.served)
    BY <1>6 DEF DemoStarts, DemoInv, Shaped
  <2>3. ServedIsReplayed'
    <3> SUFFICES ASSUME demo'.served # None
                 PROVE  /\ \E entry \in table : entry.recording = demo'.served
                        /\ {demo'.served.attack.gen, demo'.served.control.gen} = {Codegen[deployed]}
      BY <1>6, <2>1 DEF DemoStarts, ServedIsReplayed
    <3> QED
      BY <2>2, ConsistentIsGenerated DEF Loads
  <2>4. RowsAreRebuilt' /\ \A i \in Imports : ImportCarries(i)'
    BY <1>6 DEF DemoStarts, DemoInv, RowsAreRebuilt, ImportCarries, RebuiltBy
  <2> QED
    BY <2>1, <2>3, <2>4 DEF DemoInv
<1>7. ASSUME NEW i \in Imports, ImportStep(i) PROVE DemoInv'
  <2>0. PICK S : /\ import \in [Imports -> Fields(S)]
                 /\ {recorded, deployed, import[i].bytes} \subseteq S
                 /\ {"inspected", "verified", "committed", "imported", "failed"} \subseteq S
    <3>1. PICK S0 : import \in [Imports -> Fields(S0)]
      BY DEF DemoInv, Shaped
    <3>2. PICK S : S0 \subseteq S /\ {recorded, deployed, import[i].bytes} \subseteq S
                   /\ {"inspected", "verified", "committed", "imported", "failed"} \subseteq S
      <4> WITNESS S0 \cup {recorded, deployed, import[i].bytes}
                     \cup {"inspected", "verified", "committed", "imported", "failed"}
      <4> QED
        OBVIOUS
    <3> QED
      BY <3>1, <3>2 DEF Fields
  <2>1. CASE LooksAtFile(i)
    <3>1. /\ import' \in [Imports -> Fields(S)] /\ \A j \in Imports \ {i} : import'[j] = import[j]
          /\ import'[i].at = "inspected"
      BY <2>0, <2>1 DEF LooksAtFile, Fields
    <3>2. Shaped' /\ RowsAreRebuilt' /\ UNCHANGED <<table, demo>> /\ ImportCarries(i)'
      BY <2>1, <3>1 DEF LooksAtFile, DemoInv, Shaped, RowsAreRebuilt, RebuiltBy, ImportCarries
    <3> QED
      BY <3>1, <3>2, DemoImportStep
  <2>2. CASE ReadsFile(i)
    <3>1. /\ import' \in [Imports -> Fields(S)] /\ \A j \in Imports \ {i} : import'[j] = import[j]
          /\ import'[i].at = "verified" /\ import'[i].bytes = recorded /\ import'[i].by = deployed
      BY <2>0, <2>2 DEF ReadsFile, Fields
    <3>2. RebuiltBy(deployed, recorded)
      BY <2>2, RebuildsIsRebuilt DEF ReadsFile
    <3>3. ImportCarries(i)'
      BY <3>1, <3>2 DEF ImportCarries, RebuiltBy
    <3>4. Shaped' /\ RowsAreRebuilt' /\ UNCHANGED <<table, demo>>
      BY <2>2, <3>1 DEF ReadsFile, DemoInv, Shaped, RowsAreRebuilt, RebuiltBy
    <3> QED
      BY <3>1, <3>3, <3>4, DemoImportStep
  <2>3. CASE Inserts(i)
    <3>1. /\ import' \in [Imports -> Fields(S)] /\ \A j \in Imports \ {i} : import'[j] = import[j]
          /\ import'[i].at = "committed" /\ import'[i].reported = import[i].bytes
      BY <2>0, <2>3 DEF Inserts, Fields
    <3>2. RebuiltBy(import[i].by, import[i].bytes)
      BY <2>3 DEF Inserts, DemoInv, ImportCarries
    <3>3. /\ table \subseteq table' /\ RowsAreRebuilt'
          /\ \E entry \in table' : entry.recording = import[i].bytes
      <4> DEFINE new == [recording |-> import[i].bytes, by |-> import[i].by]
      <4>1. CASE \E entry \in table : entry.recording = import[i].bytes
        BY <2>3, <4>1 DEF Inserts, DemoInv, RowsAreRebuilt, RebuiltBy
      <4>2. CASE ~\E entry \in table : entry.recording = import[i].bytes
        <5>1. table' = table \cup {new} /\ new.recording = import[i].bytes /\ new.by = import[i].by
          BY <2>3, <4>2 DEF Inserts
        <5>2. RowsAreRebuilt'
          BY <5>1, <4>2, <3>2 DEF DemoInv, RowsAreRebuilt, RebuiltBy
        <5> QED
          BY <5>1, <5>2
      <4> QED
        BY <4>1, <4>2
    <3>4. ImportCarries(i)'
      BY <3>1, <3>3 DEF ImportCarries
    <3>5. Shaped' /\ UNCHANGED demo
      BY <2>3, <3>1 DEF Inserts, DemoInv, Shaped
    <3> QED
      BY <3>1, <3>3, <3>4, <3>5, DemoImportStep
  <2>4. CASE ImportEnds(i)
    <3>1. /\ import' \in [Imports -> Fields(S)] /\ \A j \in Imports \ {i} : import'[j] = import[j]
          /\ import'[i].at = IF ReportsExpected(i) THEN "imported" ELSE "failed"
          /\ import'[i].expected = import[i].expected
      BY <2>0, <2>4 DEF ImportEnds, Fields
    <3>2. \E entry \in table : entry.recording = import[i].reported
      BY <2>4 DEF ImportEnds, DemoInv, ImportCarries
    <3>3. ImportCarries(i)'
      BY <2>4, <3>1, <3>2 DEF ImportEnds, ImportCarries, ReportsExpected
    <3>4. Shaped' /\ RowsAreRebuilt' /\ UNCHANGED <<table, demo>>
      BY <2>4, <3>1 DEF ImportEnds, DemoInv, Shaped, RowsAreRebuilt, RebuiltBy
    <3> QED
      BY <3>1, <3>3, <3>4, DemoImportStep
  <2>5. CASE ImportFails(i)
    <3>1. /\ import' \in [Imports -> Fields(S)] /\ \A j \in Imports \ {i} : import'[j] = import[j]
          /\ import'[i].at = "failed"
      BY <2>0, <2>5 DEF ImportFails, Fields
    <3>2. Shaped' /\ RowsAreRebuilt' /\ UNCHANGED <<table, demo>> /\ ImportCarries(i)'
      BY <2>5, <3>1 DEF ImportFails, DemoInv, Shaped, RowsAreRebuilt, RebuiltBy, ImportCarries
    <3> QED
      BY <3>1, <3>2, DemoImportStep
  <2> QED
    BY <1>7, <2>1, <2>2, <2>3, <2>4, <2>5 DEF ImportStep
<1> QED
  BY <1>1, <1>2, <1>3, <1>4, <1>5, <1>6, <1>7 DEF DemoNext

\* Whatever changes at the path, however many imports race or die and whichever releases
\* follow one another: what is served was rebuilt by the release that imported it and
\* replayed by the one that serves it, and an import that says so has imported what it
\* was asked for.
THEOREM DemoIsAsMeant == DemoSpec => []DemoPromise
  BY DemoInitInv, DemoNextInv, DemoInvImplies, PTL DEF DemoSpec

(***************************************************************************)
(* HttpPromise holds of any number of exchanges, tokens, runs and links:   *)
(* bodies are bounded, what is told of a run belongs to the authority that *)
(* asked, a link that was handed out is stored, and evidence that is shown *)
(* is what was stored.                                                     *)
(***************************************************************************)

\* What a token stands for, and what an exchange is told.
Authorities ==
  [kind : {HolderOf[t].kind : t \in Holders} \cup {"share"},
   project : {HolderOf[t].project : t \in Holders}, run : RunsKept \cup {None}]

Tellings ==
  [told : {"nothing", "session"}]
  \cup [told : {"data"}, run : RunsKept, link : Links \cup {None},
        was : {"none", "unsafe", "safe", "damaged"},
        of : {"run", "none", "unsafe", "safe", "damaged", "invalid"}]
  \cup [told : {"data"}, seen : Nat \cup {None}, served : Nat \cup {None}]

Exchanged ==
  [at : {"reading", "routed", "admitted", "intended", "repeated", "answered"},
   ask : Asks, size : Nat, age : Nat, late : BOOLEAN, auth : Authorities \cup {None},
   got : Tellings]

\* The types the steps of a proof need.
SurfaceTypes ==
  /\ exchange \in [Exchanges -> Exchanged \cup {None}]
  /\ intents \subseteq Links /\ shares \subseteq Links
  /\ records \in [RunsKept -> {"none", "unsafe", "safe", "damaged"}]
  /\ serving \in Nat \cup {None} /\ cached \in Nat \cup {None}

\* The intent of an exchange that is admitted.
IntentOf(e) == [project |-> e.auth.project, keyed |-> e.ask.keyed, run |-> e.ask.run]

Public == {"login", "template"}

\* A wallet request stays within its limit and its deadline.
BoundedBody(e) ==
  e.ask.route = "login" => e.size <= BodyLimit /\ (e.at # "reading" => e.age < Deadline)

\* Whose request it is.
Belongs(e) ==
  /\ e.ask.from = "other page" => e.ask.route \in Public
  /\ e.late => e.ask.who \in gone
  /\ e.auth # None => ~e.late /\ e.ask.route \notin Public
  /\ e.at \in {"admitted", "intended", "repeated"} =>
       e.auth # None /\ Admitted(e.auth, e.ask)
  /\ e.at \in {"intended", "repeated"} =>
       /\ e.ask.route = "share" /\ e.ask.run # None
       /\ OwnerOf[e.ask.run] = e.auth.project
       /\ IntentOf(e) \in intents

\* An answer about a run is about one of its project, or that of its link, and a link
\* that was handed out is the intent's, which is stored.
ToldOfRun(e) ==
  /\ OwnerOf[e.got.run] = e.auth.project
  /\ e.auth.kind = "share" => e.got.link = None /\ e.got.run = e.auth.run
  /\ e.got.link # None => e.got.link = IntentOf(e) /\ e.got.link \in intents \cap shares
  /\ e.got.of = "safe" => e.got.was = "safe"

Told(e) ==
  /\ e.got.told # "nothing" => e.at = "answered"
  /\ e.got.told = "session" => e.ask.route = "login" /\ e.ask.from = "own page"
  /\ e.got.told = "data" =>
       IF e.ask.route = "template" THEN e.got.seen = e.got.served ELSE ToldOfRun(e)

Sound(e) == BoundedBody(e) /\ Belongs(e) /\ Told(e)

\* A key of a project has one intent.
OneIntentPerKey ==
  \A i, j \in intents : i.project = j.project /\ i.keyed = j.keyed => i = j

HttpInv ==
  /\ SurfaceTypes /\ OneIntentPerKey
  /\ \A x \in Exchanges : exchange[x] # None => Sound(exchange[x])

\* The invariant gives what is promised: links of one key are the one intent.
LEMMA HttpInvImplies ==
  ASSUME HttpInv
  PROVE  HttpPromise
<1> USE DEF HttpInv, SurfaceTypes
<1>1. ASSUME NEW x \in Exchanges, exchange[x] # None
      PROVE  exchange[x] \in Exchanged /\ Sound(exchange[x])
  BY <1>1
<1>2. BodiesAreBounded
  <2> SUFFICES ASSUME NEW x \in Exchanges, exchange[x] # None, exchange[x].ask.route = "login"
               PROVE  /\ exchange[x].size <= BodyLimit
                      /\ exchange[x].got.told = "session" =>
                           exchange[x].age < Deadline /\ exchange[x].ask.from = "own page"
    BY DEF BodiesAreBounded, IsPublicAuthPost
  <2> QED
    BY <1>1 DEF Sound, BoundedBody, Told
<1>3. ASSUME NEW x \in OfRuns
      PROVE  /\ x \in Exchanges /\ exchange[x] # None
             /\ exchange[x].at = "answered" /\ exchange[x].got.told = "data"
             /\ ToldOfRun(exchange[x])
  BY <1>1, <1>3 DEF OfRuns, Answered, At, Sound, Told
<1>4. AnswersBelong
  <2>1. ASSUME NEW x \in Exchanges, exchange[x] # None, exchange[x].auth # None
        PROVE  ~exchange[x].late /\ exchange[x].ask.from # "other page"
    BY <1>1, <2>1 DEF Sound, Belongs
  <2>2. ASSUME NEW x \in OfRuns
        PROVE  /\ OwnerOf[exchange[x].got.run] = exchange[x].auth.project
               /\ exchange[x].auth.kind = "share" =>
                    exchange[x].got.link = None /\ exchange[x].got.run = exchange[x].auth.run
    BY <1>3, <2>2 DEF ToldOfRun
  <2> QED
    BY <2>1, <2>2 DEF AnswersBelong
<1>5. LinksWork
  <2>1. ASSUME NEW x \in Linked
        PROVE  /\ exchange[x].got.link = IntentOf(exchange[x])
               /\ exchange[x].got.link \in intents /\ exchange[x].got.link \in shares
    <3>1. x \in OfRuns /\ exchange[x].got.link # None
      BY <2>1 DEF Linked
    <3> QED
      BY <3>1, <1>3 DEF ToldOfRun
  <2>2. ASSUME NEW x \in Linked, NEW y \in Linked,
               exchange[y].auth.project = exchange[x].auth.project,
               exchange[y].ask.keyed = exchange[x].ask.keyed
        PROVE  exchange[y].got.link = exchange[x].got.link
    <3>1. /\ IntentOf(exchange[x]).project = exchange[x].auth.project
          /\ IntentOf(exchange[x]).keyed = exchange[x].ask.keyed
          /\ IntentOf(exchange[y]).project = exchange[y].auth.project
          /\ IntentOf(exchange[y]).keyed = exchange[y].ask.keyed
      BY DEF IntentOf
    <3> QED
      BY <2>1, <2>2, <3>1 DEF OneIntentPerKey
  <2> QED
    BY <2>1, <2>2 DEF LinksWork
<1>6. ShownIsStored
  <2>1. ASSUME NEW x \in Answered, x \in OfRuns
        PROVE  exchange[x].got.of = "safe" => exchange[x].got.was = "safe"
    BY <1>3, <2>1 DEF ToldOfRun
  <2>2. ASSUME NEW x \in Answered, x \notin OfRuns
        PROVE  exchange[x].got.seen = exchange[x].got.served
    BY <1>1, <2>2 DEF Answered, At, OfRuns, Sound, Told
  <2> QED
    BY <2>1, <2>2 DEF ShownIsStored
<1> QED
  BY <1>2, <1>4, <1>5, <1>6 DEF HttpPromise

LEMMA HttpInitInv ==
  ASSUME HttpInit
  PROVE  HttpInv
<1>1. SurfaceTypes
  BY DEF HttpInit, SurfaceTypes
<1>2. OneIntentPerKey
  <2>1. PICK written \in {{}} \cup {{l} : l \in Links} : intents = written
    BY DEF HttpInit
  <2> QED
    BY <2>1 DEF OneIntentPerKey
<1> QED
  BY <1>1, <1>2 DEF HttpInit, HttpInv

\* What holds of an exchange stays so while tokens go and intents and links are added.
LEMMA SoundStays ==
  ASSUME NEW e, Sound(e),
         gone \subseteq gone', intents \subseteq intents', shares \subseteq shares'
  PROVE  Sound(e)'
<1>1. BoundedBody(e)' <=> BoundedBody(e)
  BY DEF BoundedBody
<1>2. Belongs(e)'
  <2>1. Admitted(e.auth, e.ask)' <=> Admitted(e.auth, e.ask)
    BY DEF Admitted, WithinShare
  <2> QED
    BY <2>1 DEF Sound, Belongs, IntentOf
<1>3. Told(e)'
  BY DEF Sound, Told, ToldOfRun, IntentOf
<1> QED
  BY <1>1, <1>2, <1>3 DEF Sound

\* A step of one exchange: it ends, or goes on as e, and the others keep what they have.
LEMMA OneMoves ==
  ASSUME HttpInv, SurfaceTypes', OneIntentPerKey',
         NEW x \in Exchanges, NEW e,
         exchange' = [exchange EXCEPT ![x] = e],
         e = None \/ Sound(e)',
         gone \subseteq gone', intents \subseteq intents', shares \subseteq shares'
  PROVE  HttpInv'
<1> USE DEF Sound, BoundedBody, Belongs, Told, ToldOfRun, IntentOf, Admitted, WithinShare
<1>1. ASSUME NEW y \in Exchanges
      PROVE  (exchange[y] # None => Sound(exchange[y]))'
  <2>1. CASE y = x
    <3>1. exchange'[y] = e
      BY <2>1 DEF HttpInv, SurfaceTypes
    <3> QED
      BY <3>1
  <2>2. CASE y # x
    <3>1. exchange'[y] = exchange[y]
      BY <2>2 DEF HttpInv, SurfaceTypes
    <3>2. PICK f : f = exchange[y]
      OBVIOUS
    <3>3. f # None => Sound(f)
      BY <3>2 DEF HttpInv
    <3>4. f # None => Sound(f)'
      BY <3>3, SoundStays
    <3> HIDE DEF Sound
    <3> QED
      BY <3>1, <3>2, <3>4
  <2> QED
    BY <2>1, <2>2
<1> QED
  BY <1>1 DEF HttpInv

\* Nothing happens to an exchange but that it may be lost.
LEMMA NoneMoves ==
  ASSUME HttpInv, SurfaceTypes', OneIntentPerKey',
         \A y \in Exchanges : exchange'[y] \in {exchange[y], None},
         gone \subseteq gone', intents \subseteq intents', shares \subseteq shares'
  PROVE  HttpInv'
<1> USE DEF Sound, BoundedBody, Belongs, Told, ToldOfRun, IntentOf, Admitted, WithinShare
<1>1. ASSUME NEW y \in Exchanges
      PROVE  (exchange[y] # None => Sound(exchange[y]))'
  <2>1. PICK f : f = exchange[y]
    OBVIOUS
  <2>2. f # None => Sound(f)
    BY <2>1 DEF HttpInv
  <2>3. f # None => Sound(f)'
    BY <2>2, SoundStays
  <2>4. CASE exchange'[y] = None
    BY <2>4
  <2>5. CASE exchange'[y] = f
    BY <2>3, <2>5
  <2> QED
    BY <2>1, <2>4, <2>5
<1> QED
  BY <1>1 DEF HttpInv

\* An exchange that was held, and what it is when only its step changes.
LEMMA GoesThrough ==
  ASSUME NEW f \in Exchanged,
         NEW s \in {"reading", "routed", "admitted", "intended", "repeated", "answered"},
         NEW e, e = [f EXCEPT !.at = s]
  PROVE  /\ e \in Exchanged /\ e.at = s
         /\ e.ask = f.ask /\ e.size = f.size /\ e.age = f.age /\ e.late = f.late
         /\ e.auth = f.auth /\ e.got = f.got
  BY DEF Exchanged

\* A step that ends an exchange and changes nothing else of what is kept.
LEMMA OverStep ==
  ASSUME HttpInv, NEW x \in Exchanges, Over(x),
         UNCHANGED <<serving, gone, intents, shares, records, cached>>
  PROVE  HttpInv'
<1>1. \A y \in Exchanges : exchange'[y] \in {exchange[y], None}
  BY DEF HttpInv, SurfaceTypes, Over
<1>2. SurfaceTypes'
  BY DEF HttpInv, SurfaceTypes, Over
<1>3. OneIntentPerKey'
  BY DEF HttpInv, OneIntentPerKey
<1> QED
  BY <1>1, <1>2, <1>3, NoneMoves

LEMMA ProcessEndsStep ==
  ASSUME HttpInv, ProcessEnds
  PROVE  HttpInv'
<1>1. \A y \in Exchanges : exchange'[y] \in {exchange[y], None}
  BY DEF HttpInv, SurfaceTypes, ProcessEnds
<1>2. SurfaceTypes'
  BY DEF HttpInv, SurfaceTypes, ProcessEnds
<1>3. OneIntentPerKey'
  BY DEF HttpInv, OneIntentPerKey, ProcessEnds
<1> QED
  BY <1>1, <1>2, <1>3, NoneMoves DEF ProcessEnds

\* A step of one exchange that leaves intents and links as they are.
LEMMA OneGoesOn ==
  ASSUME HttpInv, NEW x \in Exchanges, NEW e \in Exchanged, Sound(e),
         exchange' = [exchange EXCEPT ![x] = e],
         cached' \in Nat \cup {None},
         UNCHANGED <<serving, gone, intents, shares, records>>
  PROVE  HttpInv'
<1>1. SurfaceTypes'
  BY DEF HttpInv, SurfaceTypes
<1>2. OneIntentPerKey'
  BY DEF HttpInv, OneIntentPerKey
<1>3. Sound(e)'
  BY SoundStays
<1> QED
  BY <1>1, <1>2, <1>3, OneMoves

LEMMA ArriveStep ==
  ASSUME HttpInv, NEW x \in Exchanges, Arrive(x)
  PROVE  HttpInv'
<1>1. PICK ask \in AsksOf[x], declared \in {0, BodyLimit + 1} :
        /\ IsSent(ask)
        /\ exchange' = [exchange EXCEPT
             ![x] = [at |-> "reading", ask |-> ask, size |-> 0, age |-> 0,
                     late |-> ask.who \in gone, auth |-> None, got |-> [told |-> "nothing"]]]
  BY DEF Arrive
<1>2. ask \in Asks
  BY HttpAssumption
<1>3. PICK e : e = [at |-> "reading", ask |-> ask, size |-> 0, age |-> 0,
                    late |-> ask.who \in gone, auth |-> None, got |-> [told |-> "nothing"]]
  OBVIOUS
<1>4. [told |-> "nothing"] \in Tellings
  BY DEF Tellings
<1>5. e \in Exchanged
  BY <1>2, <1>3, <1>4 DEF Exchanged
<1>6. /\ e.at = "reading" /\ e.ask = ask /\ e.size = 0 /\ e.auth = None
      /\ e.got.told = "nothing"
  BY <1>3
<1>7. e.late => ask.who \in gone
  BY <1>3
<1>8. BoundedBody(e)
  BY <1>6, HttpAssumption DEF BoundedBody
<1>9. Belongs(e)
  BY <1>1, <1>6, <1>7 DEF Belongs, IsSent, Public
<1>10. Told(e)
  BY <1>6 DEF Told
<1> QED
  BY <1>1, <1>3, <1>5, <1>8, <1>9, <1>10, OneGoesOn DEF Arrive, HttpInv, SurfaceTypes, Sound

LEMMA Held ==
  ASSUME HttpInv, NEW x \in Exchanges, NEW s, At(x, s)
  PROVE  exchange[x] \in Exchanged /\ Sound(exchange[x]) /\ exchange[x].at = s
  BY DEF HttpInv, SurfaceTypes, At

LEMMA ReadChunkStep ==
  ASSUME HttpInv, NEW x \in Exchanges, ReadChunk(x)
  PROVE  HttpInv'
<1>1. CASE exchange[x].age = Deadline \/ ~WithinLimit(x)
  BY <1>1, OverStep DEF ReadChunk
<1>2. CASE ~(exchange[x].age = Deadline \/ ~WithinLimit(x))
  <2>1. PICK f \in Exchanged : f = exchange[x] /\ Sound(f) /\ f.at = "reading"
    BY Held DEF ReadChunk
  <2>2. PICK n \in Nat : n = f.size + 1 /\ n <= BodyLimit
    BY <1>2, <2>1, HttpAssumption DEF WithinLimit, Exchanged
  <2>3. PICK e : e = [f EXCEPT !.size = n]
    OBVIOUS
  <2>4. /\ e \in Exchanged /\ e.at = "reading" /\ e.size = n
        /\ e.ask = f.ask /\ e.age = f.age /\ e.late = f.late /\ e.auth = f.auth /\ e.got = f.got
    BY <2>1, <2>3 DEF Exchanged
  <2>5. exchange' = [exchange EXCEPT ![x] = e]
    BY <1>2, <2>1, <2>2, <2>3 DEF ReadChunk
  <2>6. Sound(e)
    BY <2>1, <2>2, <2>4 DEF Sound, BoundedBody, Belongs, Told, ToldOfRun, IntentOf
  <2> QED
    BY <2>4, <2>5, <2>6, OneGoesOn DEF ReadChunk, HttpInv, SurfaceTypes
<1> QED
  BY <1>1, <1>2

LEMMA TimePassesStep ==
  ASSUME HttpInv, TimePasses
  PROVE  HttpInv'
<1> USE DEF Sound, BoundedBody, Belongs, Told, ToldOfRun, IntentOf, Admitted, WithinShare
<1>1. ASSUME NEW y \in Exchanges
      PROVE  /\ exchange'[y] \in Exchanged \cup {None}
             /\ (exchange[y] # None => Sound(exchange[y]))'
  <2>1. PICK f : f = exchange[y]
    OBVIOUS
  <2>2. CASE At(y, "reading") /\ IsPublicAuthPost(f.ask) /\ f.age < Deadline
    <3>1. f \in Exchanged /\ Sound(f) /\ f.at = "reading"
      BY <2>1, <2>2, Held
    <3>a. f.age \in Nat
      BY <3>1 DEF Exchanged
    <3>2. PICK n \in Nat : n = f.age + 1
      BY <3>a
    <3>3. PICK e : e = [f EXCEPT !.age = n]
      OBVIOUS
    <3>4. /\ e \in Exchanged /\ e.at = "reading" /\ e.size = f.size
          /\ e.ask = f.ask /\ e.late = f.late /\ e.auth = f.auth /\ e.got = f.got
      BY <3>1, <3>3 DEF Exchanged
    <3>5. exchange'[y] = e
      BY <2>1, <2>2, <3>2, <3>3 DEF TimePasses
    <3>6. Sound(e)
      BY <3>1, <3>4
    <3>7. Sound(e)'
      BY <3>6, SoundStays DEF TimePasses
    <3> QED
      BY <3>4, <3>5, <3>7
  <2>3. CASE ~(At(y, "reading") /\ IsPublicAuthPost(f.ask) /\ f.age < Deadline)
    <3>1. exchange'[y] = f
      BY <2>1, <2>3 DEF TimePasses
    <3>2. f \in Exchanged \cup {None} /\ (f # None => Sound(f))
      BY <2>1 DEF HttpInv, SurfaceTypes
    <3>3. f # None => Sound(f)'
      BY <3>2, SoundStays DEF TimePasses
    <3> QED
      BY <3>1, <3>2, <3>3
  <2> QED
    BY <2>2, <2>3
<1>2. SurfaceTypes'
  BY <1>1 DEF HttpInv, SurfaceTypes, TimePasses
<1>3. OneIntentPerKey'
  BY DEF HttpInv, OneIntentPerKey, TimePasses
<1> QED
  BY <1>1, <1>2, <1>3 DEF HttpInv

LEMMA BodyEndsStep ==
  ASSUME HttpInv, NEW x \in Exchanges, BodyEnds(x)
  PROVE  HttpInv'
<1>1. CASE ~MayEnd(x)
  BY <1>1, OverStep DEF BodyEnds
<1>2. CASE MayEnd(x)
  <2>1. PICK f \in Exchanged : f = exchange[x] /\ Sound(f) /\ f.at = "reading"
    BY Held DEF BodyEnds
  <2>2. PICK e : e = [f EXCEPT !.at = "routed"]
    OBVIOUS
  <2>3. /\ e \in Exchanged /\ e.at = "routed"
        /\ e.ask = f.ask /\ e.size = f.size /\ e.age = f.age /\ e.late = f.late
        /\ e.auth = f.auth /\ e.got = f.got
    BY <2>2, GoesThrough
  <2>4. Sound(e)
    BY <1>2, <2>1, <2>3 DEF Sound, BoundedBody, Belongs, Told, ToldOfRun, IntentOf, MayEnd, IsPublicAuthPost
  <2>5. exchange' = [exchange EXCEPT ![x] = e]
    BY <1>2, <2>1, <2>2 DEF BodyEnds, Advance
  <2> QED
    BY <2>3, <2>4, <2>5, OneGoesOn DEF BodyEnds, HttpInv, SurfaceTypes
<1> QED
  BY <1>1, <1>2

LEMMA BodyAbortsStep ==
  ASSUME HttpInv, NEW x \in Exchanges, BodyAborts(x)
  PROVE  HttpInv'
  BY OverStep, ProcessEndsStep DEF BodyAborts

\* A request that waits for its route was not told anything and has no authority.
LEMMA ServeLoginStep ==
  ASSUME HttpInv, NEW x \in Exchanges, ServeLogin(x)
  PROVE  HttpInv'
<1>1. CASE Over(x)
  BY <1>1, OverStep DEF ServeLogin
<1>2. CASE Answer(x, [told |-> "session"])
  <2>1. PICK f \in Exchanged : f = exchange[x] /\ Sound(f) /\ f.at = "routed"
    BY Held DEF ServeLogin
  <2>2. PICK got \in Tellings : got = [told |-> "session"]
    BY DEF Tellings
  <2>3. PICK e : e = [[f EXCEPT !.at = "answered"] EXCEPT !.got = got]
    OBVIOUS
  <2>4. /\ e \in Exchanged /\ e.at = "answered" /\ e.got = got
        /\ e.ask = f.ask /\ e.size = f.size /\ e.age = f.age /\ e.late = f.late
        /\ e.auth = f.auth
    BY <2>3 DEF Exchanged
  <2>5. got.told = "session" /\ f.ask.route = "login" /\ f.ask.from = "own page"
    BY <2>1, <2>2 DEF ServeLogin
  <2>6. Sound(e)
    BY <2>1, <2>4, <2>5 DEF Sound, BoundedBody, Belongs, Told
  <2>7. exchange' = [exchange EXCEPT ![x] = e]
    BY <1>2, <2>1, <2>2, <2>3 DEF Answer
  <2> QED
    BY <2>4, <2>6, <2>7, OneGoesOn DEF ServeLogin, HttpInv, SurfaceTypes
<1> QED
  BY <1>1, <1>2 DEF ServeLogin

LEMMA ServeTemplateStep ==
  ASSUME HttpInv, NEW x \in Exchanges, ServeTemplate(x)
  PROVE  HttpInv'
<1>1. PICK f \in Exchanged : f = exchange[x] /\ Sound(f) /\ f.at = "routed"
  BY Held DEF ServeTemplate
<1>2. PICK seen \in Nat \cup {None} : seen = cached' /\ seen = serving
  BY DEF ServeTemplate, NotModified, HttpInv, SurfaceTypes
<1>3. PICK got : got = [told |-> "data", seen |-> seen, served |-> serving]
  OBVIOUS
<1>4. got \in Tellings /\ got.told = "data" /\ got.seen = got.served
  BY <1>2, <1>3 DEF Tellings
<1>5. PICK e : e = [[f EXCEPT !.at = "answered"] EXCEPT !.got = got]
  OBVIOUS
<1>6. /\ e \in Exchanged /\ e.at = "answered" /\ e.got = got
      /\ e.ask = f.ask /\ e.size = f.size /\ e.age = f.age /\ e.late = f.late
      /\ e.auth = f.auth
  BY <1>4, <1>5 DEF Exchanged
<1>7. f.ask.route = "template"
  BY <1>1 DEF ServeTemplate
<1>8. Sound(e)
  BY <1>1, <1>4, <1>6, <1>7 DEF Sound, BoundedBody, Belongs, Told
<1>9. exchange' = [exchange EXCEPT ![x] = e]
  BY <1>1, <1>2, <1>3, <1>5 DEF Answer, ServeTemplate
<1> QED
  BY <1>2, <1>6, <1>8, <1>9, OneGoesOn DEF ServeTemplate

\* Who is authenticated has not been gone since before the request.
LEMMA AuthorityIs ==
  ASSUME HttpInv, NEW who \in Holders \cup Links \cup {None}, Authority(who) # None
  PROVE  Authority(who) \in Authorities /\ who \notin gone
<1>1. \/ /\ who \in Holders \ gone
         /\ Authority(who) = [kind |-> HolderOf[who].kind, project |-> HolderOf[who].project, run |-> None]
      \/ /\ who \in shares \ gone
         /\ Authority(who) = [kind |-> "share", project |-> who.project, run |-> who.run]
  BY DEF Authority
<1>2. who \in shares => who.project \in {HolderOf[t].project : t \in Holders} /\ who.run \in RunsKept
  BY DEF HttpInv, SurfaceTypes, Links
<1> QED
  BY <1>1, <1>2 DEF Authorities

LEMMA AuthenticateStep ==
  ASSUME HttpInv, NEW x \in Exchanges, Authenticate(x)
  PROVE  HttpInv'
<1>1. PICK f \in Exchanged : f = exchange[x] /\ Sound(f) /\ f.at = "routed"
  BY Held DEF Authenticate
<1>2. PICK auth : auth = Authority(f.ask.who)
  OBVIOUS
<1>3. CASE ~(auth # None /\ Admitted(auth, f.ask))
  <2>1. Over(x)
    BY <1>1, <1>2, <1>3 DEF Authenticate
  <2> QED
    BY <2>1, OverStep DEF Authenticate
<1>4. CASE auth # None /\ Admitted(auth, f.ask)
  <2>1. f.ask \in Asks
    BY DEF Exchanged
  <2>2. f.ask.who \in Holders \cup Links \cup {None}
    BY <2>1 DEF Asks
  <2>3. auth \in Authorities /\ f.ask.who \notin gone
    BY <1>2, <1>4, <2>2, AuthorityIs
  <2>4. PICK e : e = [[f EXCEPT !.at = "admitted"] EXCEPT !.auth = auth]
    OBVIOUS
  <2>5. /\ e \in Exchanged /\ e.at = "admitted" /\ e.auth = auth
        /\ e.ask = f.ask /\ e.size = f.size /\ e.age = f.age /\ e.late = f.late
        /\ e.got = f.got
    BY <2>3, <2>4 DEF Exchanged
  <2>6. f.ask.route \notin Public
    BY <1>1 DEF Authenticate, Public
  <2>7. Belongs(e)
    BY <1>1, <1>4, <2>3, <2>5, <2>6 DEF Sound, Belongs
  <2>8. BoundedBody(e) /\ Told(e)
    BY <1>1, <2>5 DEF Sound, BoundedBody, Told
  <2>9. exchange' = [exchange EXCEPT ![x] = e]
    BY <1>1, <1>2, <1>4, <2>4 DEF Authenticate
  <2> QED
    BY <2>5, <2>7, <2>8, <2>9, OneGoesOn DEF Authenticate, Sound, HttpInv, SurfaceTypes
<1> QED
  BY <1>3, <1>4

LEMMA ServeReadStep ==
  ASSUME HttpInv, NEW x \in Exchanges, ServeRead(x)
  PROVE  HttpInv'
<1>1. PICK f \in Exchanged : f = exchange[x] /\ Sound(f) /\ f.at = "admitted"
  BY Held DEF ServeRead
<1>2. PICK r : r = f.ask.run
  OBVIOUS
<1>3. PICK of : of = Shown(f.ask.route, r)
  OBVIOUS
<1>4. CASE ~(Owned(x) /\ of \notin {"none", "invalid"})
  <2>1. Over(x)
    BY <1>1, <1>2, <1>3, <1>4 DEF ServeRead
  <2> QED
    BY <2>1, OverStep DEF ServeRead
<1>5. CASE Owned(x) /\ of \notin {"none", "invalid"}
  <2>1. r \in RunsKept /\ r # None /\ OwnerOf[r] = f.auth.project
    BY <1>1, <1>2, <1>5 DEF Owned, Exchanged, Asks
  <2>2. /\ of \in {"run", "none", "unsafe", "safe", "damaged", "invalid"}
        /\ of = "safe" => records[r] = "safe"
    BY <1>3, <2>1 DEF Shown, LabReport, BundleBytes, HttpInv, SurfaceTypes
  <2>3. PICK got : got = [told |-> "data", run |-> r, link |-> None, was |-> records[r], of |-> of]
    OBVIOUS
  <2>4. /\ got \in Tellings /\ got.told = "data" /\ got.run = r /\ got.link = None
        /\ got.was = records[r] /\ got.of = of
    BY <2>1, <2>2, <2>3 DEF Tellings, HttpInv, SurfaceTypes
  <2>5. PICK e : e = [[f EXCEPT !.at = "answered"] EXCEPT !.got = got]
    OBVIOUS
  <2>6. /\ e \in Exchanged /\ e.at = "answered" /\ e.got = got
        /\ e.ask = f.ask /\ e.size = f.size /\ e.age = f.age /\ e.late = f.late
        /\ e.auth = f.auth
    BY <2>4, <2>5 DEF Exchanged
  <2>7. f.auth.kind = "share" => r = f.auth.run
    BY <1>1, <1>2 DEF Sound, Belongs, Admitted, WithinShare
  <2>8. f.ask.route # "template"
    BY <1>1 DEF ServeRead
  <2>9. Told(e)
    BY <2>1, <2>2, <2>4, <2>6, <2>7, <2>8 DEF Told, ToldOfRun
  <2>10. BoundedBody(e) /\ Belongs(e)
    BY <1>1, <2>6 DEF Sound, BoundedBody, Belongs
  <2>11. exchange' = [exchange EXCEPT ![x] = e]
    BY <1>1, <1>2, <1>3, <1>5, <2>3, <2>5 DEF ServeRead, Answer
  <2> QED
    BY <2>6, <2>9, <2>10, <2>11, OneGoesOn DEF ServeRead, Sound, HttpInv, SurfaceTypes
<1> QED
  BY <1>4, <1>5

\* The intent of a request for a link, and that of its key if there is one.
LEMMA IntentIs ==
  ASSUME HttpInv, NEW f \in Exchanged, Sound(f),
         f.at \in {"admitted", "intended", "repeated"}, f.ask.route = "share", f.ask.run # None
  PROVE  IntentOf(f) \in Links
<1>1. f.auth \in Authorities /\ f.ask \in Asks
  BY DEF Exchanged, Sound, Belongs
<1>2. f.ask.keyed = "key" /\ f.ask.run \in RunsKept
  BY <1>1 DEF Sound, Belongs, Admitted, Asks
<1> QED
  BY <1>1, <1>2 DEF IntentOf, Links, Authorities

LEMMA PersistIntentStep ==
  ASSUME HttpInv, NEW x \in Exchanges, PersistIntent(x)
  PROVE  HttpInv'
<1>1. PICK f \in Exchanged : f = exchange[x] /\ Sound(f) /\ f.at = "admitted"
  BY Held DEF PersistIntent
<1>2. CASE ~Owned(x) \/ Conflicts(x)
  BY <1>2, OverStep DEF PersistIntent
<1>3. CASE ~(~Owned(x) \/ Conflicts(x))
  <2>1. PICK i : i = IntentOf(f)
    OBVIOUS
  <2>2. i = Intent(x)
    BY <1>1, <2>1 DEF Intent, IntentOf
  <2>3. /\ f.ask.route = "share" /\ f.ask.run # None
        /\ OwnerOf[f.ask.run] = f.auth.project
    BY <1>1, <1>3 DEF PersistIntent, Owned
  <2>4. i \in Links /\ i.project = f.auth.project /\ i.keyed = f.ask.keyed
    BY <1>1, <2>1, <2>3, IntentIs DEF IntentOf
  <2>5. \A j \in intents : j.project = i.project /\ j.keyed = i.keyed => j = i
    BY <1>1, <1>3, <2>2, <2>4 DEF Conflicts, SameKey
  <2>6. i \in intents' /\ intents' \subseteq intents \cup {i} /\ intents \subseteq intents'
    <3>1. CASE SameKey(x) = {}
      BY <1>3, <2>2, <3>1 DEF PersistIntent
    <3>2. CASE SameKey(x) # {}
      <4>1. PICK j \in SameKey(x) : TRUE
        BY <3>2
      <4>2. j \in intents /\ j = i
        BY <1>1, <1>3, <2>2, <4>1 DEF Conflicts, SameKey
      <4> QED
        BY <1>3, <3>2, <4>2 DEF PersistIntent
    <3> QED
      BY <3>1, <3>2
  <2>7. PICK s \in {"intended", "repeated"} : exchange' = [exchange EXCEPT ![x].at = s]
    BY <1>3 DEF PersistIntent, Advance
  <2>8. PICK e : e = [f EXCEPT !.at = s]
    OBVIOUS
  <2>9. /\ e \in Exchanged /\ e.at = s
        /\ e.ask = f.ask /\ e.size = f.size /\ e.age = f.age /\ e.late = f.late
        /\ e.auth = f.auth /\ e.got = f.got
    BY <2>8, GoesThrough
  <2>10. exchange' = [exchange EXCEPT ![x] = e]
    BY <1>1, <2>7, <2>8
  <2>11. SurfaceTypes'
    BY <2>4, <2>6, <2>9, <2>10 DEF PersistIntent, HttpInv, SurfaceTypes
  <2>12. OneIntentPerKey'
    BY <2>5, <2>6 DEF HttpInv, OneIntentPerKey
  <2>13. Sound(f)'
    BY <1>1, <2>6, SoundStays DEF PersistIntent
  <2>14. BoundedBody(e)' /\ Told(e)'
    BY <1>1, <2>9, <2>13 DEF Sound, BoundedBody, Told
  <2>15. Belongs(e)'
    <3>1. IntentOf(e) = i
      BY <2>1, <2>9 DEF IntentOf
    <3> QED
      BY <1>1, <2>3, <2>6, <2>9, <2>13, <3>1 DEF Sound, Belongs, IntentOf, Admitted, WithinShare
  <2> QED
    BY <2>6, <2>10, <2>11, <2>12, <2>14, <2>15, OneMoves DEF PersistIntent, Sound
<1> QED
  BY <1>2, <1>3

LEMMA CreateShareStep ==
  ASSUME HttpInv, NEW x \in Exchanges, CreateShare(x)
  PROVE  HttpInv'
<1>1. PICK f \in Exchanged : f = exchange[x] /\ Sound(f) /\ f.at \in {"intended", "repeated"}
  BY Held DEF CreateShare
<1>2. PICK i : i = IntentOf(f)
  OBVIOUS
<1>3. i = Intent(x)
  BY <1>1, <1>2 DEF Intent, IntentOf
<1>4. /\ f.ask.route = "share" /\ f.ask.run # None
      /\ OwnerOf[f.ask.run] = f.auth.project /\ i \in intents
  BY <1>1, <1>2 DEF Sound, Belongs
<1>5. i \in Links /\ f.ask.run \in RunsKept
  BY <1>1, <1>2, <1>4, IntentIs DEF Exchanged, Asks
<1>6. PICK got : got = [told |-> "data", run |-> f.ask.run, link |-> i, was |-> "none", of |-> "run"]
  OBVIOUS
<1>7. /\ got \in Tellings /\ got.told = "data" /\ got.run = f.ask.run /\ got.link = i
      /\ got.of = "run"
  BY <1>5, <1>6 DEF Tellings
<1>8. PICK e : e = [[f EXCEPT !.at = "answered"] EXCEPT !.got = got]
  OBVIOUS
<1>9. /\ e \in Exchanged /\ e.at = "answered" /\ e.got = got
      /\ e.ask = f.ask /\ e.size = f.size /\ e.age = f.age /\ e.late = f.late
      /\ e.auth = f.auth
  BY <1>7, <1>8 DEF Exchanged
<1>10. exchange' = [exchange EXCEPT ![x] = e]
  BY <1>1, <1>3, <1>6, <1>8 DEF CreateShare, Answer
<1>11. shares' = shares \cup {i}
  BY <1>3 DEF CreateShare, LinksStored
<1>12. SurfaceTypes'
  BY <1>5, <1>9, <1>10, <1>11 DEF CreateShare, HttpInv, SurfaceTypes
<1>13. OneIntentPerKey'
  BY DEF CreateShare, HttpInv, OneIntentPerKey
<1>14. Sound(f)'
  BY <1>1, <1>11, SoundStays DEF CreateShare
<1>15. f.auth.kind # "share"
  BY <1>1, <1>4 DEF Sound, Belongs, Admitted, WithinShare
<1>16. Told(e)'
  <2>1. IntentOf(e) = i
    BY <1>2, <1>9 DEF IntentOf
  <2>2. ToldOfRun(e)'
    BY <1>4, <1>7, <1>9, <1>11, <1>15, <2>1 DEF ToldOfRun, CreateShare, IntentOf
  <2> QED
    BY <1>4, <1>7, <1>9, <2>2 DEF Told
<1>17. BoundedBody(e)' /\ Belongs(e)'
  BY <1>1, <1>9, <1>14 DEF Sound, BoundedBody, Belongs
<1> QED
  BY <1>10, <1>11, <1>12, <1>13, <1>16, <1>17, OneMoves DEF CreateShare, Sound

\* Tokens go, evidence arrives or is damaged, the process starts again.
LEMMA WorldStep ==
  ASSUME HttpInv,
         \/ Restart
         \/ \E t \in Holders \cup shares : Revoke(t)
         \/ \E r \in RunsKept : EvidenceChanges(r)
  PROVE  HttpInv'
<1> USE DEF HttpInv, SurfaceTypes
<1>1. UNCHANGED <<exchange, intents, shares, cached>> /\ gone \subseteq gone'
  BY DEF Restart, Revoke, EvidenceChanges
<1>2. serving' \in Nat \cup {None}
  <2>1. CASE Restart
    BY <2>1, HttpAssumption DEF Restart
  <2> QED
    BY <2>1 DEF Revoke, EvidenceChanges
<1>3. records' \in [RunsKept -> {"none", "unsafe", "safe", "damaged"}]
  BY DEF Restart, Revoke, EvidenceChanges
<1>4. SurfaceTypes'
  BY <1>1, <1>2, <1>3
<1>5. OneIntentPerKey'
  BY <1>1 DEF OneIntentPerKey
<1> QED
  BY <1>1, <1>4, <1>5, NoneMoves

LEMMA HttpNextInv ==
  ASSUME HttpInv, [HttpNext]_httpVars
  PROVE  HttpInv'
<1>1. CASE UNCHANGED httpVars
  <2>1. SurfaceTypes' /\ OneIntentPerKey'
    BY <1>1 DEF httpVars, HttpInv, SurfaceTypes, OneIntentPerKey
  <2> QED
    BY <1>1, <2>1, NoneMoves DEF httpVars
<1>2. CASE Crash
  BY <1>2, ProcessEndsStep DEF Crash
<1>3. CASE \E x \in Exchanges : ServeElsewhere(x) \/ OperationFails(x)
  BY <1>3, OverStep DEF ServeElsewhere, OperationFails
<1>4. CASE \E x \in Exchanges : AuthenticationThrows(x)
  BY <1>4, ProcessEndsStep DEF AuthenticationThrows
<1> QED
  BY <1>1, <1>2, <1>3, <1>4, TimePassesStep, WorldStep, ArriveStep, ReadChunkStep, BodyEndsStep,
     BodyAbortsStep, ServeLoginStep, AuthenticateStep, ServeTemplateStep, ServeReadStep,
     PersistIntentStep, CreateShareStep DEF HttpNext

\* However requests, time, revocations, failed inserts and new releases overlap: a wallet
\* body stays within its limit (bootstrap.ts), what is told of a run goes to its project or
\* to the link of that run (app.ts), a link that was handed out is stored and is the one of
\* its key (production-service.ts), and damaged or unsafe evidence is not shown as safe.
THEOREM AnswersAreRight == HttpSpec => []HttpPromise
  BY HttpInitInv, HttpNextInv, HttpInvImplies, PTL DEF HttpSpec

(***************************************************************************)
(* DeploymentPromise holds of any number of migrators, servers and workers *)
(* with whatever plans: the schema is the whole plan of one release, a     *)
(* ready API has a worker of its release, no command is taken after a      *)
(* failed refresh, and a row marked stopped hides no worker.               *)
(***************************************************************************)

Migrations ==
  [at : {"down", "waiting", "applying", "done", "refused", "failed", "conflict"},
   work : Histories]

Works ==
  [at : {"down", "verified", "top", "busy", "sleeping", "closing", "ended"},
   stop : BOOLEAN, failed : BOOLEAN, heart : {"off", "timer", "refreshing"},
   late : 0 .. 1, dead : 0 .. StaleAfter + 1]

Rows == [age : Nat, stopped : BOOLEAN]

\* The schema, the lock and the runners.
MigrationTypes ==
  /\ schema \in [tables : {"none", "no ledger", "both"}, applied : Histories]
  /\ migrator \in [Migrators -> Migrations]

\* A runner inside its transaction has the lock, started from what is there, and
\* what is there is not all its release has.
InTransaction(m) ==
  migrator[m].at = "applying" =>
    /\ lock = m
    /\ Len(schema.applied) <= Len(migrator[m].work)
    /\ Len(schema.applied) < Len(PlanOf[m])

SchemaInv ==
  /\ MigrationTypes
  /\ schema.tables = "none" => schema.applied = <<>>
  /\ schema.tables = "both" => schema.applied \in Plans
  /\ \A m \in Migrators : InTransaction(m) /\ migrator[m].at # "conflict"

\* The workers and their rows.
WorkerTypes ==
  /\ worker \in [Workers -> Works]
  /\ row \in [Workers -> Rows \cup {None}]

\* Only a worker in its loop has a timer; while one has not ended, nothing counts since
\* its end, and its row is as old as its end; a running one has
\* not ended; a marked row is that of a worker that was told to stop and did not fail.
RowTellsTheEnd(w) ==
  /\ worker[w].late = 0
  /\ worker[w].at \in {"down", "verified", "ended"} => worker[w].heart = "off"
  /\ worker[w].at # "ended" => worker[w].dead = 0
  /\ row[w] # None =>
       /\ worker[w].at = "ended" => worker[w].dead <= row[w].age
       /\ row[w].stopped => worker[w].at = "ended" /\ worker[w].stop /\ ~worker[w].failed

RowsInv == WorkerTypes /\ \A w \in Workers : RowTellsTheEnd(w)

DeploymentInv == SchemaInv /\ RowsInv

LEMMA DeploymentInvImplies ==
  ASSUME DeploymentInv
  PROVE  DeploymentPromise
<1> USE DEF DeploymentInv, SchemaInv, RowsInv
<1>1. WholePlansOnly /\ RunnersTakeTurns
  BY DEF WholePlansOnly, RunnersTakeTurns
<1>2. NoneTakenAfterFailure /\ MarkedRowsAreEnded
  BY DEF NoneTakenAfterFailure, MarkedRowsAreEnded, RowTellsTheEnd
<1>3. ReadyMeansServed
  <2> SUFFICES ASSUME NEW s \in Servers, Readiness(s).status = "ready"
               PROVE  \E w \in Workers :
                        /\ PlanOf[w] = PlanOf[s] /\ row[w] # None
                        /\ worker[w].at = "ended" => worker[w].dead <= StaleAfter /\ ~row[w].stopped
    BY DEF ReadyMeansServed
  <2>1. WorkerState(s) = "ready"
    BY DEF Readiness
  <2>2. PICK w \in Workers : PlanOf[w] = PlanOf[s] /\ Counted(w) /\ row[w].age <= StaleAfter
    BY <2>1 DEF WorkerState
  <2>3. row[w] # None /\ ~row[w].stopped /\ row[w] \in Rows /\ worker[w] \in Works
    BY <2>2 DEF Counted, WorkerTypes
  <2>4. worker[w].at = "ended" => worker[w].dead <= row[w].age
    BY <2>3 DEF RowTellsTheEnd
  <2>5. worker[w].dead \in Nat /\ row[w].age \in Nat /\ StaleAfter \in Nat
    BY <2>3, DeploymentAssumption DEF Works, Rows
  <2>6. worker[w].at = "ended" => worker[w].dead <= StaleAfter
    BY <2>2, <2>4, <2>5
  <2> QED
    BY <2>2, <2>3, <2>6
<1> QED
  BY <1>1, <1>2, <1>3 DEF DeploymentPromise

\* Histories are sequences of digests of migrations.
LEMMA HistoriesAre ==
  /\ <<>> \in Histories
  /\ \A h \in Histories : Len(h) \in Nat
  /\ \A h \in Histories, q \in Plans : \A n \in 1 .. Len(q) :
       Append(h, q[n]) \in Histories /\ Len(Append(h, q[n])) = Len(h) + 1
<1>1. PICK S : S = UNION {{q[n] : n \in 1 .. Len(q)} : q \in Plans}
  OBVIOUS
<1>2. Histories = Seq(S)
  BY <1>1 DEF Histories
<1>3. ASSUME NEW q \in Plans, NEW n \in 1 .. Len(q)
      PROVE  q[n] \in S
  BY <1>1
<1>4. ASSUME NEW h \in Seq(S), NEW d \in S
      PROVE  Len(h) \in Nat /\ Append(h, d) \in Seq(S) /\ Len(Append(h, d)) = Len(h) + 1
  OBVIOUS
<1>5. <<>> \in Seq(S) /\ \A h \in Seq(S) : Len(h) \in Nat
  OBVIOUS
<1> QED
  BY <1>2, <1>3, <1>4, <1>5

\* A plan is a history that is not empty, and so is its first migration.
LEMMA PlansAre ==
  ASSUME NEW q \in Plans
  PROVE  q \in Histories /\ Len(q) \in Nat /\ Len(q) > 0 /\ SubSeq(q, 1, 1) \in Histories
<1>1. q \in Histories /\ q # <<>>
  BY DeploymentAssumption
<1>2. Len(q) \in Nat /\ Len(q) > 0
  BY <1>1, EmptySeq DEF Histories
<1>3. SubSeq(q, 1, 1) \in Histories
  BY <1>1, <1>2, SubSeqProperties DEF Histories
<1> QED
  BY <1>1, <1>2, <1>3

LEMMA DeploymentInitInv ==
  ASSUME DeploymentInit
  PROVE  DeploymentInv
<1>1. <<>> \in Histories
  BY DEF Histories
<1>2. /\ schema \in [tables : {"none", "no ledger", "both"}, applied : Histories]
      /\ schema.tables = "none" => schema.applied = <<>>
      /\ schema.tables = "both" => schema.applied \in Plans
  <2>1. CASE schema = [tables |-> "none", applied |-> <<>>]
    BY <1>1, <2>1
  <2>2. CASE \E q \in Plans : schema = [tables |-> "no ledger", applied |-> SubSeq(q, 1, 1)]
    <3>1. PICK q \in Plans : schema = [tables |-> "no ledger", applied |-> SubSeq(q, 1, 1)]
      BY <2>2
    <3>2. PICK h \in Histories : h = SubSeq(q, 1, 1)
      BY PlansAre
    <3> QED
      BY <3>1, <3>2
  <2>3. CASE \E q \in Plans : schema = [tables |-> "both", applied |-> q]
    BY <2>3, PlansAre
  <2> QED
    BY <2>1, <2>2, <2>3 DEF DeploymentInit
<1>3. SchemaInv
  BY <1>1, <1>2 DEF DeploymentInit, SchemaInv, MigrationTypes, Migrations, InTransaction
<1>4. /\ Idle \in Works /\ LongDead \in Works /\ [age |-> KeepFor, stopped |-> FALSE] \in Rows
      /\ LongDead.at = "ended" /\ LongDead.heart = "off" /\ LongDead.late = 0
      /\ LongDead.dead = StaleAfter + 1
  <2>1. 0 \in 0 .. 1 /\ 0 \in 0 .. StaleAfter + 1 /\ StaleAfter + 1 \in 0 .. StaleAfter + 1
    BY DeploymentAssumption
  <2>2. Idle \in Works
    BY <2>1 DEF Idle, Works
  <2>3. PICK i \in Works : i = Idle /\ i.stop = FALSE /\ i.heart = "off" /\ i.late = 0
    BY <2>2 DEF Idle
  <2>4. PICK n \in 0 .. StaleAfter + 1 : n = StaleAfter + 1
    BY <2>1
  <2>5. PICK e : e = [[[i EXCEPT !.at = "ended"] EXCEPT !.failed = TRUE] EXCEPT !.dead = n]
    OBVIOUS
  <2>6. /\ e \in Works /\ e.at = "ended" /\ e.failed = TRUE /\ e.dead = n
        /\ e.heart = "off" /\ e.late = 0
    BY <2>3, <2>5 DEF Works
  <2>7. LongDead = e
    BY <2>3, <2>4, <2>5 DEF LongDead
  <2> QED
    BY <2>2, <2>4, <2>6, <2>7, DeploymentAssumption DEF Rows
<1>5. PICK ended \in SUBSET Workers :
        /\ worker = [w \in Workers |-> IF w \in ended THEN LongDead ELSE Idle]
        /\ row = [w \in Workers |-> IF w \in ended THEN [age |-> KeepFor, stopped |-> FALSE] ELSE None]
  BY DEF DeploymentInit
<1>6. WorkerTypes
  BY <1>4, <1>5 DEF WorkerTypes
<1>7. ASSUME NEW w \in Workers
      PROVE  RowTellsTheEnd(w)
  <2>1. CASE w \in ended
    <3>1. worker[w] = LongDead /\ row[w] = [age |-> KeepFor, stopped |-> FALSE]
      BY <1>5, <2>1
    <3> QED
      BY <1>4, <3>1, DeploymentAssumption DEF RowTellsTheEnd
  <2>2. CASE w \notin ended
    BY <1>5, <2>2 DEF RowTellsTheEnd, Idle
  <2> QED
    BY <2>1, <2>2
<1> QED
  BY <1>3, <1>6, <1>7 DEF DeploymentInv, RowsInv

(***************************************************************************)
(* The schema and its runners.                                             *)
(***************************************************************************)

LEMMA SchemaStays ==
  ASSUME SchemaInv, UNCHANGED <<schema, lock, migrator>>
  PROVE  SchemaInv'
  BY DEF SchemaInv, MigrationTypes, InTransaction

\* One runner moves; what is seen or who has the lock changes only if nobody else
\* has it.
LEMMA OneMigratorMoves ==
  ASSUME SchemaInv, NEW m \in Migrators, NEW e \in Migrations,
         migrator' = [migrator EXCEPT ![m] = e], e.at # "conflict",
         schema' \in [tables : {"none", "no ledger", "both"}, applied : Histories],
         schema'.tables = "none" => schema'.applied = <<>>,
         schema'.tables = "both" => schema'.applied \in Plans,
         (schema' = schema /\ lock' = lock) \/ lock = None \/ lock = m,
         e.at = "applying" =>
           /\ lock' = m
           /\ Len(schema'.applied) <= Len(e.work)
           /\ Len(schema'.applied) < Len(PlanOf[m])
  PROVE  SchemaInv'
<1>1. MigrationTypes'
  BY DEF SchemaInv, MigrationTypes
<1>2. ASSUME NEW n \in Migrators
      PROVE  (InTransaction(n) /\ migrator[n].at # "conflict")'
  <2>1. CASE n = m
    <3>1. migrator'[n] = e
      BY <2>1 DEF SchemaInv, MigrationTypes
    <3> QED
      BY <2>1, <3>1 DEF InTransaction
  <2>2. CASE n # m
    <3>1. migrator'[n] = migrator[n]
      BY <2>2 DEF SchemaInv, MigrationTypes
    <3>2. InTransaction(n) /\ migrator[n].at # "conflict"
      BY DEF SchemaInv
    <3>3. CASE schema' = schema /\ lock' = lock
      BY <3>1, <3>2, <3>3 DEF InTransaction
    <3>4. CASE lock = None \/ lock = m
      BY <2>2, <3>1, <3>2, <3>4, DeploymentAssumption DEF InTransaction
    <3> QED
      BY <3>3, <3>4
  <2> QED
    BY <2>1, <2>2
<1> QED
  BY <1>1, <1>2 DEF SchemaInv

LEMMA PlanIs ==
  ASSUME NEW m \in Migrators
  PROVE  PlanOf[m] \in Plans
  BY DEF Plans

\* A step of a runner that only changes its own step, and may give up the lock.
LEMMA MigratorWaitsStep ==
  ASSUME SchemaInv, NEW m \in Migrators, MigratorStarts(m) \/ MigratorFails(m)
  PROVE  SchemaInv'
<1>1. PICK e : e = [migrator[m] EXCEPT !.at = IF MigratorStarts(m) THEN "waiting" ELSE "failed"]
  OBVIOUS
<1>2. e \in Migrations /\ e.at \in {"waiting", "failed"}
  BY <1>1 DEF SchemaInv, MigrationTypes, Migrations
<1>3. migrator' = [migrator EXCEPT ![m] = e] /\ schema' = schema
  BY <1>1 DEF MigratorStarts, MigratorFails
<1>4. lock' = lock \/ lock = m
  BY DEF MigratorStarts, MigratorFails
<1> QED
  BY <1>2, <1>3, <1>4, OneMigratorMoves DEF SchemaInv, MigrationTypes

LEMMA MigratorLocksStep ==
  ASSUME SchemaInv, NEW m \in Migrators, MigratorLocks(m)
  PROVE  SchemaInv'
<1>1. PICK kind : kind = HistoryKind(schema, PlanOf[m])
  OBVIOUS
<1>2. PICK at : at = CASE kind = "refused" -> "refused" [] kind = "current" -> "done"
                       [] OTHER -> "applying"
  OBVIOUS
<1>3. PICK work : work = IF kind \in {"fresh", "pending"} THEN schema.applied ELSE <<>>
  OBVIOUS
<1>4. kind \in {"fresh", "pending", "refused", "current"}
  BY <1>1 DEF HistoryKind
<1>5. at \in {"refused", "done", "applying"} /\ (at = "applying" <=> kind \in {"fresh", "pending"})
  BY <1>2, <1>4
<1>6. work \in Histories
  BY <1>3, HistoriesAre DEF SchemaInv, MigrationTypes
<1>7. PICK e : e = [at |-> at, work |-> work]
  OBVIOUS
<1>8. e \in Migrations /\ e.at = at /\ e.work = work
  BY <1>5, <1>6, <1>7 DEF Migrations
<1>9. /\ migrator' = [migrator EXCEPT ![m] = e]
      /\ lock' = IF kind \in {"fresh", "pending"} THEN m ELSE lock
      /\ lock = None /\ schema' = schema
  BY <1>1, <1>2, <1>3, <1>7 DEF MigratorLocks, MayLock
<1>10. ASSUME at = "applying"
       PROVE  Len(schema.applied) < Len(PlanOf[m]) /\ work = schema.applied
  <2>1. PlanOf[m] \in Histories /\ Len(PlanOf[m]) \in Nat /\ Len(PlanOf[m]) > 0
    BY PlanIs, PlansAre
  <2>2. CASE kind = "fresh"
    <3>1. schema.applied = <<>>
      BY <1>1, <2>2 DEF HistoryKind, SchemaInv
    <3> QED
      BY <1>3, <2>1, <2>2, <3>1
  <2>3. CASE kind = "pending"
    <3>1. Len(schema.applied) <= Len(PlanOf[m]) /\ Len(schema.applied) # Len(PlanOf[m])
      BY <1>1, <2>3 DEF HistoryKind, Agrees
    <3>2. Len(schema.applied) \in Nat
      BY HistoriesAre DEF SchemaInv, MigrationTypes
    <3> QED
      BY <1>3, <2>1, <2>3, <3>1, <3>2
  <2> QED
    BY <1>5, <1>10, <2>2, <2>3
<1>11. Len(schema.applied) \in Nat
  BY HistoriesAre DEF SchemaInv, MigrationTypes
<1>12. e.at = "applying" =>
         /\ lock' = m
         /\ Len(schema'.applied) <= Len(e.work)
         /\ Len(schema'.applied) < Len(PlanOf[m])
  BY <1>5, <1>8, <1>9, <1>10, <1>11
<1> QED
  BY <1>5, <1>8, <1>9, <1>12, OneMigratorMoves DEF SchemaInv, MigrationTypes

LEMMA ApplyMigrationStep ==
  ASSUME SchemaInv, NEW m \in Migrators, ApplyMigration(m)
  PROVE  SchemaInv'
<1>1. PICK f \in Migrations : f = migrator[m] /\ f.at = "applying" /\ Len(f.work) < Len(PlanOf[m])
  BY DEF ApplyMigration, SchemaInv, MigrationTypes
<1>2. /\ lock = m /\ Len(schema.applied) <= Len(f.work)
      /\ Len(schema.applied) < Len(PlanOf[m])
  BY <1>1 DEF SchemaInv, InTransaction
<1>3. f.work \in Histories /\ Len(f.work) \in Nat /\ Len(schema.applied) \in Nat
  BY HistoriesAre DEF Migrations, SchemaInv, MigrationTypes
<1>4. PlanOf[m] \in Plans /\ PlanOf[m] \in Histories /\ Len(PlanOf[m]) \in Nat
  BY PlanIs, PlansAre
<1>5. PICK n \in Nat : n = Len(f.work) + 1
  BY <1>3
<1>6. n \in 1 .. Len(PlanOf[m]) /\ ~(n <= Len(schema.applied))
  BY <1>1, <1>2, <1>3, <1>4, <1>5
<1>7. PICK work : work = Append(f.work, PlanOf[m][n])
  OBVIOUS
<1>8. work \in Histories /\ Len(work) = n
  BY <1>3, <1>4, <1>5, <1>6, <1>7, HistoriesAre
<1>9. PICK e : e = [f EXCEPT !.work = work]
  OBVIOUS
<1>10. e \in Migrations /\ e.at = "applying" /\ e.work = work
  BY <1>1, <1>8, <1>9 DEF Migrations
<1>11. migrator' = [migrator EXCEPT ![m] = e] /\ schema' = schema /\ lock' = lock
  BY <1>1, <1>5, <1>6, <1>7, <1>9 DEF ApplyMigration, Visible
<1>12. Len(schema.applied) <= Len(e.work)
  BY <1>2, <1>3, <1>5, <1>8, <1>10
<1> QED
  BY <1>2, <1>10, <1>11, <1>12, OneMigratorMoves DEF SchemaInv, MigrationTypes

\* What is committed is the plan: as long as it, and agreeing with it.
LEMMA MigratorCommitsStep ==
  ASSUME SchemaInv, NEW m \in Migrators, MigratorCommits(m)
  PROVE  SchemaInv'
<1>1. PICK f \in Migrations : f = migrator[m] /\ f.at = "applying"
  BY DEF MigratorCommits, SchemaInv, MigrationTypes
<1>2. lock = m /\ Len(schema.applied) < Len(PlanOf[m])
  BY <1>1 DEF SchemaInv, InTransaction
<1>3. PlanOf[m] \in Plans /\ PlanOf[m] \in Histories
  BY PlanIs, PlansAre
<1>4. f.work = PlanOf[m]
  <2>1. SubSeq(PlanOf[m], 1, Len(PlanOf[m])) = PlanOf[m]
    BY <1>3, SubSeqFull DEF Histories
  <2> QED
    BY <1>1, <2>1 DEF MigratorCommits, Agrees
<1>5. schema' = [tables |-> "both", applied |-> PlanOf[m]]
  BY <1>1, <1>2, <1>4 DEF MigratorCommits
<1>6. PICK at \in {"done", "failed"} : migrator' = [migrator EXCEPT ![m].at = at]
  BY <1>2 DEF MigratorCommits
<1>7. PICK e : e = [f EXCEPT !.at = at]
  OBVIOUS
<1>8. e \in Migrations /\ e.at = at
  BY <1>7 DEF Migrations
<1>9. migrator' = [migrator EXCEPT ![m] = e]
  BY <1>1, <1>6, <1>7
<1> QED
  BY <1>2, <1>3, <1>5, <1>8, <1>9, OneMigratorMoves

LEMMA MigratorStepInv ==
  ASSUME SchemaInv, NEW m \in Migrators, MigratorStep(m)
  PROVE  SchemaInv'
  BY MigratorWaitsStep, MigratorLocksStep, ApplyMigrationStep, MigratorCommitsStep DEF MigratorStep

(***************************************************************************)
(* The workers and their rows.                                             *)
(***************************************************************************)

LEMMA RowsStay ==
  ASSUME RowsInv, UNCHANGED <<worker, row>>
  PROVE  RowsInv'
  BY DEF RowsInv, WorkerTypes, RowTellsTheEnd

\* What a worker and its row may be.
Tells(e, r) ==
  /\ e.late = 0
  /\ e.at \in {"down", "verified", "ended"} => e.heart = "off"
  /\ e.at # "ended" => e.dead = 0
  /\ r # None =>
       /\ e.at = "ended" => e.dead <= r.age
       /\ r.stopped => e.at = "ended" /\ e.stop /\ ~e.failed

\* One worker moves, its row with it; rows of others may go.
LEMMA OneWorkerMoves ==
  ASSUME RowsInv, NEW w \in Workers, NEW e \in Works, NEW r \in Rows \cup {None},
         worker' = [worker EXCEPT ![w] = e],
         row' \in [Workers -> Rows \cup {None}], row'[w] = r,
         \A o \in Workers \ {w} : row'[o] \in {row[o], None},
         Tells(e, r)
  PROVE  RowsInv'
<1>1. WorkerTypes'
  BY DEF RowsInv, WorkerTypes
<1>2. ASSUME NEW o \in Workers
      PROVE  RowTellsTheEnd(o)'
  <2>1. CASE o = w
    <3>1. worker'[o] = e /\ row'[o] = r
      BY <2>1 DEF RowsInv, WorkerTypes
    <3> QED
      BY <3>1 DEF Tells, RowTellsTheEnd
  <2>2. CASE o # w
    <3>1. worker'[o] = worker[o] /\ row'[o] \in {row[o], None}
      BY <2>2 DEF RowsInv, WorkerTypes
    <3>2. RowTellsTheEnd(o)
      BY DEF RowsInv
    <3>3. CASE row'[o] = None
      BY <3>1, <3>2, <3>3 DEF RowTellsTheEnd
    <3>4. CASE row'[o] = row[o]
      BY <3>1, <3>2, <3>4 DEF RowTellsTheEnd
    <3> QED
      BY <3>1, <3>3, <3>4
  <2> QED
    BY <2>1, <2>2
<1> QED
  BY <1>1, <1>2 DEF RowsInv

\* A worker moves and no row changes.
LEMMA OnlyWorkerMoves ==
  ASSUME RowsInv, NEW w \in Workers, NEW e \in Works,
         worker' = [worker EXCEPT ![w] = e], row' = row, Tells(e, row[w])
  PROVE  RowsInv'
<1>1. PICK r \in Rows \cup {None} : r = row[w]
  BY DEF RowsInv, WorkerTypes
<1> QED
  BY <1>1, OneWorkerMoves DEF RowsInv, WorkerTypes

LEMMA HeldWorker ==
  ASSUME RowsInv, NEW w \in Workers
  PROVE  worker[w] \in Works /\ row[w] \in Rows \cup {None} /\ Tells(worker[w], row[w])
  BY DEF RowsInv, WorkerTypes, RowTellsTheEnd, Tells

LEMMA WorkerStartsStep ==
  ASSUME RowsInv, NEW w \in Workers, WorkerStarts(w)
  PROVE  RowsInv'
<1>1. PICK f \in Works : f = worker[w] /\ Tells(f, row[w]) /\ f.at = "down"
  BY HeldWorker DEF WorkerStarts
<1>2. PICK at \in {"verified", "ended"} : worker' = [worker EXCEPT ![w].at = at]
  BY DEF WorkerStarts
<1>3. PICK e : e = [f EXCEPT !.at = at]
  OBVIOUS
<1>4. /\ e \in Works /\ e.at = at
      /\ e.stop = f.stop /\ e.failed = f.failed /\ e.heart = f.heart /\ e.late = f.late /\ e.dead = f.dead
  BY <1>3 DEF Works
<1>5. worker' = [worker EXCEPT ![w] = e] /\ row' = row
  BY <1>1, <1>2, <1>3 DEF WorkerStarts
<1>6. f.dead \in Nat /\ \A r \in Rows : r.age \in Nat
  BY DeploymentAssumption DEF Works, Rows
<1>7. Tells(e, row[w])
  BY <1>1, <1>2, <1>4, <1>6, HeldWorker DEF Tells
<1> QED
  BY <1>4, <1>5, <1>7, OnlyWorkerMoves

LEMMA StopSignalStep ==
  ASSUME RowsInv, NEW w \in Workers, StopSignal(w)
  PROVE  RowsInv'
<1>1. PICK f \in Works : f = worker[w] /\ Tells(f, row[w]) /\ f.at \in {"top", "busy", "sleeping"}
  BY HeldWorker DEF StopSignal, Running
<1>3. PICK e : e = [f EXCEPT !.stop = TRUE]
  OBVIOUS
<1>4. /\ e \in Works /\ e.stop = TRUE
      /\ e.at = f.at /\ e.failed = f.failed /\ e.heart = f.heart /\ e.late = f.late /\ e.dead = f.dead
  BY <1>3 DEF Works
<1>5. worker' = [worker EXCEPT ![w] = e] /\ row' = row
  BY <1>1, <1>3 DEF StopSignal
<1>6. f.dead \in Nat /\ \A r \in Rows : r.age \in Nat
  BY DeploymentAssumption DEF Works, Rows
<1>7. Tells(e, row[w])
  BY <1>1, <1>4, <1>6, HeldWorker DEF Tells
<1> QED
  BY <1>4, <1>5, <1>7, OnlyWorkerMoves

LEMMA TimerFiresStep ==
  ASSUME RowsInv, NEW w \in Workers, TimerFires(w)
  PROVE  RowsInv'
<1>1. PICK f \in Works : f = worker[w] /\ Tells(f, row[w]) /\ f.at \in {"top", "busy", "sleeping"}
  BY HeldWorker DEF TimerFires, Running
<1>3. PICK e : e = [f EXCEPT !.heart = "refreshing"]
  OBVIOUS
<1>4. /\ e \in Works /\ e.heart = "refreshing"
      /\ e.at = f.at /\ e.stop = f.stop /\ e.failed = f.failed /\ e.late = f.late /\ e.dead = f.dead
  BY <1>3 DEF Works
<1>5. worker' = [worker EXCEPT ![w] = e] /\ row' = row
  BY <1>1, <1>3 DEF TimerFires
<1>6. f.dead \in Nat /\ \A r \in Rows : r.age \in Nat
  BY DeploymentAssumption DEF Works, Rows
<1>7. Tells(e, row[w])
  BY <1>1, <1>4, <1>6, HeldWorker DEF Tells
<1> QED
  BY <1>4, <1>5, <1>7, OnlyWorkerMoves

LEMMA RefreshFailsStep ==
  ASSUME RowsInv, NEW w \in Workers, RefreshFails(w)
  PROVE  RowsInv'
<1>1. PICK f \in Works : f = worker[w] /\ Tells(f, row[w]) /\ f.heart = "refreshing"
  BY HeldWorker DEF RefreshFails
<1>3. PICK e : e = [[f EXCEPT !.failed = TRUE] EXCEPT !.heart = "off"]
  OBVIOUS
<1>4. /\ e \in Works /\ e.failed = TRUE /\ e.heart = "off"
      /\ e.at = f.at /\ e.stop = f.stop /\ e.late = f.late /\ e.dead = f.dead
  BY <1>3 DEF Works
<1>5. worker' = [worker EXCEPT ![w] = e] /\ row' = row
  BY <1>1, <1>3 DEF RefreshFails
<1>6. f.dead \in Nat /\ \A r \in Rows : r.age \in Nat
  BY DeploymentAssumption DEF Works, Rows
<1>7. Tells(e, row[w])
  BY <1>1, <1>4, <1>6, HeldWorker DEF Tells
<1> QED
  BY <1>4, <1>5, <1>7, OnlyWorkerMoves

LEMMA TakeStep ==
  ASSUME RowsInv, NEW w \in Workers, Take(w)
  PROVE  RowsInv'
<1>1. PICK f \in Works : f = worker[w] /\ Tells(f, row[w]) /\ f.at = "top" /\ ~f.failed
  BY HeldWorker DEF Take, MayTake
<1>3. PICK e : e = [[f EXCEPT !.at = "busy"] EXCEPT !.late = f.late]
  OBVIOUS
<1>4. /\ e \in Works /\ e.at = "busy" /\ e.late = f.late
      /\ e.stop = f.stop /\ e.failed = f.failed /\ e.heart = f.heart /\ e.dead = f.dead
  BY <1>3 DEF Works
<1>5. worker' = [worker EXCEPT ![w] = e] /\ row' = row
  BY <1>1, <1>3 DEF Take
<1>6. f.dead \in Nat /\ \A r \in Rows : r.age \in Nat
  BY DeploymentAssumption DEF Works, Rows
<1>7. Tells(e, row[w])
  BY <1>1, <1>4, <1>6, HeldWorker DEF Tells
<1> QED
  BY <1>4, <1>5, <1>7, OnlyWorkerMoves

LEMMA ProcessedStep ==
  ASSUME RowsInv, NEW w \in Workers, Processed(w)
  PROVE  RowsInv'
<1>1. PICK f \in Works : f = worker[w] /\ Tells(f, row[w]) /\ f.at = "busy"
  BY HeldWorker DEF Processed
<1>2. PICK at \in {"top", "sleeping", "closing"}, failed \in BOOLEAN :
        worker' = [worker EXCEPT ![w].at = at, ![w].failed = failed]
  <2>1. PICK result \in {"top", "sleeping", "closing"} :
          worker' = [worker EXCEPT
            ![w].at = IF worker[w].failed THEN "closing" ELSE result,
            ![w].failed = @ \/ result = "closing"]
    BY DEF Processed
  <2>2. (f.failed \/ result = "closing") \in BOOLEAN
    BY DEF Works
  <2> QED
    BY <1>1, <2>1, <2>2
<1>3. PICK e : e = [[f EXCEPT !.at = at] EXCEPT !.failed = failed]
  OBVIOUS
<1>4. /\ e \in Works /\ e.at = at /\ e.failed = failed
      /\ e.stop = f.stop /\ e.heart = f.heart /\ e.late = f.late /\ e.dead = f.dead
  BY <1>3 DEF Works
<1>5. worker' = [worker EXCEPT ![w] = e] /\ row' = row
  BY <1>1, <1>2, <1>3 DEF Processed
<1>6. f.dead \in Nat /\ \A r \in Rows : r.age \in Nat
  BY DeploymentAssumption DEF Works, Rows
<1>7. Tells(e, row[w])
  BY <1>1, <1>2, <1>4, <1>6, HeldWorker DEF Tells
<1> QED
  BY <1>4, <1>5, <1>7, OnlyWorkerMoves

LEMMA WakesStep ==
  ASSUME RowsInv, NEW w \in Workers, Wakes(w)
  PROVE  RowsInv'
<1>1. PICK f \in Works : f = worker[w] /\ Tells(f, row[w]) /\ f.at = "sleeping"
  BY HeldWorker DEF Wakes
<1>3. PICK e : e = [f EXCEPT !.at = "top"]
  OBVIOUS
<1>4. /\ e \in Works /\ e.at = "top"
      /\ e.stop = f.stop /\ e.failed = f.failed /\ e.heart = f.heart /\ e.late = f.late /\ e.dead = f.dead
  BY <1>3 DEF Works
<1>5. worker' = [worker EXCEPT ![w] = e] /\ row' = row
  BY <1>1, <1>3 DEF Wakes
<1>6. f.dead \in Nat /\ \A r \in Rows : r.age \in Nat
  BY DeploymentAssumption DEF Works, Rows
<1>7. Tells(e, row[w])
  BY <1>1, <1>4, <1>6, HeldWorker DEF Tells
<1> QED
  BY <1>4, <1>5, <1>7, OnlyWorkerMoves

LEMMA LoopEndsStep ==
  ASSUME RowsInv, NEW w \in Workers, LoopEnds(w)
  PROVE  RowsInv'
<1>1. PICK f \in Works : f = worker[w] /\ Tells(f, row[w]) /\ f.at = "top"
  BY HeldWorker DEF LoopEnds
<1>3. PICK e : e = [f EXCEPT !.at = "closing"]
  OBVIOUS
<1>4. /\ e \in Works /\ e.at = "closing"
      /\ e.stop = f.stop /\ e.failed = f.failed /\ e.heart = f.heart /\ e.late = f.late /\ e.dead = f.dead
  BY <1>3 DEF Works
<1>5. worker' = [worker EXCEPT ![w] = e] /\ row' = row
  BY <1>1, <1>3 DEF LoopEnds
<1>6. f.dead \in Nat /\ \A r \in Rows : r.age \in Nat
  BY DeploymentAssumption DEF Works, Rows
<1>7. Tells(e, row[w])
  BY <1>1, <1>4, <1>6, HeldWorker DEF Tells
<1> QED
  BY <1>4, <1>5, <1>7, OnlyWorkerMoves

LEMMA WorkerDiesStep ==
  ASSUME RowsInv, NEW w \in Workers, WorkerDies(w)
  PROVE  RowsInv'
<1>1. PICK f \in Works : f = worker[w] /\ Tells(f, row[w]) /\ f.at \in {"top", "busy", "sleeping"}
  BY HeldWorker DEF WorkerDies, Running
<1>3. PICK e : e = [[[f EXCEPT !.at = "ended"] EXCEPT !.heart = "off"] EXCEPT !.failed = TRUE]
  OBVIOUS
<1>4. /\ e \in Works /\ e.at = "ended" /\ e.heart = "off" /\ e.failed = TRUE
      /\ e.stop = f.stop /\ e.late = f.late /\ e.dead = f.dead
  BY <1>3 DEF Works
<1>5. worker' = [worker EXCEPT ![w] = e] /\ row' = row
  BY <1>1, <1>3 DEF WorkerDies
<1>6. f.dead \in Nat /\ \A r \in Rows : r.age \in Nat
  BY DeploymentAssumption DEF Works, Rows
<1>7. Tells(e, row[w])
  BY <1>1, <1>4, <1>6, HeldWorker DEF Tells
<1> QED
  BY <1>4, <1>5, <1>7, OnlyWorkerMoves

LEMMA HeartbeatStartsStep ==
  ASSUME RowsInv, NEW w \in Workers, HeartbeatStarts(w)
  PROVE  RowsInv'
<1>1. PICK f \in Works : f = worker[w] /\ Tells(f, row[w]) /\ f.at = "verified"
  BY HeldWorker DEF HeartbeatStarts
<1>2. PICK e : e = [[f EXCEPT !.at = "top"] EXCEPT !.heart = "timer"]
  OBVIOUS
<1>3. /\ e \in Works /\ e.at = "top" /\ e.heart = "timer"
      /\ e.stop = f.stop /\ e.failed = f.failed /\ e.late = f.late /\ e.dead = f.dead
  BY <1>2 DEF Works
<1>4. worker' = [worker EXCEPT ![w] = e]
  BY <1>1, <1>2 DEF HeartbeatStarts
<1>5. PICK r : r = [age |-> 0, stopped |-> FALSE] /\ r.stopped = FALSE /\ r \in Rows
  <2>1. PICK r : r = [age |-> 0, stopped |-> FALSE]
    OBVIOUS
  <2>2. r.stopped = FALSE /\ r \in Rows
    BY <2>1 DEF Rows
  <2> QED
    BY <2>1, <2>2
<1>6. row' = [row EXCEPT ![w] = r]
  BY <1>5 DEF HeartbeatStarts
<1>7. /\ row' \in [Workers -> Rows \cup {None}] /\ row'[w] = r
      /\ \A o \in Workers \ {w} : row'[o] \in {row[o], None}
  BY <1>5, <1>6 DEF RowsInv, WorkerTypes
<1>8. Tells(e, r)
  BY <1>1, <1>3, <1>5 DEF Tells
<1> QED
  BY <1>3, <1>4, <1>7, <1>8, OneWorkerMoves

\* A refreshed row is not marked, and rows of others may go.
LEMMA RefreshesStep ==
  ASSUME RowsInv, NEW w \in Workers, Refreshes(w)
  PROVE  RowsInv'
<1>1. PICK f \in Works : f = worker[w] /\ Tells(f, row[w]) /\ f.heart = "refreshing"
  BY HeldWorker DEF Refreshes
<1>2. PICK q \in Rows : q = row[w] /\ ~q.stopped
  BY HeldWorker DEF Refreshes, Counted
<1>3. PICK failed \in BOOLEAN, heart \in {"off", "timer"} :
        worker' = [worker EXCEPT ![w].failed = failed, ![w].heart = heart]
  BY DEF Refreshes
<1>4. PICK e : e = [[f EXCEPT !.failed = failed] EXCEPT !.heart = heart]
  OBVIOUS
<1>5. /\ e \in Works /\ e.failed = failed /\ e.heart = heart
      /\ e.at = f.at /\ e.stop = f.stop /\ e.late = f.late /\ e.dead = f.dead
  BY <1>4 DEF Works
<1>6. worker' = [worker EXCEPT ![w] = e]
  BY <1>1, <1>3, <1>4
<1>7. PICK r : r = [q EXCEPT !.age = 0]
  OBVIOUS
<1>8. r \in Rows /\ ~r.stopped
  BY <1>2, <1>7 DEF Rows
<1>9. row'[w] = r /\ \A o \in Workers \ {w} : row'[o] \in {row[o], None}
  BY <1>2, <1>7 DEF Refreshes
<1>10. row' \in [Workers -> Rows \cup {None}]
  <2>1. row' = [o \in Workers |-> row'[o]]
    BY DEF Refreshes
  <2>2. \A o \in Workers : row'[o] \in Rows \cup {None}
    BY <1>8, <1>9 DEF RowsInv, WorkerTypes
  <2> QED
    BY <2>1, <2>2
<1>11. Tells(e, r)
  BY <1>1, <1>5, <1>8 DEF Tells
<1> QED
  BY <1>5, <1>6, <1>8, <1>9, <1>10, <1>11, OneWorkerMoves

LEMMA WorkerEndsStep ==
  ASSUME RowsInv, NEW w \in Workers, WorkerEnds(w)
  PROVE  RowsInv'
<1>1. PICK f \in Works : f = worker[w] /\ Tells(f, row[w]) /\ f.at = "closing"
  BY HeldWorker DEF WorkerEnds
<1>2. PICK e : e = [[f EXCEPT !.at = "ended"] EXCEPT !.heart = "off"]
  OBVIOUS
<1>3. /\ e \in Works /\ e.at = "ended" /\ e.heart = "off"
      /\ e.stop = f.stop /\ e.failed = f.failed /\ e.late = f.late /\ e.dead = f.dead
  BY <1>2 DEF Works
<1>4. worker' = [worker EXCEPT ![w] = e]
  BY <1>1, <1>2 DEF WorkerEnds
<1>5. PICK marks \in {MarksStopped(w), FALSE} :
        row' = [row EXCEPT ![w] = IF marks /\ Counted(w) THEN [@ EXCEPT !.stopped = TRUE] ELSE @]
  BY DEF WorkerEnds
<1>6. CASE marks /\ Counted(w)
  <2>1. f.stop /\ ~f.failed
    BY <1>1, <1>5, <1>6 DEF MarksStopped
  <2>2. PICK q \in Rows : q = row[w]
    BY <1>6, HeldWorker DEF Counted
  <2>3. PICK r : r = [q EXCEPT !.stopped = TRUE]
    OBVIOUS
  <2>4. r \in Rows /\ r.age = q.age /\ r.age \in Nat
    BY <2>3 DEF Rows
  <2>5. row' = [row EXCEPT ![w] = r]
    BY <1>5, <1>6, <2>2, <2>3
  <2>6. /\ row' \in [Workers -> Rows \cup {None}] /\ row'[w] = r
        /\ \A o \in Workers \ {w} : row'[o] \in {row[o], None}
    BY <2>4, <2>5 DEF RowsInv, WorkerTypes
  <2>7. Tells(e, r)
    BY <1>1, <1>3, <2>1, <2>4 DEF Tells
  <2> QED
    BY <1>3, <1>4, <2>4, <2>6, <2>7, OneWorkerMoves
<1>7. CASE ~(marks /\ Counted(w))
  <2>1. row' = row
    BY <1>5, <1>7 DEF RowsInv, WorkerTypes
  <2>2. \A r \in Rows : r.age \in Nat
    BY DEF Rows
  <2>3. Tells(e, row[w])
    BY <1>1, <1>3, <2>2, HeldWorker DEF Tells
  <2> QED
    BY <1>3, <1>4, <2>1, <2>3, OnlyWorkerMoves
<1> QED
  BY <1>6, <1>7

\* Rows age at least as long as the end of their workers is counted.
LEMMA IntervalPassesStep ==
  ASSUME RowsInv, IntervalPasses
  PROVE  RowsInv'
<1>1. ASSUME NEW w \in Workers
      PROVE  worker'[w] \in Works /\ row'[w] \in Rows \cup {None} /\ Tells(worker'[w], row'[w])
  <2>1. PICK f \in Works : f = worker[w] /\ Tells(f, row[w])
    BY HeldWorker
  <2>2. f.dead \in Nat /\ StaleAfter \in Nat /\ KeepFor \in Nat /\ StaleAfter < KeepFor
    BY DeploymentAssumption DEF Works
  <2>3. PICK n \in Nat : /\ n = IF f.at = "ended" /\ f.dead <= StaleAfter THEN f.dead + 1 ELSE f.dead
                        /\ n \in 0 .. StaleAfter + 1
    BY <2>2 DEF Works
  <2>4. PICK e : e = [f EXCEPT !.dead = n]
    OBVIOUS
  <2>5. /\ e \in Works /\ e.dead = n /\ e.at = f.at /\ e.stop = f.stop
        /\ e.failed = f.failed /\ e.heart = f.heart /\ e.late = f.late
    BY <2>3, <2>4 DEF Works
  <2>6. worker'[w] = e
    <3>1. CASE f.at = "ended" /\ f.dead <= StaleAfter
      BY <2>1, <2>3, <2>4, <3>1 DEF IntervalPasses
    <3>2. CASE ~(f.at = "ended" /\ f.dead <= StaleAfter)
      <4>1. e = f
        BY <2>3, <2>4, <3>2 DEF Works
      <4> QED
        BY <2>1, <3>2, <4>1 DEF IntervalPasses
    <3> QED
      BY <3>1, <3>2
  <2>7. e.at # "ended" => e.dead = 0
    BY <2>1, <2>3, <2>5 DEF Tells
  <2>8. CASE row[w] = None
    <3>1. row'[w] = None
      BY <2>8 DEF IntervalPasses
    <3> QED
      BY <2>1, <2>5, <2>6, <2>7, <3>1 DEF Tells
  <2>9. CASE row[w] # None
    <3>1. PICK q \in Rows : q = row[w] /\ q.age \in Nat
      BY <2>9, HeldWorker DEF Rows
    <3>2. PICK k \in Nat : k = IF q.age > KeepFor THEN q.age ELSE q.age + 1
      BY <3>1
    <3>3. PICK r : r = [q EXCEPT !.age = k]
      OBVIOUS
    <3>4. r \in Rows /\ r.age = k /\ r.stopped = q.stopped
      BY <3>3 DEF Rows
    <3>5. row'[w] = r
      BY <2>9, <3>1, <3>2, <3>3 DEF IntervalPasses
    <3>6. f.at = "ended" => f.dead <= q.age
      BY <2>1, <2>9, <3>1 DEF Tells
    <3>7. f.at = "ended" => n <= k
      BY <2>2, <2>3, <3>1, <3>2, <3>6
    <3> QED
      BY <2>1, <2>5, <2>6, <2>7, <2>9, <3>1, <3>4, <3>5, <3>7 DEF Tells
  <2> QED
    BY <2>8, <2>9
<1>2. WorkerTypes'
  <2>1. worker' = [w \in Workers |-> worker'[w]] /\ row' = [w \in Workers |-> row'[w]]
    BY DEF IntervalPasses
  <2> QED
    BY <1>1, <2>1 DEF WorkerTypes
<1> QED
  BY <1>1, <1>2 DEF RowsInv, RowTellsTheEnd, Tells

LEMMA DeploymentNextInv ==
  ASSUME DeploymentInv, [DeploymentNext]_deploymentVars
  PROVE  DeploymentInv'
<1> USE DEF DeploymentInv
<1>1. CASE UNCHANGED deploymentVars
  BY <1>1, SchemaStays, RowsStay DEF deploymentVars
<1>2. CASE BootstrapRoles
  BY <1>2, SchemaStays, RowsStay DEF BootstrapRoles
<1>3. CASE IntervalPasses
  BY <1>3, SchemaStays, IntervalPassesStep DEF IntervalPasses
<1>4. CASE \E m \in Migrators : MigratorStep(m)
  <2>1. UNCHANGED <<worker, row>>
    BY <1>4 DEF MigratorStep, MigratorStarts, MigratorLocks, ApplyMigration, MigratorCommits, MigratorFails
  <2> QED
    BY <1>4, <2>1, MigratorStepInv, RowsStay
<1>5. CASE \E s \in Servers : ServerStarts(s) \/ ServerListens(s)
  BY <1>5, SchemaStays, RowsStay DEF ServerStarts, ServerListens
<1>6. CASE \E w \in Workers : WorkerStarts(w) \/ StopSignal(w) \/ TimerFires(w) \/ WorkerDies(w) \/ WorkerStep(w)
  <2>1. UNCHANGED <<schema, lock, migrator>>
    BY <1>6 DEF WorkerStarts, StopSignal, TimerFires, WorkerDies, WorkerStep, HeartbeatStarts, Refreshes,
         RefreshFails, Take, Processed, Wakes, LoopEnds, WorkerEnds
  <2>2. RowsInv'
    BY <1>6, WorkerStartsStep, StopSignalStep, TimerFiresStep, WorkerDiesStep, HeartbeatStartsStep,
       RefreshesStep, RefreshFailsStep, TakeStep, ProcessedStep, WakesStep, LoopEndsStep, WorkerEndsStep
       DEF WorkerStep
  <2> QED
    BY <2>1, <2>2, SchemaStays
<1> QED
  BY <1>1, <1>2, <1>3, <1>4, <1>5, <1>6 DEF DeploymentNext

\* However migrators, servers and workers of several releases start, run, fail and die: the
\* schema others see is one whole plan (migration-runner.ts), an API that says ready has a
\* worker of its release (deployment-readiness.ts), no command is taken after a failed
\* refresh, and only a worker that ended cleanly has its row marked (bootstrap.ts).
THEOREM DeploymentsAgree == DeploymentSpec => []DeploymentPromise
  BY DeploymentInitInv, DeploymentNextInv, DeploymentInvImplies, PTL DEF DeploymentSpec

(***************************************************************************)
(* BackupsPromise holds of any number of jobs and backups: evidence is of  *)
(* backups that can be restored, and retention deletes behind later        *)
(* evidence.                                                               *)
(***************************************************************************)

\* What a job may name before it looks is any value.
JobRecords(S) ==
  [at : {"idle", "pushing", "pushed", "named", "switched", "archived", "listed", "noted", "selected",
         "observed", "absent", "created", "restored", "verified", "passed", "failed", "killed"},
   id : S, switched : Nat, listed : SUBSET Nat, noted : Nat, bound : S, seen : S]

BackupTypes ==
  /\ store.taken \subseteq [id : Nat \ {0}, stop : Nat] /\ IsFiniteSet(store.taken)
  /\ store.kept \subseteq {b.id : b \in store.taken}
  /\ store = [taken |-> store.taken, kept |-> store.kept]
  /\ wal \in [open : Nat, archived : Nat]
  /\ pushing # None => pushing.id \in Nat \ {0} /\ pushing.by \in Jobs
  /\ shelf = [notes |-> shelf.notes, selected |-> shelf.selected, anew |-> shelf.anew]
  /\ \E S : job \in [Jobs -> JobRecords(S)]

Unnoted == {"idle", "pushing", "pushed", "named", "switched", "archived", "listed"}
Noted == {"noted", "selected", "observed", "absent", "created", "restored", "verified", "passed"}

After(n) == {b \in store.taken : b.id > n}

\* A job that has evidence keeps it, and its backup is kept or overtaken by enough others;
\* one that is about to write it has seen the backup and the end of its log archived.
JobKeeps(e) ==
  /\ e.at \in Unnoted => e.noted = 0
  /\ e.at \in Noted => e.noted # 0
  /\ e.noted # 0 => e.noted \in store.kept \/ Cardinality(After(e.noted)) >= Retain
  /\ e.at \in {"archived", "listed"} => e.switched <= wal.archived
  /\ e.at = "listed" => /\ e.id \in e.listed
                        /\ \E b \in store.taken : b.id = e.id /\ b.stop <= e.switched

BackupsInv ==
  /\ BackupTypes
  /\ EvidenceIsRestorable /\ DeletedIsCovered
  /\ \A j \in Jobs : JobKeeps(job[j])

LEMMA BackupsInvImplies ==
  ASSUME BackupsInv
  PROVE  BackupsPromise
  BY DEF BackupsInv, BackupsPromise, EvidencedIsKept, JobKeeps, After

LEMMA BackupsInitInv ==
  ASSUME BackupsInit
  PROVE  BackupsInv
<1>1. Fresh \in JobRecords({0}) /\ JobKeeps(Fresh)
  BY DEF Fresh, JobRecords, JobKeeps, Unnoted, Noted
<1>2. \E S : job \in [Jobs -> JobRecords(S)]
  BY <1>1 DEF BackupsInit
<1>3. IsFiniteSet(store.taken)
  BY FS_EmptySet DEF BackupsInit
<1>4. BackupTypes
  BY <1>2, <1>3 DEF BackupsInit, BackupTypes
<1>5. EvidenceIsRestorable /\ DeletedIsCovered
  BY DEF BackupsInit, EvidenceIsRestorable, DeletedIsCovered
<1>6. \A j \in Jobs : JobKeeps(job[j])
  BY <1>1 DEF BackupsInit
<1> QED
  BY <1>4, <1>5, <1>6 DEF BackupsInv

\* The backups after one are as many as can be counted, and no fewer when more are taken.
LEMMA AfterCounts ==
  ASSUME BackupTypes, NEW n
  PROVE  IsFiniteSet(After(n)) /\ Cardinality(After(n)) \in Nat
<1>1. After(n) \in SUBSET store.taken
  BY DEF After
<1> QED
  BY <1>1, FS_Subset, FS_CardinalityType DEF BackupTypes

LEMMA AfterGrows ==
  ASSUME BackupTypes, BackupTypes', store.taken \subseteq store'.taken, NEW n,
         Cardinality(After(n)) >= Retain
  PROVE  Cardinality(After(n)') >= Retain
<1>1. After(n) \in SUBSET (After(n)')
  BY DEF After
<1>2. IsFiniteSet(After(n)') /\ Cardinality(After(n)') \in Nat
  <2>1. After(n)' \in SUBSET store'.taken
    BY DEF After
  <2> QED
    BY <2>1, FS_Subset, FS_CardinalityType DEF BackupTypes
<1>3. Cardinality(After(n)) <= Cardinality(After(n)')
  BY <1>1, <1>2, FS_Subset
<1> QED
  BY <1>2, <1>3, AfterCounts, BackupsAssumption

\* As many backups are kept after n, so many were taken after it.
LEMMA KeptWereTaken ==
  ASSUME BackupTypes, NEW n \in Nat, Cardinality({k \in store.kept : k > n}) >= Retain
  PROVE  Cardinality(After(n)) >= Retain
<1>1. PICK T : T = {b.id : b \in After(n)}
  OBVIOUS
<1>2. PICK f : f = [b \in After(n) |-> b.id]
  OBVIOUS
<1>3. f \in Surjection(After(n), T)
  BY <1>1, <1>2 DEF Surjection
<1>4. IsFiniteSet(T) /\ Cardinality(T) <= Cardinality(After(n))
  BY <1>3, AfterCounts, FS_Surjection
<1>5. {k \in store.kept : k > n} \in SUBSET T
  BY <1>1 DEF After, BackupTypes
<1>6. Cardinality({k \in store.kept : k > n}) <= Cardinality(T)
  BY <1>4, <1>5, FS_Subset
<1>7. Cardinality(T) \in Nat /\ Cardinality({k \in store.kept : k > n}) \in Nat
  BY <1>4, <1>5, FS_Subset, FS_CardinalityType
<1> QED
  BY <1>4, <1>6, <1>7, AfterCounts, BackupsAssumption

\* More backups, more log, nothing deleted: a job keeps what it has.
LEMMA JobStays ==
  ASSUME BackupTypes, BackupTypes', NEW e, JobKeeps(e), e.switched \in Nat,
         store.taken \subseteq store'.taken, store.kept \subseteq store'.kept,
         wal.archived <= wal'.archived
  PROVE  JobKeeps(e)'
<1>1. e.noted # 0 => e.noted \in store'.kept \/ Cardinality(After(e.noted)') >= Retain
  BY AfterGrows DEF JobKeeps
<1>2. e.at \in {"archived", "listed"} => e.switched <= wal'.archived
  BY DEF JobKeeps, BackupTypes
<1>3. e.at = "listed" => \E b \in store'.taken : b.id = e.id /\ b.stop <= e.switched
  BY DEF JobKeeps
<1>4. Cardinality(After(e.noted))' = Cardinality(After(e.noted)')
  BY DEF After
<1> QED
  BY <1>1, <1>2, <1>3, <1>4 DEF JobKeeps

\* A job has a record of its types, and larger sets have the records of smaller ones.
LEMMA JobTyped ==
  ASSUME BackupTypes, NEW j \in Jobs
  PROVE  /\ \E S : job[j] \in JobRecords(S)
         /\ job[j].switched \in Nat /\ job[j].noted \in Nat /\ job[j].listed \in SUBSET Nat
  BY DEF BackupTypes, JobRecords

LEMMA JobsTyped ==
  ASSUME BackupTypes, NEW j \in Jobs, NEW S2, NEW e \in JobRecords(S2)
  PROVE  \E S : [job EXCEPT ![j] = e] \in [Jobs -> JobRecords(S)]
<1>1. PICK S : job \in [Jobs -> JobRecords(S)]
  BY DEF BackupTypes
<1>2. PICK U : U = S \cup S2
  OBVIOUS
<1>3. JobRecords(S) \subseteq JobRecords(U) /\ JobRecords(S2) \subseteq JobRecords(U)
  BY <1>2 DEF JobRecords
<1>4. [job EXCEPT ![j] = e] \in [Jobs -> JobRecords(U)]
  BY <1>1, <1>3
<1> QED
  BY <1>4

\* One job moves and no backup comes or goes: what the move must show.
LEMMA OneJobMoves ==
  ASSUME BackupsInv, NEW j \in Jobs, NEW e, \E S : e \in JobRecords(S),
         job' = [job EXCEPT ![j] = e], store' = store,
         wal' \in [open : Nat, archived : Nat], wal'.archived = wal.archived,
         pushing' # None => pushing'.id \in Nat \ {0} /\ pushing'.by \in Jobs,
         shelf' = [notes |-> shelf'.notes, selected |-> shelf'.selected, anew |-> shelf'.anew],
         \A id \in shelf'.notes : id \in shelf.notes
             \/ \E b \in store.taken : b.id = id /\ b.stop <= wal.archived,
         job[j].noted # 0 => e.noted = job[j].noted,
         JobKeeps(e)
  PROVE  BackupsInv'
<1> USE DEF BackupsInv
<1>1. BackupTypes'
  BY JobsTyped DEF BackupTypes
<1>2. EvidenceIsRestorable'
  BY DEF EvidenceIsRestorable
<1>3. DeletedIsCovered'
  <2>1. ASSUME NEW y \in Jobs, job[y].noted # 0
        PROVE  job'[y].noted = job[y].noted
    BY <2>1 DEF BackupTypes
  <2>2. ASSUME NEW b \in store.taken, b.id \notin store.kept
        PROVE  \E y \in Jobs :
                 /\ job'[y].noted # 0
                 /\ \/ job'[y].noted > b.id
                    \/ Cardinality({c \in store.taken : c.id > job'[y].noted}) >= Retain
    <3>1. PICK y \in Jobs :
            /\ job[y].noted # 0
            /\ \/ job[y].noted > b.id
               \/ Cardinality({c \in store.taken : c.id > job[y].noted}) >= Retain
      BY <2>2 DEF DeletedIsCovered
    <3>2. job'[y].noted = job[y].noted
      BY <3>1, <2>1
    <3> QED
      BY <3>1, <3>2
  <2> QED
    BY <2>2 DEF DeletedIsCovered
<1>4. ASSUME NEW y \in Jobs
      PROVE  JobKeeps(job[y])'
  <2>1. CASE y = j
    <3>1. job'[y] = e
      BY <2>1 DEF BackupTypes
    <3> QED
      BY <3>1 DEF JobKeeps, After
  <2>2. CASE y # j
    <3>1. job'[y] = job[y]
      BY <2>2 DEF BackupTypes
    <3> QED
      BY <3>1 DEF JobKeeps, After
  <2> QED
    BY <2>1, <2>2
<1> QED
  BY <1>1, <1>2, <1>3, <1>4

LEMMA NoJobMoves ==
  ASSUME BackupsInv, job' = job, store' = store,
         wal' \in [open : Nat, archived : Nat], wal'.archived >= wal.archived,
         pushing' # None => pushing'.id \in Nat \ {0} /\ pushing'.by \in Jobs,
         shelf' = [notes |-> shelf'.notes, selected |-> shelf'.selected, anew |-> shelf'.anew],
         shelf'.notes \subseteq shelf.notes
  PROVE  BackupsInv'
<1> USE DEF BackupsInv
<1>1. BackupTypes'
  BY DEF BackupTypes
<1>2. EvidenceIsRestorable'
  <2>1. \A b \in store.taken : b.stop <= wal.archived => b.stop <= wal'.archived
    BY DEF BackupTypes
  <2> QED
    BY <2>1 DEF EvidenceIsRestorable
<1>3. DeletedIsCovered'
  BY DEF DeletedIsCovered
<1>4. ASSUME NEW y \in Jobs
      PROVE  JobKeeps(job[y])'
  <2>1. PICK e : e = job[y]
    OBVIOUS
  <2>2. JobKeeps(e) /\ e.switched \in Nat
    BY <2>1, JobTyped
  <2>3. JobKeeps(e)'
    BY <1>1, <2>2, JobStays DEF BackupTypes
  <2>4. job'[y] = e
    BY <2>1
  <2> QED
    BY <2>3, <2>4 DEF JobKeeps, After
<1> QED
  BY <1>1, <1>2, <1>3, <1>4

LEMMA SegmentFillsStep ==
  ASSUME BackupsInv, SegmentFills
  PROVE  BackupsInv'
<1>1. wal' \in [open : Nat, archived : Nat] /\ wal'.archived = wal.archived
  BY DEF SegmentFills, BackupsInv, BackupTypes
<1> QED
  BY <1>1, NoJobMoves DEF SegmentFills, BackupsInv, BackupTypes

LEMMA ArchivesStep ==
  ASSUME BackupsInv, Archives
  PROVE  BackupsInv'
<1>1. wal' \in [open : Nat, archived : Nat] /\ wal'.archived >= wal.archived
  BY DEF Archives, BackupsInv, BackupTypes
<1> QED
  BY <1>1, NoJobMoves DEF Archives, BackupsInv, BackupTypes

LEMMA HostAnewStep ==
  ASSUME BackupsInv, HostAnew
  PROVE  BackupsInv'
  BY NoJobMoves DEF HostAnew, BackupsInv, BackupTypes

\* A job that keeps what it has may be moved on; what it has seen is its own.
LEMMA MovesOn ==
  ASSUME BackupsInv, NEW j \in Jobs, NEW to,
         to \in {"pushing", "pushed", "named", "archived", "observed", "selected", "created", "restored",
                 "passed"},
         to \in Unnoted => job[j].at \in Unnoted,
         to \in Noted => job[j].at \in Noted,
         to = "archived" => job[j].switched <= wal.archived
  PROVE  \E e : /\ \E S : e \in JobRecords(S)
                /\ e = [job[j] EXCEPT !.at = to]
                /\ e.noted = job[j].noted /\ JobKeeps(e)
<1>1. PICK S : job[j] \in JobRecords(S)
  BY JobTyped DEF BackupsInv
<1>2. PICK e : e = [job[j] EXCEPT !.at = to]
  OBVIOUS
<1>3. /\ e \in JobRecords(S) /\ e.at = to
      /\ e.noted = job[j].noted /\ e.switched = job[j].switched
  BY <1>1, <1>2 DEF JobRecords
<1>4. JobKeeps(e)
  BY <1>3 DEF BackupsInv, JobKeeps, Unnoted, Noted
<1> QED
  BY <1>2, <1>3, <1>4

LEMMA PushesStep ==
  ASSUME BackupsInv, NEW j \in Jobs, Pushes(j)
  PROVE  BackupsInv'
<1>1. PICK e : /\ \E S : e \in JobRecords(S)
               /\ e = [job[j] EXCEPT !.at = "pushing"] /\ e.noted = job[j].noted /\ JobKeeps(e)
  BY MovesOn DEF Pushes, Goes, Unnoted, Noted
<1>2. job' = [job EXCEPT ![j] = e]
  BY <1>1 DEF Pushes, Goes
<1>3. wal' \in [open : Nat, archived : Nat] /\ wal'.archived = wal.archived
  BY DEF Pushes, BackupsInv, BackupTypes
<1>4. pushing'.id \in Nat \ {0} /\ pushing'.by \in Jobs
  BY DEF Pushes, BackupsInv, BackupTypes
<1>5. /\ shelf' = [notes |-> shelf'.notes, selected |-> shelf'.selected, anew |-> shelf'.anew]
      /\ shelf'.notes = shelf.notes /\ store' = store
  BY DEF Pushes, BackupsInv, BackupTypes
<1> QED
  BY <1>1, <1>2, <1>3, <1>4, <1>5, OneJobMoves

LEMMA NamesLastStep ==
  ASSUME BackupsInv, NEW j \in Jobs, NamesLast(j)
  PROVE  BackupsInv'
<1>1. PICK S : job[j] \in JobRecords(S)
  BY JobTyped DEF BackupsInv
<1>2. PICK n : n = Max(store.kept)
  OBVIOUS
<1>3. PICK e : e = [[job[j] EXCEPT !.at = "named"] EXCEPT !.id = n]
  OBVIOUS
<1>4. e \in JobRecords(S \cup {n}) /\ e.at = "named" /\ e.noted = job[j].noted
  BY <1>1, <1>3 DEF JobRecords
<1>5. job[j].at = "pushed" /\ JobKeeps(job[j])
  BY DEF NamesLast, BackupsInv
<1>6. JobKeeps(e)
  BY <1>4, <1>5 DEF JobKeeps, Unnoted, Noted
<1>7. job' = [job EXCEPT ![j] = e]
  BY <1>2, <1>3, <1>1 DEF NamesLast, JobRecords
<1> QED
  BY <1>4, <1>6, <1>7, OneJobMoves DEF NamesLast, BackupsInv, BackupTypes

LEMMA SwitchesWalStep ==
  ASSUME BackupsInv, NEW j \in Jobs, SwitchesWal(j)
  PROVE  BackupsInv'
<1>1. PICK S : job[j] \in JobRecords(S)
  BY JobTyped DEF BackupsInv
<1>2. PICK n \in Nat : n = wal.open
  BY DEF BackupsInv, BackupTypes
<1>3. PICK e : e = [[job[j] EXCEPT !.at = "switched"] EXCEPT !.switched = n]
  OBVIOUS
<1>4. e \in JobRecords(S) /\ e.at = "switched" /\ e.noted = job[j].noted
  BY <1>1, <1>3 DEF JobRecords
<1>5. job[j].at = "named" /\ JobKeeps(job[j])
  BY DEF SwitchesWal, BackupsInv
<1>6. JobKeeps(e)
  BY <1>4, <1>5 DEF JobKeeps, Unnoted, Noted
<1>7. job' = [job EXCEPT ![j] = e]
  BY <1>2, <1>3, <1>1 DEF SwitchesWal, JobRecords
<1>8. wal' \in [open : Nat, archived : Nat] /\ wal'.archived = wal.archived
  BY DEF SwitchesWal, BackupsInv, BackupTypes
<1> QED
  BY <1>4, <1>6, <1>7, <1>8, OneJobMoves DEF SwitchesWal, BackupsInv, BackupTypes

LEMMA ObservesArchivedStep ==
  ASSUME BackupsInv, NEW j \in Jobs, ObservesArchived(j)
  PROVE  BackupsInv'
<1>1. job[j].switched <= wal.archived
  BY JobTyped DEF ObservesArchived, SeesArchived, BackupsInv, BackupTypes
<1>2. PICK e : /\ \E S : e \in JobRecords(S)
               /\ e = [job[j] EXCEPT !.at = "archived"] /\ e.noted = job[j].noted /\ JobKeeps(e)
  BY <1>1, MovesOn DEF ObservesArchived, Goes, Unnoted, Noted
<1>3. job' = [job EXCEPT ![j] = e]
  BY <1>2 DEF ObservesArchived, Goes
<1> QED
  BY <1>2, <1>3, OneJobMoves DEF ObservesArchived, BackupsInv, BackupTypes

LEMMA ListsInventoryStep ==
  ASSUME BackupsInv, NEW j \in Jobs, ListsInventory(j)
  PROVE  BackupsInv'
<1>1. PICK S : job[j] \in JobRecords(S)
  BY JobTyped DEF BackupsInv
<1>2. PICK L : L = store.kept
  OBVIOUS
<1>3. L \in SUBSET Nat
  BY <1>2 DEF BackupsInv, BackupTypes
<1>4. PICK e : e = [[job[j] EXCEPT !.at = "listed"] EXCEPT !.listed = L]
  OBVIOUS
<1>5. /\ e \in JobRecords(S) /\ e.at = "listed" /\ e.noted = job[j].noted
      /\ e.id = job[j].id /\ e.switched = job[j].switched /\ e.listed = L
  BY <1>1, <1>3, <1>4 DEF JobRecords
<1>6. job[j].at = "archived" /\ JobKeeps(job[j]) /\ job[j].id \in L
  BY <1>2 DEF ListsInventory, BackupsInv
<1>7. \E b \in store.taken : b.id = e.id /\ b.stop <= e.switched
  <2>1. \E b \in store.taken : b.id = job[j].id
    BY DEF ListsInventory, BackupsInv, BackupTypes
  <2>2. Backup(job[j].id) \in store.taken /\ Backup(job[j].id).id = job[j].id
    BY <2>1 DEF Backup
  <2>3. Backup(job[j].id).stop \in Nat /\ job[j].switched \in Nat
    BY <2>2, JobTyped DEF BackupsInv, BackupTypes
  <2> QED
    BY <1>5, <2>2, <2>3 DEF ListsInventory
<1>8. JobKeeps(e)
  BY <1>5, <1>6, <1>7 DEF JobKeeps, Unnoted, Noted
<1>9. job' = [job EXCEPT ![j] = e]
  BY <1>1, <1>2, <1>4 DEF ListsInventory, JobRecords
<1> QED
  BY <1>5, <1>8, <1>9, OneJobMoves DEF ListsInventory, BackupsInv, BackupTypes

LEMMA WritesEvidenceStep ==
  ASSUME BackupsInv, NEW j \in Jobs, WritesEvidence(j)
  PROVE  BackupsInv'
<1>1. PICK n : n = job[j].id
  OBVIOUS
<1>2. job[j].at = "listed" /\ job[j].listed \subseteq store.kept /\ JobKeeps(job[j])
  BY DEF WritesEvidence, BackupsInv
<1>3. n \in store.kept /\ n \in Nat \ {0}
  BY <1>1, <1>2 DEF JobKeeps, BackupsInv, BackupTypes
<1>4. PICK e : e = [Fresh EXCEPT !.at = "noted", !.noted = n]
  OBVIOUS
<1>5. e \in JobRecords({0}) /\ e.at = "noted" /\ e.noted = n
  BY <1>3, <1>4 DEF JobRecords, Fresh
<1>6. JobKeeps(e)
  BY <1>3, <1>5 DEF JobKeeps, Unnoted, Noted
<1>7. job[j].noted = 0
  BY <1>2 DEF JobKeeps, Unnoted
<1>8. \E b \in store.taken : b.id = n /\ b.stop <= wal.archived
  <2>1. PICK b \in store.taken : b.id = n /\ b.stop <= job[j].switched
    BY <1>1, <1>2 DEF JobKeeps
  <2>2. job[j].switched <= wal.archived
    BY <1>2 DEF JobKeeps
  <2>3. b.stop \in Nat /\ job[j].switched \in Nat /\ wal.archived \in Nat
    BY JobTyped DEF BackupsInv, BackupTypes
  <2> QED
    BY <2>1, <2>2, <2>3
<1>9. job' = [job EXCEPT ![j] = e]
  BY <1>1, <1>4 DEF WritesEvidence
<1>10. /\ shelf' = [notes |-> shelf'.notes, selected |-> shelf'.selected, anew |-> shelf'.anew]
       /\ shelf'.notes = shelf.notes \cup {n}
  BY <1>1 DEF WritesEvidence, BackupsInv, BackupTypes
<1>11. \A id \in shelf'.notes : id \in shelf.notes
          \/ \E b \in store.taken : b.id = id /\ b.stop <= wal.archived
  BY <1>8, <1>10
<1>12. /\ store' = store /\ pushing' = pushing /\ wal' = wal
       /\ wal \in [open : Nat, archived : Nat]
       /\ pushing # None => pushing.id \in Nat \ {0} /\ pushing.by \in Jobs
  BY DEF WritesEvidence, BackupsInv, BackupTypes
<1>13. \E S : e \in JobRecords(S)
  BY <1>5
<1> QED
  BY <1>6, <1>7, <1>9, <1>10, <1>11, <1>12, <1>13, OneJobMoves

LEMMA PublishesSelectedStep ==
  ASSUME BackupsInv, NEW j \in Jobs, PublishesSelected(j)
  PROVE  BackupsInv'
<1>1. PICK e : /\ \E S : e \in JobRecords(S)
               /\ e = [job[j] EXCEPT !.at = "selected"] /\ e.noted = job[j].noted /\ JobKeeps(e)
  BY MovesOn DEF PublishesSelected, Goes, Unnoted, Noted
<1>2. job' = [job EXCEPT ![j] = e]
  BY <1>1 DEF PublishesSelected, Goes
<1>3. /\ shelf' = [notes |-> shelf'.notes, selected |-> shelf'.selected, anew |-> shelf'.anew]
      /\ shelf'.notes = shelf.notes
  BY DEF PublishesSelected, BackupsInv, BackupTypes
<1> QED
  BY <1>1, <1>2, <1>3, OneJobMoves DEF PublishesSelected, BackupsInv, BackupTypes

LEMMA ObservesSealedStep ==
  ASSUME BackupsInv, NEW j \in Jobs, ObservesSealed(j)
  PROVE  BackupsInv'
<1>1. PICK e : /\ \E S : e \in JobRecords(S)
               /\ e = [job[j] EXCEPT !.at = "observed"] /\ e.noted = job[j].noted /\ JobKeeps(e)
  BY MovesOn DEF ObservesSealed, Goes, Unnoted, Noted
<1>2. job' = [job EXCEPT ![j] = e]
  BY <1>1 DEF ObservesSealed, Goes
<1> QED
  BY <1>1, <1>2, OneJobMoves DEF ObservesSealed, BackupsInv, BackupTypes

LEMMA InspectsVolumeStep ==
  ASSUME BackupsInv, NEW j \in Jobs, InspectsVolume(j)
  PROVE  BackupsInv'
<1>1. PICK S : job[j] \in JobRecords(S)
  BY JobTyped DEF BackupsInv
<1>2. PICK n : n = shelf.selected
  OBVIOUS
<1>3. PICK e : e = [[job[j] EXCEPT !.at = "absent"] EXCEPT !.bound = n]
  OBVIOUS
<1>4. e \in JobRecords(S \cup {n}) /\ e.at = "absent" /\ e.noted = job[j].noted
  BY <1>1, <1>3 DEF JobRecords
<1>5. job[j].at = "observed" /\ JobKeeps(job[j])
  BY DEF InspectsVolume, BackupsInv
<1>6. JobKeeps(e)
  BY <1>4, <1>5 DEF JobKeeps, Unnoted, Noted
<1>7. job' = [job EXCEPT ![j] = e]
  BY <1>2, <1>3, <1>1 DEF InspectsVolume, JobRecords
<1> QED
  BY <1>4, <1>6, <1>7, OneJobMoves DEF InspectsVolume, BackupsInv, BackupTypes

LEMMA CreatesVolumeStep ==
  ASSUME BackupsInv, NEW j \in Jobs, CreatesVolume(j)
  PROVE  BackupsInv'
<1>1. PICK e : /\ \E S : e \in JobRecords(S)
               /\ e = [job[j] EXCEPT !.at = "created"] /\ e.noted = job[j].noted /\ JobKeeps(e)
  BY MovesOn DEF CreatesVolume, Goes, Unnoted, Noted
<1>2. job' = [job EXCEPT ![j] = e]
  BY <1>1 DEF CreatesVolume, Goes
<1> QED
  BY <1>1, <1>2, OneJobMoves DEF CreatesVolume, BackupsInv, BackupTypes

LEMMA RestoresStep ==
  ASSUME BackupsInv, NEW j \in Jobs, Restores(j)
  PROVE  BackupsInv'
<1>1. PICK e : /\ \E S : e \in JobRecords(S)
               /\ e = [job[j] EXCEPT !.at = "restored"] /\ e.noted = job[j].noted /\ JobKeeps(e)
  BY MovesOn DEF Restores, Goes, Unnoted, Noted
<1>2. job' = [job EXCEPT ![j] = e]
  BY <1>1 DEF Restores, Goes
<1> QED
  BY <1>1, <1>2, OneJobMoves DEF Restores, BackupsInv, BackupTypes

LEMMA VerifiesStep ==
  ASSUME BackupsInv, NEW j \in Jobs, Verifies(j)
  PROVE  BackupsInv'
<1>1. PICK S : job[j] \in JobRecords(S)
  BY JobTyped DEF BackupsInv
<1>2. PICK n : n = volume
  OBVIOUS
<1>3. PICK e : e = [[job[j] EXCEPT !.at = "verified"] EXCEPT !.seen = n]
  OBVIOUS
<1>4. e \in JobRecords(S \cup {n}) /\ e.at = "verified" /\ e.noted = job[j].noted
  BY <1>1, <1>3 DEF JobRecords
<1>5. job[j].at = "restored" /\ JobKeeps(job[j])
  BY DEF Verifies, BackupsInv
<1>6. JobKeeps(e)
  BY <1>4, <1>5 DEF JobKeeps, Unnoted, Noted
<1>7. job' = [job EXCEPT ![j] = e]
  BY <1>2, <1>3, <1>1 DEF Verifies, JobRecords
<1> QED
  BY <1>4, <1>6, <1>7, OneJobMoves DEF Verifies, BackupsInv, BackupTypes

\* A job that has ended keeps only what it has noted.
LEMMA JobEnds ==
  ASSUME BackupsInv, NEW j \in Jobs, NEW to, to \in {"failed", "killed"},
         job' = [job EXCEPT ![j] = [Fresh EXCEPT !.at = to, !.noted = job[j].noted]],
         UNCHANGED <<store, pushing, wal, shelf>>
  PROVE  BackupsInv'
<1>1. PICK n \in Nat : n = job[j].noted
  BY JobTyped DEF BackupsInv
<1>2. PICK e : e = [Fresh EXCEPT !.at = to, !.noted = n]
  OBVIOUS
<1>3. e \in JobRecords({0}) /\ e.at = to /\ e.noted = n
  BY <1>1, <1>2 DEF JobRecords, Fresh
<1>4. JobKeeps(job[j])
  BY DEF BackupsInv
<1>5. JobKeeps(e)
  BY <1>1, <1>3, <1>4 DEF JobKeeps, Unnoted, Noted
<1>6. job' = [job EXCEPT ![j] = e]
  BY <1>1, <1>2
<1> QED
  BY <1>1, <1>3, <1>5, <1>6, OneJobMoves DEF BackupsInv, BackupTypes

LEMMA JobFailsStep ==
  ASSUME BackupsInv, NEW j \in Jobs, JobFails(j)
  PROVE  BackupsInv'
  BY JobEnds DEF JobFails

LEMMA JobDiesStep ==
  ASSUME BackupsInv, NEW j \in Jobs, JobDies(j)
  PROVE  BackupsInv'
  BY JobEnds DEF JobDies

LEMMA PushEndsStep ==
  ASSUME BackupsInv, PushEnds
  PROVE  BackupsInv'
<1>1. PICK by \in Jobs, id \in Nat \ {0} : by = pushing.by /\ id = pushing.id
  BY DEF PushEnds, BackupsInv, BackupTypes
<1>2. \/ job' = job
      \/ \E to \in {"pushed", "failed"} : job[by].at = "pushing" /\ job' = [job EXCEPT ![by].at = to]
  BY <1>1 DEF PushEnds
<1>3. pushing' = None /\ shelf' = shelf
  BY DEF PushEnds
<1>4. \/ store' = store /\ wal' = wal
      \/ /\ store' = [taken |-> store.taken \cup {[id |-> id, stop |-> wal.open]},
                      kept |-> store.kept \cup {id}]
         /\ wal' = [wal EXCEPT !.open = @ + 1]
  BY <1>1 DEF PushEnds
<1>5. /\ store'.taken \subseteq [id : Nat \ {0}, stop : Nat] /\ IsFiniteSet(store'.taken)
      /\ store'.kept \subseteq {b.id : b \in store'.taken}
      /\ store' = [taken |-> store'.taken, kept |-> store'.kept]
      /\ store.taken \subseteq store'.taken /\ store.kept \subseteq store'.kept
      /\ \A b \in store'.taken : b \in store.taken \/ b.id \in store'.kept
  <2>1. CASE store' = store
    BY <2>1 DEF BackupsInv, BackupTypes
  <2>2. CASE store' = [taken |-> store.taken \cup {[id |-> id, stop |-> wal.open]},
                       kept |-> store.kept \cup {id}]
    <3>1. PICK b : b = [id |-> id, stop |-> wal.open]
      OBVIOUS
    <3>2. b \in [id : Nat \ {0}, stop : Nat] /\ b.id = id
      BY <1>1, <3>1 DEF BackupsInv, BackupTypes
    <3>3. store'.taken = store.taken \cup {b} /\ store'.kept = store.kept \cup {id}
      BY <2>2, <3>1
    <3>4. IsFiniteSet(store'.taken)
      BY <3>3, FS_AddElement DEF BackupsInv, BackupTypes
    <3>5. store'.kept \subseteq {c.id : c \in store'.taken}
      BY <3>2, <3>3 DEF BackupsInv, BackupTypes
    <3> QED
      BY <2>2, <3>2, <3>3, <3>4, <3>5 DEF BackupsInv, BackupTypes
  <2> QED
    BY <1>4, <2>1, <2>2
<1>6. wal' \in [open : Nat, archived : Nat] /\ wal'.archived = wal.archived
  BY <1>4 DEF BackupsInv, BackupTypes
<1>7. /\ \E S : job' \in [Jobs -> JobRecords(S)]
      /\ \A y \in Jobs : job'[y].noted = job[y].noted
      /\ \A y \in Jobs : \E e : job'[y] = e /\ JobKeeps(e) /\ e.switched \in Nat
  <2>1. CASE job' = job
    BY <2>1, JobTyped DEF BackupsInv, BackupTypes
  <2>2. ASSUME NEW to \in {"pushed", "failed"}, job[by].at = "pushing",
               job' = [job EXCEPT ![by].at = to]
        PROVE  /\ \E S : job' \in [Jobs -> JobRecords(S)]
               /\ \A y \in Jobs : job'[y].noted = job[y].noted
               /\ \A y \in Jobs : \E e : job'[y] = e /\ JobKeeps(e) /\ e.switched \in Nat
    <3>1. PICK S : job \in [Jobs -> JobRecords(S)]
      BY DEF BackupsInv, BackupTypes
    <3>2. PICK e : e = [job[by] EXCEPT !.at = to]
      OBVIOUS
    <3>3. /\ e \in JobRecords(S) /\ e.at = to /\ e.noted = job[by].noted
          /\ e.switched \in Nat
      BY <3>1, <3>2 DEF JobRecords
    <3>4. job' = [job EXCEPT ![by] = e]
      BY <2>2, <3>2
    <3>5. job' \in [Jobs -> JobRecords(S)]
      BY <3>1, <3>3, <3>4
    <3>6. JobKeeps(e)
      BY <2>2, <3>3 DEF BackupsInv, JobKeeps, Unnoted, Noted
    <3>7. \A y \in Jobs : y # by => job'[y] = job[y]
      BY <3>1, <3>4
    <3>8. job'[by] = e
      BY <3>1, <3>4
    <3>9. \A y \in Jobs : job'[y].noted = job[y].noted
      BY <3>3, <3>7, <3>8
    <3>10. ASSUME NEW y \in Jobs
           PROVE  \E f : job'[y] = f /\ JobKeeps(f) /\ f.switched \in Nat
      <4>1. CASE y = by
        BY <4>1, <3>3, <3>6, <3>8
      <4>2. CASE y # by
        BY <4>2, <3>7, JobTyped DEF BackupsInv
      <4> QED
        BY <4>1, <4>2
    <3> QED
      BY <3>5, <3>9, <3>10
  <2> QED
    BY <1>2, <2>1, <2>2
<1>8. BackupTypes'
  BY <1>3, <1>5, <1>6, <1>7 DEF BackupsInv, BackupTypes
<1>9. EvidenceIsRestorable'
  <2>1. \A id2 \in shelf.notes : \E b \in store.taken : b.id = id2 /\ b.stop <= wal.archived
    BY DEF BackupsInv, EvidenceIsRestorable
  <2> QED
    BY <1>3, <1>5, <1>6, <2>1 DEF EvidenceIsRestorable
<1>10. DeletedIsCovered'
  <2>1. ASSUME NEW b \in store'.taken, b.id \notin store'.kept
        PROVE  \E y \in Jobs :
                 /\ job'[y].noted # 0
                 /\ \/ job'[y].noted > b.id
                    \/ Cardinality({c \in store'.taken : c.id > job'[y].noted}) >= Retain
    <3>1. b \in store.taken /\ b.id \notin store.kept
      BY <1>5, <2>1
    <3>2. PICK y \in Jobs :
            /\ job[y].noted # 0
            /\ \/ job[y].noted > b.id
               \/ Cardinality({c \in store.taken : c.id > job[y].noted}) >= Retain
      BY <3>1 DEF BackupsInv, DeletedIsCovered
    <3>3. PICK n : n = job[y].noted
      OBVIOUS
    <3>4. job'[y].noted = n
      BY <1>7, <3>3
    <3>5. Cardinality(After(n)) >= Retain => Cardinality(After(n)') >= Retain
      BY <1>5, <1>8, AfterGrows DEF BackupsInv
    <3>6. After(n) = {c \in store.taken : c.id > n} /\ After(n)' = {c \in store'.taken : c.id > n}
      BY DEF After
    <3> QED
      BY <3>2, <3>3, <3>4, <3>5, <3>6
  <2> QED
    BY <2>1 DEF DeletedIsCovered
<1>11. ASSUME NEW y \in Jobs
       PROVE  JobKeeps(job[y])'
  <2>1. PICK e : job'[y] = e /\ JobKeeps(e) /\ e.switched \in Nat
    BY <1>7
  <2>2. wal.archived <= wal'.archived
    BY <1>6 DEF BackupsInv, BackupTypes
  <2>3. JobKeeps(e)'
    BY <1>5, <1>8, <2>1, <2>2, JobStays DEF BackupsInv
  <2> QED
    BY <2>1, <2>3 DEF JobKeeps, After
<1> QED
  BY <1>8, <1>9, <1>10, <1>11 DEF BackupsInv

\* What is deleted has enough behind it: for the jobs whose backup it was, and for
\* those that look for the evidence of a later one.
LEMMA RetainsStep ==
  ASSUME BackupsInv, NEW j \in Jobs, Retains(j)
  PROVE  BackupsInv'
<1>1. PICK e : /\ \E S : e \in JobRecords(S)
               /\ e = [job[j] EXCEPT !.at = "passed"] /\ e.noted = job[j].noted /\ JobKeeps(e)
  BY MovesOn DEF Retains, Authorized, Unnoted, Noted
<1>2. job' = [job EXCEPT ![j] = e]
  BY <1>1 DEF Retains
<1>3. /\ store'.taken = store.taken /\ store'.kept = Newest
      /\ store' = [taken |-> store'.taken, kept |-> store'.kept]
  BY DEF Retains, BackupsInv, BackupTypes
<1>4. wal' = wal /\ pushing' = pushing /\ shelf' = shelf
  BY DEF Retains
<1>5. BackupTypes'
  <2>1. \E S : job' \in [Jobs -> JobRecords(S)]
    BY <1>1, <1>2, JobsTyped DEF BackupsInv
  <2>2. store'.kept \subseteq {b.id : b \in store'.taken}
    BY <1>3 DEF Newest, BackupsInv, BackupTypes
  <2> QED
    BY <1>3, <1>4, <2>1, <2>2 DEF BackupsInv, BackupTypes
<1>6. EvidenceIsRestorable'
  BY <1>3, <1>4 DEF BackupsInv, EvidenceIsRestorable
<1>7. \A n : After(n)' = After(n)
  BY <1>3 DEF After
<1>8. ASSUME NEW n \in store.kept, n \notin store'.kept
      PROVE  n \in Nat /\ Cardinality(After(n)) >= Retain
  <2>1. n \in Nat
    BY DEF BackupsInv, BackupTypes
  <2>2. ~(Cardinality({k \in store.kept : k > n}) < Retain)
    BY <1>3, <1>8 DEF Newest
  <2>3. Cardinality({k \in store.kept : k > n}) \in Nat
    <3>1. {k \in store.kept : k > n} \in SUBSET store.kept
      OBVIOUS
    <3>2. IsFiniteSet(store.kept)
      <4>1. PICK f : f = [b \in store.taken |-> b.id]
        OBVIOUS
      <4>2. PICK T : T = {b.id : b \in store.taken}
        OBVIOUS
      <4>3. f \in Surjection(store.taken, T)
        BY <4>1, <4>2 DEF Surjection
      <4>4. IsFiniteSet(T)
        BY <4>3, FS_Surjection DEF BackupsInv, BackupTypes
      <4> QED
        BY <4>2, <4>4, FS_Subset DEF BackupsInv, BackupTypes
    <3> QED
      BY <3>1, <3>2, FS_Subset, FS_CardinalityType
  <2>4. Cardinality({k \in store.kept : k > n}) >= Retain
    BY <2>2, <2>3, BackupsAssumption
  <2> QED
    BY <2>1, <2>4, KeptWereTaken DEF BackupsInv
<1>9. ASSUME NEW y \in Jobs
      PROVE  job'[y].noted = job[y].noted
  BY <1>1, <1>2 DEF BackupsInv, BackupTypes
<1>10. job[j].noted # 0 /\ job[j].noted \in Nat
  BY JobTyped DEF Retains, Authorized, BackupsInv, JobKeeps, Noted
<1>11. DeletedIsCovered'
  <2>1. ASSUME NEW b \in store.taken, b.id \notin store'.kept
        PROVE  \E y \in Jobs :
                 /\ job[y].noted # 0
                 /\ job[y].noted > b.id \/ Cardinality(After(job[y].noted)) >= Retain
    <3>1. CASE b.id \notin store.kept
      BY <3>1 DEF BackupsInv, DeletedIsCovered, After
    <3>2. CASE b.id \in store.kept
      <4>1. b.id \in Nat /\ Cardinality(After(b.id)) >= Retain
        BY <2>1, <3>2, <1>8
      <4>2. CASE job[j].noted > b.id
        BY <1>10, <4>2
      <4>3. CASE ~(job[j].noted > b.id)
        <5>1. job[j].noted <= b.id
          BY <1>10, <4>1, <4>3
        <5>2. After(b.id) \in SUBSET After(job[j].noted)
          BY <1>10, <4>1, <5>1 DEF After, BackupsInv, BackupTypes
        <5>3. IsFiniteSet(After(job[j].noted)) /\ Cardinality(After(job[j].noted)) \in Nat
          BY AfterCounts DEF BackupsInv
        <5>4. Cardinality(After(b.id)) <= Cardinality(After(job[j].noted))
          BY <5>2, <5>3, FS_Subset
        <5>5. Cardinality(After(b.id)) \in Nat
          BY AfterCounts DEF BackupsInv
        <5>6. Cardinality(After(job[j].noted)) >= Retain
          BY <4>1, <5>3, <5>4, <5>5, BackupsAssumption
        <5> QED
          BY <1>10, <5>6
      <4> QED
        BY <4>2, <4>3
    <3> QED
      BY <3>1, <3>2
  <2>2. ASSUME NEW b \in store.taken, b.id \notin store'.kept
        PROVE  \E y \in Jobs :
                 /\ job'[y].noted # 0
                 /\ \/ job'[y].noted > b.id
                    \/ Cardinality({c \in store.taken : c.id > job'[y].noted}) >= Retain
    <3>1. PICK y \in Jobs :
             /\ job[y].noted # 0
             /\ job[y].noted > b.id \/ Cardinality(After(job[y].noted)) >= Retain
      BY <2>1, <2>2
    <3>2. After(job[y].noted) = {c \in store.taken : c.id > job'[y].noted}
      BY <1>9 DEF After
    <3> QED
      BY <3>1, <3>2, <1>9
  <2> QED
    BY <1>3, <2>2 DEF DeletedIsCovered
<1>12. ASSUME NEW y \in Jobs
       PROVE  JobKeeps(job[y])'
  <2>1. PICK f : f = job'[y]
    OBVIOUS
  <2>2. JobKeeps(f)
    <3>1. CASE y = j
      BY <1>1, <1>2, <2>1, <3>1 DEF BackupsInv, BackupTypes
    <3>2. CASE y # j
      BY <1>2, <2>1, <3>2 DEF BackupsInv, BackupTypes
    <3> QED
      BY <3>1, <3>2
  <2>3. f.noted # 0 => f.noted \in store'.kept \/ Cardinality(After(f.noted)) >= Retain
    BY <1>8, <2>2 DEF JobKeeps
  <2>4. After(f.noted)' = After(f.noted)
    BY <1>3 DEF After
  <2>5. JobKeeps(f)'
    BY <1>3, <1>4, <2>2, <2>3, <2>4 DEF JobKeeps
  <2> QED
    BY <2>1, <2>5 DEF JobKeeps, After
<1> QED
  BY <1>5, <1>6, <1>11, <1>12 DEF BackupsInv

LEMMA BackupsNextInv ==
  ASSUME BackupsInv, [BackupsNext]_backupsVars
  PROVE  BackupsInv'
<1>1. CASE UNCHANGED backupsVars
  BY <1>1 DEF backupsVars, BackupsInv, BackupTypes, EvidenceIsRestorable, DeletedIsCovered, JobKeeps, After
<1>2. CASE SegmentFills \/ Archives \/ PushEnds \/ HostAnew
  BY <1>2, SegmentFillsStep, ArchivesStep, PushEndsStep, HostAnewStep
<1>3. ASSUME NEW j \in Jobs, BackupStep(j)
      PROVE  BackupsInv'
  BY <1>3, PushesStep, NamesLastStep, SwitchesWalStep, ObservesArchivedStep, ListsInventoryStep,
     WritesEvidenceStep, PublishesSelectedStep, ObservesSealedStep, InspectsVolumeStep,
     CreatesVolumeStep, RestoresStep, VerifiesStep, RetainsStep, JobFailsStep, JobDiesStep
     DEF BackupStep
<1> QED
  BY <1>1, <1>2, <1>3 DEF BackupsNext

\* Whatever the timer, the pilots, the archiver and a new host do in whatever order, and
\* however many backups there are: a backup has evidence only when it is complete and its log
\* is archived (waitForArchivedWal and the inventory before the evidence), and retention
\* deletes only what later backups with evidence cover (authorizeBackupRetention).
THEOREM BackupsKeepTheirPromise == BackupsSpec => []BackupsPromise
  BY BackupsInitInv, BackupsNextInv, BackupsInvImplies, PTL DEF BackupsSpec

(***************************************************************************)
(* RestorePromise holds of any number of pilots while the host is prepared *)
(* anew at most once: at most one pilot left from before restores beside   *)
(* one of the host prepared anew, whose choice is what is selected, and    *)
(* the volume that the later one filled is not restored over.              *)
(***************************************************************************)

\* From its choice on a pilot restores, and from its look at the volume it is bound.
Under == {"selected", "observed", "absent", "created", "restored", "verified"}
Bounds == {"absent", "created", "restored", "verified", "passed"}
Restoring(j) == job[j].at \in Under

\* What a pilot restores is what its evidence says; what it sees may be what a pilot of
\* the host prepared anew has restored, which is what is selected now.
RestoreKeeps(j) ==
  /\ Restoring(j) => j \in PilotJobs
  /\ j \in PilotJobs => job[j].bound = IF job[j].at \in Bounds THEN job[j].noted ELSE 0
  /\ j \in PilotJobs /\ job[j].at = "passed" => job[j].seen = job[j].noted
  /\ job[j].at = "restored" => volume \in {None, 0, job[j].noted, shelf.selected}
  /\ job[j].at = "verified" =>
       job[j].seen = job[j].noted
       \/ (shelf.anew # 0 /\ shelf.selected # None /\ shelf.selected = job[j].seen)
  /\ shelf.anew = 0 /\ j \in PilotJobs /\ job[j].at \in Under \cup {"passed"} =>
       shelf.selected = job[j].noted

\* At most two restore, one of them on the host prepared anew.
TwoAtMost ==
  /\ \A p, q \in Jobs : Restoring(p) /\ Restoring(q) /\ p # q =>
       shelf.anew # 0 /\ shelf.selected \in {job[p].noted, job[q].noted}
  /\ \E x, y : {j \in Jobs : Restoring(j)} \subseteq {x, y}

\* What the later one has restored the earlier one does not restore over.
Unspoiled ==
  \A p, q \in Jobs :
    /\ p # q /\ job[p].at = "restored" /\ job[p].noted = shelf.selected
    /\ Restoring(q) /\ job[q].noted # shelf.selected
    => volume # 0 /\ (volume = None => job[q].at # "absent")

RestoreInv ==
  BackupsInv /\ shelf.anew \in Nat /\ (\A j \in Jobs : RestoreKeeps(j)) /\ TwoAtMost /\ Unspoiled

LEMMA RestoreInvImplies ==
  ASSUME RestoreInv
  PROVE  RestorePromise
<1>1. PassedIsRestored
  BY DEF RestoreInv, RestoreKeeps, PassedIsRestored, Bounds, Jobs
<1>2. \A p \in PilotJobs : job[p].at = "passed" /\ shelf.anew = 0 => shelf.selected = job[p].noted
  BY DEF RestoreInv, RestoreKeeps, Jobs
<1>3. PICK S : S = {p \in PilotJobs : job[p].at \notin Ended /\ job[p].bound # 0}
  OBVIOUS
<1>4. PICK T : T = {j \in Jobs : Restoring(j)}
  OBVIOUS
<1>5. S \subseteq T
  BY <1>3, <1>4 DEF RestoreInv, RestoreKeeps, Restoring, Bounds, Under, Ended, Jobs
<1>6. PICK x, y : T \subseteq {x, y}
  BY <1>4 DEF RestoreInv, TwoAtMost
<1>7. /\ IsFiniteSet({x, y}) /\ IsFiniteSet({x}) /\ Cardinality({x}) = 1
      /\ Cardinality({x, y}) \in Nat /\ Cardinality({x, y}) <= 2
  <2>1. IsFiniteSet({x}) /\ Cardinality({x}) = 1
    BY FS_Singleton
  <2>2. {x, y} = {x} \cup {y}
    OBVIOUS
  <2>3. /\ IsFiniteSet({x} \cup {y})
        /\ Cardinality({x} \cup {y}) = IF y \in {x} THEN Cardinality({x}) ELSE Cardinality({x}) + 1
    BY <2>1, FS_AddElement
  <2> QED
    BY <2>1, <2>2, <2>3
<1>8. CASE shelf.anew = 0
  <2>1. \A p, q \in T : p = q
    BY <1>4, <1>8 DEF RestoreInv, TwoAtMost
  <2>2. PICK z : S \subseteq {z}
    BY <1>5, <2>1
  <2>3. Cardinality(S) <= 1
    <3>1. IsFiniteSet({z}) /\ Cardinality({z}) = 1
      BY FS_Singleton
    <3> QED
      BY <2>2, <3>1, FS_Subset
  <2> QED
    BY <1>1, <1>2, <1>3, <1>8, <2>3 DEF RestorePromise, OneSelects
<1>9. CASE shelf.anew # 0
  <2>1. S \in SUBSET {x, y}
    BY <1>5, <1>6
  <2>2. Cardinality(S) \in Nat /\ Cardinality(S) <= Cardinality({x, y})
    BY <1>7, <2>1, FS_Subset, FS_CardinalityType
  <2>3. Cardinality(S) <= 1 + shelf.anew
    BY <1>7, <1>9, <2>2 DEF RestoreInv
  <2> QED
    BY <1>1, <1>2, <1>3, <2>3 DEF RestorePromise, OneSelects
<1> QED
  BY <1>8, <1>9

LEMMA RestoreInitInv ==
  ASSUME BackupsInit
  PROVE  RestoreInv
<1>1. \A j \in Jobs : job[j].at = "idle" /\ job[j].bound = 0
  BY DEF BackupsInit, Fresh
<1>2. \A j \in Jobs : RestoreKeeps(j)
  BY <1>1 DEF RestoreKeeps, Restoring, Under, Bounds
<1>3. {j \in Jobs : Restoring(j)} \subseteq {0, 0}
  BY <1>1 DEF Restoring, Under
<1>4. TwoAtMost /\ Unspoiled
  BY <1>1, <1>3 DEF TwoAtMost, Unspoiled, Restoring, Under
<1>5. shelf.anew \in Nat
  BY DEF BackupsInit
<1> QED
  BY <1>2, <1>4, <1>5, BackupsInitInv DEF RestoreInv

\* A step of one job that leaves the volume and the choice alone.
LEMMA RestoreStays ==
  ASSUME RestoreInv, BackupsInv', NEW j \in Jobs, job' = [job EXCEPT ![j] = job'[j]],
         volume' = volume, shelf'.selected = shelf.selected, shelf'.anew = shelf.anew,
         Restoring(j)' => Restoring(j) /\ job'[j].noted = job[j].noted,
         job'[j].at = "restored" => job[j].at = "restored",
         job'[j].at = "absent" => job[j].at = "absent" \/ job'[j].noted = shelf.selected,
         RestoreKeeps(j)'
  PROVE  RestoreInv'
<1>1. \A i \in Jobs : i # j => job'[i] = job[i]
  BY DEF RestoreInv, BackupsInv, BackupTypes
<1>2. \A i \in Jobs : RestoreKeeps(i)'
  BY <1>1 DEF RestoreInv, RestoreKeeps, Restoring
<1>3. \A i \in Jobs : Restoring(i)' => Restoring(i) /\ job'[i].noted = job[i].noted
  BY <1>1 DEF Restoring
<1>4. TwoAtMost'
  BY <1>3 DEF RestoreInv, TwoAtMost
<1>5. Unspoiled'
  <2>1. SUFFICES ASSUME NEW p \in Jobs, NEW q \in Jobs,
                        p # q, job'[p].at = "restored", job'[p].noted = shelf.selected,
                        Restoring(q)', job'[q].noted # shelf.selected
                 PROVE  volume # 0 /\ (volume = None => job'[q].at # "absent")
    BY DEF Unspoiled
  <2>2. Restoring(p)' /\ Restoring(q) /\ job'[q].noted = job[q].noted
    BY <1>3, <2>1 DEF Restoring, Under
  <2>3. job[p].at = "restored" /\ job'[p].noted = job[p].noted
    BY <1>1, <1>3, <2>1, <2>2
  <2>4. job'[q].at = "absent" => job[q].at = "absent"
    BY <1>1, <2>1
  <2> QED
    BY <2>1, <2>2, <2>3, <2>4 DEF RestoreInv, Unspoiled
<1> QED
  BY <1>2, <1>4, <1>5 DEF RestoreInv

\* No job moves.
LEMMA RestoreRests ==
  ASSUME RestoreInv, BackupsInv', UNCHANGED <<job, volume, shelf>>
  PROVE  RestoreInv'
  BY DEF RestoreInv, RestoreKeeps, Restoring, TwoAtMost, Unspoiled

\* A job moves before it has chosen, or comes to an end.
LEMMA RestoreElsewhere ==
  ASSUME RestoreInv, BackupsInv', NEW j \in Jobs, job' = [job EXCEPT ![j] = job'[j]],
         volume' = volume, shelf'.selected = shelf.selected, shelf'.anew = shelf.anew,
         job'[j].at \notin Under, j \in PilotJobs => job'[j].at # "passed" /\ job'[j].bound = 0
  PROVE  RestoreInv'
<1>1. RestoreKeeps(j)' /\ ~Restoring(j)'
  BY DEF RestoreKeeps, Restoring, Under, Bounds
<1>2. job'[j].at # "restored" /\ job'[j].at # "absent"
  BY DEF Under
<1> QED
  BY <1>1, <1>2, RestoreStays

\* Only the stage of a job changes.
LEMMA StageMoves ==
  ASSUME RestoreInv, NEW j \in Jobs, NEW to, job' = [job EXCEPT ![j].at = to]
  PROVE  /\ job' = [job EXCEPT ![j] = job'[j]] /\ job'[j].at = to
         /\ job'[j].noted = job[j].noted /\ job'[j].bound = job[j].bound /\ job'[j].seen = job[j].seen
<1>1. PICK S : job \in [Jobs -> JobRecords(S)]
  BY DEF RestoreInv, BackupsInv, BackupTypes
<1> QED
  BY <1>1 DEF JobRecords

\* A job that has not chosen yet.
LEMMA EarlyJobs ==
  ASSUME RestoreInv, NEW j \in Jobs, job[j].at \in Unnoted \cup {"noted"}
  PROVE  j \in PilotJobs => job[j].bound = 0
  BY DEF RestoreInv, RestoreKeeps, Unnoted, Bounds

LEMMA RestoreEarly ==
  ASSUME RestoreInv, BackupsInv', NEW j \in Jobs,
         Pushes(j) \/ NamesLast(j) \/ SwitchesWal(j) \/ ObservesArchived(j) \/ ListsInventory(j)
  PROVE  RestoreInv'
<1>1. PICK S : job \in [Jobs -> JobRecords(S)]
  BY DEF RestoreInv, BackupsInv, BackupTypes
<1>2. UNCHANGED <<shelf, volume>>
  BY DEF Pushes, NamesLast, SwitchesWal, ObservesArchived, ListsInventory
<1>3. /\ job[j].at \in Unnoted
      /\ job' = [job EXCEPT ![j] = job'[j]] /\ job'[j].bound = job[j].bound
      /\ job'[j].at \in {"pushing", "named", "switched", "archived", "listed"}
  <2>1. CASE Pushes(j) \/ ObservesArchived(j)
    BY <2>1, StageMoves DEF Pushes, ObservesArchived, Goes, Unnoted
  <2>2. CASE NamesLast(j)
    BY <1>1, <2>2 DEF NamesLast, JobRecords, Unnoted
  <2>3. CASE SwitchesWal(j)
    BY <1>1, <2>3 DEF SwitchesWal, JobRecords, Unnoted
  <2>4. CASE ListsInventory(j)
    BY <1>1, <2>4 DEF ListsInventory, JobRecords, Unnoted
  <2> QED
    BY <2>1, <2>2, <2>3, <2>4
<1>4. job'[j].at \notin Under /\ job'[j].at # "passed"
  BY <1>3 DEF Under
<1> QED
  BY <1>2, <1>3, <1>4, EarlyJobs, RestoreElsewhere

LEMMA RestorePushEnds ==
  ASSUME RestoreInv, BackupsInv', PushEnds
  PROVE  RestoreInv'
<1>1. pushing.by \in Jobs /\ UNCHANGED <<shelf, volume>>
  BY DEF PushEnds, RestoreInv, BackupsInv, BackupTypes
<1>2. CASE job' = job
  BY <1>1, <1>2, RestoreRests
<1>3. CASE job[pushing.by].at = "pushing" /\ \E to \in {"pushed", "failed"} : job' = [job EXCEPT ![pushing.by].at = to]
  <2>1. PICK j \in Jobs : j = pushing.by
    BY <1>1
  <2>2. PICK to \in {"pushed", "failed"} : job' = [job EXCEPT ![j].at = to]
    BY <1>3, <2>1
  <2>3. job'[j].at \notin Under /\ job'[j].at # "passed" /\ job' = [job EXCEPT ![j] = job'[j]]
        /\ job'[j].bound = job[j].bound
    BY <2>2, StageMoves DEF Under
  <2>4. j \in PilotJobs => job[j].bound = 0
    BY <1>3, <2>1, EarlyJobs DEF Unnoted
  <2> QED
    BY <1>1, <2>3, <2>4, RestoreElsewhere
<1> QED
  BY <1>2, <1>3 DEF PushEnds

LEMMA RestoreWritesEvidence ==
  ASSUME RestoreInv, BackupsInv', NEW j \in Jobs, WritesEvidence(j)
  PROVE  RestoreInv'
<1>1. PICK n : n = job[j].id
  OBVIOUS
<1>2. PICK e : e = [[Fresh EXCEPT !.at = "noted"] EXCEPT !.noted = n]
  OBVIOUS
<1>3. e.at = "noted" /\ e.bound = 0 /\ job' = [job EXCEPT ![j] = e]
  BY <1>1, <1>2 DEF WritesEvidence, Fresh
<1>4. job'[j] = e
  BY <1>3 DEF RestoreInv, BackupsInv, BackupTypes
<1>5. volume' = volume /\ shelf'.selected = shelf.selected /\ shelf'.anew = shelf.anew
  BY DEF WritesEvidence, RestoreInv, BackupsInv, BackupTypes
<1>6. e.at \notin Under /\ e.at # "passed"
  BY <1>3 DEF Under
<1> QED
  BY <1>3, <1>4, <1>5, <1>6, RestoreElsewhere

\* A job that ends with less.
LEMMA RestoreEnds ==
  ASSUME RestoreInv, BackupsInv', NEW j \in Jobs, NEW to \in {"failed", "killed"},
         job' = [job EXCEPT ![j] = [Fresh EXCEPT !.at = to, !.noted = job[j].noted]],
         UNCHANGED <<volume, shelf>>
  PROVE  RestoreInv'
<1>1. PICK n : n = job[j].noted
  OBVIOUS
<1>2. PICK e : e = [[Fresh EXCEPT !.at = to] EXCEPT !.noted = n]
  OBVIOUS
<1>3. e.at = to /\ e.bound = 0 /\ job' = [job EXCEPT ![j] = e]
  BY <1>1, <1>2 DEF Fresh
<1>4. job'[j] = e
  BY <1>3 DEF RestoreInv, BackupsInv, BackupTypes
<1>5. e.at \notin Under /\ e.at # "passed"
  BY <1>3 DEF Under
<1> QED
  BY <1>3, <1>4, <1>5, RestoreElsewhere

\* What was selected is the evidence of the one who selected it, and nobody else's choice.
LEMMA RestorePublishesSelected ==
  ASSUME RestoreInv, BackupsInv', NEW j \in Jobs, PublishesSelected(j)
  PROVE  RestoreInv'
<1>1. /\ j \in PilotJobs /\ shelf.selected = None /\ job[j].at = "noted" /\ volume' = volume
      /\ job' = [job EXCEPT ![j].at = "selected"] /\ job[j].noted \in Nat
      /\ shelf'.selected = job[j].noted /\ shelf'.anew = shelf.anew
  BY JobTyped DEF PublishesSelected, NothingSelected, Goes, RestoreInv, BackupsInv, BackupTypes
<1>2. /\ job' = [job EXCEPT ![j] = job'[j]] /\ job'[j].at = "selected"
      /\ job'[j].noted = job[j].noted /\ job'[j].bound = 0
  BY <1>1, StageMoves, EarlyJobs
<1>3. \A i \in Jobs : i # j => job'[i] = job[i]
  BY <1>1 DEF RestoreInv, BackupsInv, BackupTypes
<1>4. \A i \in Jobs : job[i].noted \in Nat /\ job[i].noted # None
  BY JobTyped, BackupsAssumption DEF RestoreInv, BackupsInv
<1>5. ASSUME NEW i \in Jobs PROVE RestoreKeeps(i)'
  <2>1. CASE i = j
    BY <1>1, <1>2, <2>1 DEF RestoreKeeps, Restoring, Under, Bounds
  <2>2. CASE i # j
    <3>1. job'[i] = job[i] /\ RestoreKeeps(i) /\ job[i].noted # None
      BY <1>3, <1>4, <2>2 DEF RestoreInv
    <3>2. shelf.anew = 0 => ~(i \in PilotJobs /\ job[i].at \in Under \cup {"passed"})
      BY <1>1, <3>1 DEF RestoreKeeps
    <3>3. job[i].at = "restored" => volume \in {None, 0, job[i].noted}
      BY <1>1, <3>1 DEF RestoreKeeps
    <3>4. job[i].at = "verified" => job[i].seen = job[i].noted
      BY <1>1, <3>1 DEF RestoreKeeps
    <3> QED
      BY <1>1, <3>1, <3>2, <3>3, <3>4 DEF RestoreKeeps, Restoring
  <2> QED
    BY <2>1, <2>2
<1>6. \A i \in Jobs : Restoring(i)' /\ i # j => Restoring(i) /\ shelf.anew # 0 /\ job'[i].noted = job[i].noted
  BY <1>1, <1>3, <1>4 DEF RestoreInv, RestoreKeeps, Restoring
<1>7. \A p, q \in Jobs : Restoring(p) /\ Restoring(q) => p = q
  BY <1>1, <1>4 DEF RestoreInv, TwoAtMost
<1>8. TwoAtMost'
  <2>1. \A p, q \in Jobs : Restoring(p)' /\ Restoring(q)' /\ p # q =>
          shelf'.anew # 0 /\ shelf'.selected \in {job'[p].noted, job'[q].noted}
    <3>1. SUFFICES ASSUME NEW p \in Jobs, NEW q \in Jobs, Restoring(p)', Restoring(q)', p # q
                   PROVE  shelf'.anew # 0 /\ shelf'.selected \in {job'[p].noted, job'[q].noted}
      OBVIOUS
    <3>2. p = j \/ q = j
      BY <1>6, <1>7, <3>1
    <3> QED
      BY <1>1, <1>2, <1>6, <3>1, <3>2
  <2>2. \E x : {i \in Jobs : Restoring(i)} \subseteq {x}
    BY <1>7
  <2>3. PICK x : {i \in Jobs : Restoring(i)} \subseteq {x}
    BY <2>2
  <2>4. {i \in Jobs : Restoring(i)'} \subseteq {x, j}
    BY <1>6, <2>3
  <2> QED
    BY <2>1, <2>4 DEF TwoAtMost
<1>9. Unspoiled'
  <2>1. SUFFICES ASSUME NEW p \in Jobs, NEW q \in Jobs,
                        p # q, job'[p].at = "restored", Restoring(q)', job'[q].noted # job[j].noted
                 PROVE  FALSE
    BY <1>1 DEF Unspoiled
  <2>2. Restoring(p)' /\ p # j /\ q # j
    BY <1>2, <2>1 DEF Restoring, Under
  <2> QED
    BY <1>6, <1>7, <2>1, <2>2
<1> QED
  BY <1>1, <1>5, <1>8, <1>9 DEF RestoreInv

\* A pilot that has chosen goes on: what its step must show when it touches the volume.
LEMMA RestoreMoves ==
  ASSUME RestoreInv, BackupsInv', NEW j \in Jobs, job' = [job EXCEPT ![j] = job'[j]],
         shelf' = shelf, Restoring(j), job'[j].noted = job[j].noted,
         \A i \in Jobs : job'[i].at = "restored" => volume' \in {None, 0, job'[i].noted, shelf.selected},
         RestoreKeeps(j)', Unspoiled'
  PROVE  RestoreInv'
<1>1. \A i \in Jobs : i # j => job'[i] = job[i]
  BY DEF RestoreInv, BackupsInv, BackupTypes
<1>2. \A i \in Jobs : RestoreKeeps(i)'
  BY <1>1 DEF RestoreInv, RestoreKeeps, Restoring
<1>3. \A i \in Jobs : Restoring(i)' => Restoring(i) /\ job'[i].noted = job[i].noted
  BY <1>1 DEF Restoring
<1>4. TwoAtMost'
  BY <1>3 DEF RestoreInv, TwoAtMost
<1> QED
  BY <1>2, <1>4 DEF RestoreInv

\* There is no third.
LEMMA NoThird ==
  ASSUME RestoreInv, NEW p \in Jobs, NEW q \in Jobs, NEW i \in Jobs, p # q,
         Restoring(p), Restoring(q), Restoring(i)
  PROVE  i = p \/ i = q
  BY DEF RestoreInv, TwoAtMost

LEMMA RestoreObservesSealed ==
  ASSUME RestoreInv, BackupsInv', NEW j \in Jobs, ObservesSealed(j)
  PROVE  RestoreInv'
<1>1. /\ job' = [job EXCEPT ![j] = job'[j]] /\ job'[j].at = "observed" /\ job[j].at = "selected"
      /\ job'[j].noted = job[j].noted /\ job'[j].bound = job[j].bound
  BY StageMoves DEF ObservesSealed, Goes
<1>2. shelf' = shelf /\ volume' = volume /\ Restoring(j)
  BY <1>1 DEF ObservesSealed, Restoring, Under
<1>3. RestoreKeeps(j)'
  BY <1>1, <1>2 DEF RestoreInv, RestoreKeeps, Restoring, Under, Bounds
<1> QED
  BY <1>1, <1>2, <1>3, RestoreStays

LEMMA RestoreInspectsVolume ==
  ASSUME RestoreInv, BackupsInv', NEW j \in Jobs, InspectsVolume(j)
  PROVE  RestoreInv'
<1>1. PICK S : job \in [Jobs -> JobRecords(S)]
  BY DEF RestoreInv, BackupsInv, BackupTypes
<1>2. /\ job' = [job EXCEPT ![j] = job'[j]] /\ job'[j].at = "absent" /\ job[j].at = "observed"
      /\ job'[j].noted = job[j].noted /\ job'[j].bound = shelf.selected
  BY <1>1 DEF InspectsVolume, JobRecords
<1>3. shelf' = shelf /\ volume' = volume /\ Restoring(j) /\ shelf.selected = job[j].noted
  BY <1>2 DEF InspectsVolume, SelectedIsIts, Restoring, Under
<1>4. RestoreKeeps(j)'
  BY <1>2, <1>3 DEF RestoreInv, RestoreKeeps, Restoring, Under, Bounds
<1> QED
  BY <1>2, <1>3, <1>4, RestoreStays

\* A volume that is there stays as it is; the one who misses it is the later one, or alone.
LEMMA RestoreCreatesVolume ==
  ASSUME RestoreInv, BackupsInv', NEW j \in Jobs, CreatesVolume(j)
  PROVE  RestoreInv'
<1>1. /\ job' = [job EXCEPT ![j] = job'[j]] /\ job'[j].at = "created" /\ job[j].at = "absent"
      /\ job'[j].noted = job[j].noted /\ job'[j].bound = job[j].bound
  BY StageMoves DEF CreatesVolume, Goes
<1>2. shelf' = shelf /\ Restoring(j) /\ volume' = IF volume = None THEN 0 ELSE volume
  BY <1>1 DEF CreatesVolume, Restoring, Under
<1>3. \A i \in Jobs : i # j => job'[i] = job[i]
  BY <1>1 DEF RestoreInv, BackupsInv, BackupTypes
<1>4. RestoreKeeps(j)'
  BY <1>1, <1>2 DEF RestoreInv, RestoreKeeps, Restoring, Under, Bounds
<1>5. \A i \in Jobs : job'[i].at = "restored" => volume' \in {None, 0, job'[i].noted, shelf.selected}
  BY <1>1, <1>2, <1>3 DEF RestoreInv, RestoreKeeps
<1>6. Unspoiled'
  <2>1. SUFFICES ASSUME NEW p \in Jobs, NEW q \in Jobs,
                        p # q, job'[p].at = "restored", job'[p].noted = shelf.selected,
                        Restoring(q)', job'[q].noted # shelf.selected
                 PROVE  volume' # 0 /\ volume' # None
    BY <1>2 DEF Unspoiled
  <2>2. p # j /\ job[p].at = "restored" /\ Restoring(p) /\ job[p].noted = shelf.selected
    BY <1>1, <1>3, <2>1 DEF Restoring, Under
  <2>3. Restoring(q) /\ job[q].noted # shelf.selected
    BY <1>1, <1>2, <1>3, <2>1 DEF Restoring
  <2>4. q = j
    BY <1>2, <2>1, <2>2, <2>3, NoThird
  <2>5. volume # 0 /\ volume # None
    BY <1>1, <2>1, <2>2, <2>3, <2>4 DEF RestoreInv, Unspoiled
  <2> QED
    BY <1>2, <2>5
<1> QED
  BY <1>1, <1>2, <1>4, <1>5, <1>6, RestoreMoves

\* Two never restore into one volume unless it is the later one's turn.
LEMMA RestoreRestores ==
  ASSUME RestoreInv, BackupsInv', NEW j \in Jobs, Restores(j)
  PROVE  RestoreInv'
<1>1. /\ job' = [job EXCEPT ![j] = job'[j]] /\ job'[j].at = "restored" /\ job[j].at = "created"
      /\ job'[j].noted = job[j].noted /\ job'[j].bound = job[j].bound
  BY StageMoves DEF Restores, Goes
<1>2. shelf' = shelf /\ Restoring(j) /\ volume = 0 /\ volume' = job[j].bound /\ job[j].bound \in store.kept
  BY <1>1 DEF Restores, VolumeIsEmpty, Restoring, Under
<1>3. job[j].bound = job[j].noted
  BY <1>1, <1>2 DEF RestoreInv, RestoreKeeps, Bounds
<1>4. volume' = job[j].noted /\ volume' # 0 /\ volume' # None
  BY <1>2, <1>3, BackupsAssumption DEF RestoreInv, BackupsInv, BackupTypes
<1>5. \A i \in Jobs : i # j => job'[i] = job[i]
  BY <1>1 DEF RestoreInv, BackupsInv, BackupTypes
<1>6. RestoreKeeps(j)'
  BY <1>1, <1>2, <1>4 DEF RestoreInv, RestoreKeeps, Restoring, Under, Bounds
<1>7. ASSUME NEW i \in Jobs, job'[i].at = "restored"
      PROVE  volume' \in {None, 0, job'[i].noted, shelf.selected}
  <2>1. CASE i = j
    BY <1>1, <1>4, <2>1
  <2>2. CASE i # j
    <3>1. job'[i] = job[i] /\ Restoring(i) /\ job[i].at = "restored"
      BY <1>5, <1>7, <2>2 DEF Restoring, Under
    <3>2. shelf.selected \in {job[i].noted, job[j].noted}
      BY <1>2, <2>2, <3>1 DEF RestoreInv, TwoAtMost
    <3>3. job[j].noted # shelf.selected => job[i].noted # shelf.selected
      BY <1>2, <2>2, <3>1 DEF RestoreInv, Unspoiled
    <3> QED
      BY <1>4, <3>2, <3>3
  <2> QED
    BY <2>1, <2>2
<1>8. Unspoiled'
  BY <1>4 DEF Unspoiled
<1> QED
  BY <1>1, <1>2, <1>6, <1>7, <1>8, RestoreMoves

LEMMA RestoreVerifies ==
  ASSUME RestoreInv, BackupsInv', NEW j \in Jobs, Verifies(j)
  PROVE  RestoreInv'
<1>1. PICK S : job \in [Jobs -> JobRecords(S)]
  BY DEF RestoreInv, BackupsInv, BackupTypes
<1>2. /\ job' = [job EXCEPT ![j] = job'[j]] /\ job'[j].at = "verified" /\ job[j].at = "restored"
      /\ job'[j].noted = job[j].noted /\ job'[j].bound = job[j].bound /\ job'[j].seen = volume
  BY <1>1 DEF Verifies, JobRecords
<1>3. shelf' = shelf /\ volume' = None /\ volume # None /\ volume # 0 /\ Restoring(j)
  BY <1>2 DEF Verifies, Restoring, Under
<1>4. volume = job[j].noted \/ (shelf.anew # 0 /\ shelf.selected # None /\ volume = shelf.selected)
  BY <1>2, <1>3 DEF RestoreInv, RestoreKeeps, Restoring, Under
<1>5. RestoreKeeps(j)'
  BY <1>2, <1>3, <1>4 DEF RestoreInv, RestoreKeeps, Restoring, Under, Bounds
<1>6. \A i \in Jobs : i # j => job'[i] = job[i]
  BY <1>2 DEF RestoreInv, BackupsInv, BackupTypes
<1>7. Unspoiled'
  <2>1. SUFFICES ASSUME NEW p \in Jobs, NEW q \in Jobs,
                        p # q, job'[p].at = "restored", Restoring(q)'
                 PROVE  volume' # 0 /\ job'[q].at # "absent"
    BY <1>3 DEF Unspoiled
  <2>2. p # j /\ Restoring(p)
    BY <1>2, <1>6, <2>1 DEF Restoring, Under
  <2>3. q = j
    BY <1>3, <1>6, <2>1, <2>2, NoThird DEF Restoring
  <2> QED
    BY <1>2, <1>3, <2>3, BackupsAssumption
<1> QED
  BY <1>2, <1>3, <1>5, <1>7, RestoreMoves

LEMMA RestoreRetains ==
  ASSUME RestoreInv, BackupsInv', NEW j \in Jobs, Retains(j)
  PROVE  RestoreInv'
<1>1. /\ job' = [job EXCEPT ![j] = job'[j]] /\ job'[j].at = "passed"
      /\ job'[j].noted = job[j].noted /\ job'[j].bound = job[j].bound /\ job'[j].seen = job[j].seen
  BY StageMoves DEF Retains
<1>2. shelf' = shelf /\ volume' = volume /\ Authorized(j)
  BY DEF Retains
<1>3. CASE j \in DailyJobs
  <2>1. j \notin PilotJobs
    BY <1>3, BackupsAssumption
  <2> QED
    BY <1>1, <1>2, <2>1, RestoreElsewhere DEF Under
<1>4. CASE j \notin DailyJobs
  <2>1. job[j].at = "verified" /\ shelf.selected = job[j].noted
    BY <1>2, <1>4 DEF Authorized, SelectedIsIts
  <2>2. job[j].seen = job[j].noted /\ job[j].bound = job[j].noted
    BY <1>4, <2>1 DEF RestoreInv, RestoreKeeps, Bounds, Jobs
  <2>3. RestoreKeeps(j)' /\ ~Restoring(j)'
    BY <1>1, <1>2, <2>1, <2>2 DEF RestoreKeeps, Restoring, Under, Bounds
  <2>4. job'[j].at # "restored" /\ job'[j].at # "absent"
    BY <1>1
  <2> QED
    BY <1>1, <1>2, <2>3, <2>4, RestoreStays
<1> QED
  BY <1>3, <1>4

LEMMA RestoreJobFails ==
  ASSUME RestoreInv, BackupsInv', NEW j \in Jobs, JobFails(j)
  PROVE  RestoreInv'
<1>1. CASE job[j].at \notin {"created", "restored"}
  BY <1>1, RestoreEnds DEF JobFails
<1>2. CASE job[j].at \in {"created", "restored"}
  <2>1. PICK n : n = job[j].noted
    OBVIOUS
  <2>2. PICK e : e = [[Fresh EXCEPT !.at = "failed"] EXCEPT !.noted = n]
    OBVIOUS
  <2>3. e.at = "failed" /\ e.bound = 0 /\ e.noted = n /\ job' = [job EXCEPT ![j] = e]
    BY <2>1, <2>2 DEF JobFails, Fresh
  <2>4. job'[j] = e
    BY <2>3 DEF RestoreInv, BackupsInv, BackupTypes
  <2>5. shelf' = shelf /\ volume' = None /\ Restoring(j)
    BY <1>2 DEF JobFails, Restoring, Under
  <2>6. RestoreKeeps(j)' /\ ~Restoring(j)'
    BY <2>3, <2>4 DEF RestoreKeeps, Restoring, Under, Bounds
  <2>7. \A i \in Jobs : i # j => job'[i] = job[i]
    BY <2>3 DEF RestoreInv, BackupsInv, BackupTypes
  <2>8. Unspoiled'
    <3>1. SUFFICES ASSUME NEW p \in Jobs, NEW q \in Jobs, p # q, job'[p].at = "restored", Restoring(q)'
                   PROVE  FALSE
      BY DEF Unspoiled
    <3>2. p # j /\ q # j
      BY <2>3, <2>4, <2>6, <3>1
    <3>3. Restoring(p) /\ Restoring(q)
      BY <2>7, <3>1, <3>2 DEF Restoring, Under
    <3> QED
      BY <2>5, <3>1, <3>2, <3>3, NoThird
  <2> QED
    BY <2>1, <2>3, <2>4, <2>5, <2>6, <2>8, RestoreMoves
<1> QED
  BY <1>1, <1>2

\* The one who is restoring when the host is prepared anew is the only one.
LEMMA RestoreHostAnew ==
  ASSUME RestoreInv, BackupsInv', HostAnew, MaxAnew <= 1
  PROVE  RestoreInv'
<1>1. shelf.anew = 0 /\ shelf'.anew = 1 /\ shelf'.selected = None /\ volume' = None /\ job' = job
  BY BackupsAssumption DEF HostAnew, RestoreInv
<1>2. \A p, q \in Jobs : Restoring(p) /\ Restoring(q) => p = q
  BY <1>1 DEF RestoreInv, TwoAtMost
<1>3. \A i \in Jobs : RestoreKeeps(i)'
  BY <1>1 DEF RestoreInv, RestoreKeeps, Restoring
<1>4. TwoAtMost'
  <2>1. \A i \in Jobs : Restoring(i)' <=> Restoring(i)
    BY <1>1 DEF Restoring
  <2>2. PICK x : {i \in Jobs : Restoring(i)} \subseteq {x}
    BY <1>2
  <2>3. {i \in Jobs : Restoring(i)'} \subseteq {x, x}
    BY <2>1, <2>2
  <2> QED
    BY <1>2, <2>1, <2>3 DEF TwoAtMost
<1>5. Unspoiled'
  BY <1>1, <1>2 DEF Unspoiled, Restoring, Under
<1> QED
  BY <1>1, <1>3, <1>4, <1>5 DEF RestoreInv

LEMMA RestoreNextInv ==
  ASSUME RestoreInv, [BackupsNext]_backupsVars, MaxAnew <= 1
  PROVE  RestoreInv'
<1>1. BackupsInv'
  BY BackupsNextInv DEF RestoreInv
<1>2. CASE UNCHANGED backupsVars \/ SegmentFills \/ Archives
  BY <1>1, <1>2, RestoreRests DEF backupsVars, SegmentFills, Archives
<1>3. CASE PushEnds \/ HostAnew
  BY <1>1, <1>3, RestorePushEnds, RestoreHostAnew
<1>4. ASSUME NEW j \in Jobs, BackupStep(j)
      PROVE  RestoreInv'
  <2>1. CASE JobDies(j)
    BY <1>1, <2>1, RestoreEnds DEF JobDies
  <2> QED
    BY <1>1, <1>4, <2>1, RestoreEarly, RestoreWritesEvidence, RestorePublishesSelected,
       RestoreObservesSealed, RestoreInspectsVolume, RestoreCreatesVolume, RestoreRestores,
       RestoreVerifies, RestoreRetains, RestoreJobFails DEF BackupStep
<1> QED
  BY <1>2, <1>3, <1>4 DEF BackupsNext

\* A pilot that passed has restored and seen the backup of its own evidence, and no two
\* rely on one choice (the exclusive publication of the selected evidence, the checksum
\* that seals it, the volume inspected and bound), whatever fails or is killed meanwhile
\* and however many pilots and backups there are. The host is prepared anew at most once
\* meanwhile: with two preparations a pilot left from the first host can restore over the
\* volume of the second's.
THEOREM RestoreKeepsItsPromise ==
  ASSUME MaxAnew <= 1
  PROVE  BackupsSpec => []RestorePromise
<1>1. BackupsInit => RestoreInv
  BY RestoreInitInv
<1>2. RestoreInv /\ [BackupsNext]_backupsVars => RestoreInv'
  BY RestoreNextInv
<1>3. RestoreInv => RestorePromise
  BY RestoreInvImplies
<1> QED
  BY <1>1, <1>2, <1>3, PTL DEF BackupsSpec

---------------------------------------------------------------------------
(***************************************************************************)
(* PromotionPromise holds for any number of pilots and ticks, and however  *)
(* often the host is cleared and its clock set back. Past the consumers    *)
(* pair one pilot at a time is unfinished: only its owner takes a pair     *)
(* back, so what a pilot has passed stays until it is done. Checkpoints    *)
(* are linked where none was and so are a first part of what a tick holds. *)
(***************************************************************************)

\* Types of what the scripts keep.
PilotRecords ==
  [at : 0 .. 12, activation : Nat \cup {None}, seen : PointFiles \cup {None}, end : Ends \cup {None}]

RemoteRecords ==
  [cmd : PilotCommands \cup {None}, part : 0 .. 4, answer : {None, "passed", "error"},
   got : Nat \cup PointFiles \cup {None}]

Checkpoints == [1 .. 4 -> PointFiles \cup {None}]

TickRecords ==
  [at : {"idle", "observing", "appending", "finishing"}, now : Nat, dep : PairFiles \cup {None},
   state : Checkpoints \cup {None}]

HostRecords ==
  [consumers : PairFiles \cup {None}, handoff : PairFiles \cup {None}, backup : Pilots \cup {None},
   replay : PairFiles \cup {None}, browser : PairFiles \cup {None}, deployment : PairFiles \cup {None},
   stage : Pilots \cup {None}, replayStage : Pilots \cup {None}, contracts : SUBSET Pilots,
   late : SUBSET Pilots, points : Checkpoints, promotion : [dep : PairFiles, state : Checkpoints] \cup {None},
   ingress : Ingresses \cup {None}, clears : Nat, skews : Nat]

PromotionTypes ==
  /\ host \in HostRecords /\ hour \in Nat
  /\ pilot \in [Pilots -> PilotRecords] /\ remote \in [Pilots -> RemoteRecords]
  /\ canary \in [Ticks -> TickRecords]

\* A whole pair of p's; one half of it; p's activation is served, or nothing is.
Own(p, f) == host[f] # None /\ host[f].by = p /\ host[f].whole
Half(p, f) == host[f] # None /\ host[f].by = p /\ ~host[f].whole
Serves(p, at) == host.ingress \in {None, [by |-> p, at |-> at]}

\* The pilot, or its process on the host, still does something.
Unfinished(p) == Piloting(p) \/ pilot[p].end = "rollingBack" \/ remote[p] # NoProcess

\* Phase k has been carried out, heard of or not.
Past(p, k) == pilot[p].at > k \/ (pilot[p].at = k /\ remote[p].answer = "passed")

\* A process is of the phase its pilot is in, and what was answered is kept.
PilotAgrees(p) ==
  /\ pilot[p].at = 0 => remote[p] = NoProcess /\ pilot[p].end \in {None, "failed"}
  /\ IF remote[p].cmd = None THEN remote[p] = NoProcess
     ELSE pilot[p].at > 0 /\ remote[p].cmd = PhaseOf(p)
  /\ remote[p].answer = "passed" =>
       /\ pilot[p].at = 8 => remote[p].got \in Nat
       /\ pilot[p].at = 10 => remote[p].got \in PointFiles
  /\ pilot[p].at > 8 => pilot[p].activation \in Nat
  /\ pilot[p].at > 10 => pilot[p].seen \in PointFiles

\* A first checkpoint that observed what p activated.
CutoverOf(p, point) ==
  /\ point.through = [by |-> p, at |-> pilot[p].activation]
  /\ point.due = pilot[p].activation /\ point.at >= point.due

\* Every phase that p is past has left on the host what later phases rely on.
Achieved(p) ==
  /\ Past(p, 2) => Own(p, "consumers")
  /\ Past(p, 3) => Own(p, "handoff")
  /\ Past(p, 4) => host.backup = p
  /\ Past(p, 5) => Own(p, "replay")
  /\ pilot[p].at = 8 /\ remote[p].answer = "passed" => Serves(p, remote[p].got)
  /\ pilot[p].at > 8 => Serves(p, pilot[p].activation)
  /\ Past(p, 9) => Own(p, "browser")
  /\ pilot[p].at = 10 /\ remote[p].answer = "passed" => CutoverOf(p, remote[p].got)
  /\ pilot[p].at > 10 => CutoverOf(p, pilot[p].seen)
  /\ Past(p, 11) => host.points[1] = pilot[p].seen

\* What a process in the middle of its phase has left so far.
UnderWay(p) ==
  remote[p].answer = None /\ remote[p].part > 0 =>
    /\ remote[p].cmd = "consumers" =>
         /\ Whole("consumers") => p \in host.late
         /\ remote[p].part > 1 => host.stage = p
         /\ remote[p].part > 2 => p \in host.contracts
         /\ remote[p].part = 4 => Half(p, "consumers")
    /\ remote[p].cmd = "handoff" => Half(p, "handoff")
    /\ remote[p].cmd = "replay" /\ remote[p].part = 2 => Half(p, "replay")
    /\ remote[p].cmd = "browser" => Half(p, "browser")
    /\ remote[p].cmd = "deployment" => Half(p, "deployment") /\ host.deployment.at = pilot[p].activation

\* What p activated is open only while p may still close it, or came to its end otherwise.
IngressOf(p) ==
  /\ pilot[p].end = "failed" => remote[p].cmd # "activate"
  /\ pilot[p].end = "rolledBack" => ~Carries(p, "activate", 0)
  /\ host.ingress # None /\ host.ingress.by = p =>
       /\ pilot[p].at >= 8 /\ pilot[p].end \notin {"failed", "rolledBack"}
       /\ pilot[p].at = 8 /\ pilot[p].end = None => remote[p].cmd = "activate"

\* The contracts are of who made the pair, and of whoever holds the directory of the run,
\* which nobody frees but who makes the pair whole.
StageKept ==
  /\ ~Whole("consumers") => \A q \in host.contracts : host.stage = q
  /\ Whole("consumers") =>
       /\ host.consumers.by \in host.contracts
       /\ \A q \in host.contracts \ {host.consumers.by} : host.stage = q /\ q \in host.late

\* Evidence of the deployment is of one pilot, all of whose phases are done.
DeploymentKept ==
  /\ host.deployment # None =>
       Own(host.deployment.by, "consumers") /\ pilot[host.deployment.by].at = 12
  /\ EvidenceIsOwn
  /\ Whole("deployment") => host.deployment.at \in Nat /\ Serves(host.deployment.by, host.deployment.at)

\* Checkpoints in order, each when it was due, all through what the first one saw.
Earned(s) ==
  \A i \in 1 .. 4 : s[i] # None =>
    /\ s[i].through = s[1].through /\ s[i].due = s[1].through.at + Wait[i] /\ s[i].at >= s[i].due
    /\ i > 1 => s[i - 1] # None /\ s[i].at >= s[i - 1].at

Begun(s) == s \in Checkpoints /\ Earned(s) /\ s[1] # None

\* What a tick holds agrees with the host: the checkpoints it read, and the one it adds.
TickKept(t) ==
  LET s == canary[t].state IN
  canary[t].at # "idle" =>
    /\ Whole("deployment") /\ canary[t].dep = host.deployment /\ Begun(s)
    /\ canary[t].at = "observing" =>
         /\ s[4] = None
         /\ \A i \in 1 .. 4 : s[i] # None => host.points[i] = s[i] /\ canary[t].now >= s[i].at
    /\ canary[t].at = "appending" =>
         s[2] # None /\ \A i \in 1 .. 3 : s[i + 1] # None => host.points[i] = s[i]
    /\ canary[t].at = "finishing" => s[4] # None /\ host.points = s

\* A promotion that was claimed.
PromotionKept ==
  host.promotion # None =>
    LET dep == host.promotion.dep
        s == host.promotion.state IN
      /\ Begun(s) /\ s[4] # None /\ s[1].through = [by |-> dep.by, at |-> dep.at]
      /\ host.clears = 0 => host.points = s

\* What each pilot holds of itself.
PilotKept(p) ==
  PilotAgrees(p) /\ (Unfinished(p) => Achieved(p)) /\ UnderWay(p) /\ IngressOf(p)

\* The inductive invariant.
PromotionInv ==
  /\ PromotionTypes /\ StageKept /\ DeploymentKept /\ Earned(host.points) /\ PromotionKept
  /\ \A p \in Pilots : PilotKept(p)
  /\ \A t \in Ticks : TickKept(t)

---------------------------------------------------------------------------
\* The commands are different, and none of them is nothing.
LEMMA PhaseNumbers ==
  /\ \A k \in 1 .. 12 : Phases[k] \in PilotCommands
  /\ \A k \in 1 .. 12 :
       /\ Phases[k] \in {"services", "worker", "live"} <=> k \in {1, 6, 7}
       /\ Phases[k] = "consumers" <=> k = 2
       /\ Phases[k] = "handoff" <=> k = 3
       /\ Phases[k] = "backup" <=> k = 4
       /\ Phases[k] = "replay" <=> k = 5
       /\ Phases[k] = "activate" <=> k = 8
       /\ Phases[k] = "browser" <=> k = 9
       /\ Phases[k] = "observe" <=> k = 10
       /\ Phases[k] = "checkpoint" <=> k = 11
       /\ Phases[k] = "deployment" <=> k = 12
  /\ \A j, k \in 1 .. 12 : Phases[j] = Phases[k] => j = k
<1>1. /\ Phases[1] = "services" /\ Phases[2] = "consumers" /\ Phases[3] = "handoff" /\ Phases[4] = "backup"
      /\ Phases[5] = "replay" /\ Phases[6] = "worker" /\ Phases[7] = "live" /\ Phases[8] = "activate"
      /\ Phases[9] = "browser" /\ Phases[10] = "observe" /\ Phases[11] = "checkpoint"
      /\ Phases[12] = "deployment"
  BY DEF Phases
<1>2. \A k \in 1 .. 12 : k \in {1, 2, 3, 4, 5, 6, 7, 8, 9, 10, 11, 12}
  OBVIOUS
<1>3. \A k \in 1 .. 12 : Phases[k] \in PilotCommands
  BY DEF PilotCommands
<1> HIDE DEF Phases
<1> QED
  BY <1>1, <1>2, <1>3

LEMMA NoneIsNothing ==
  /\ \A c \in PilotCommands : c # None
  /\ None # "passed" /\ None # "error" /\ None # "failed" /\ None # "rollingBack" /\ None # "rolledBack"
  /\ None # "notRolledBack" /\ None # "overtaken" /\ None # "killed" /\ None # "activate"
<1>1. "activate" \in PilotCommands
  BY DEF PilotCommands, Phases
<1> QED
  BY <1>1, PromotionAssumption DEF Ends

\* The invariant says more than the promise.
LEMMA PromotionInvImplies ==
  ASSUME PromotionInv
  PROVE  PromotionPromise
<1>1. PromotionIsEarned
  BY DEF PromotionInv, PromotionKept, Begun, Earned, PromotionIsEarned, PromotionTypes, HostRecords, Checkpoints
<1>2. EvidenceIsOwn
  BY DEF PromotionInv, DeploymentKept
<1>3. DeploysAgainOnlyUnseen
  BY DEF PromotionInv, StageKept, DeploysAgainOnlyUnseen
<1>4. FailedIsClosed
  BY DEF PromotionInv, PilotKept, IngressOf, FailedIsClosed
<1> QED
  BY <1>1, <1>2, <1>3, <1>4 DEF PromotionPromise

\* It holds on an empty host.
LEMMA PromotionInitInv ==
  ASSUME PromotionInit
  PROVE  PromotionInv
<1>1. NoPoints \in Checkpoints /\ Earned(NoPoints)
  BY DEF NoPoints, Checkpoints, Earned
<1>2. PromotionTypes
  BY <1>1 DEF PromotionInit, PromotionTypes, HostRecords, EmptyHost, PilotRecords, RemoteRecords, NoProcess,
     TickRecords, Resting
<1>3. StageKept /\ DeploymentKept /\ PromotionKept
  BY DEF PromotionInit, EmptyHost, StageKept, DeploymentKept, EvidenceIsOwn, Whole, PromotionKept
<1>4. ASSUME NEW p \in Pilots PROVE PilotKept(p)
  <2>1. remote[p] = NoProcess /\ pilot[p].at = 0 /\ pilot[p].end = None /\ host.ingress = None
    BY DEF PromotionInit, EmptyHost
  <2>2. ~Unfinished(p)
    BY <2>1, NoneIsNothing DEF Unfinished, Piloting
  <2> QED
    BY <2>1, <2>2, NoneIsNothing DEF PilotKept, PilotAgrees, UnderWay, IngressOf, NoProcess
<1>5. ASSUME NEW t \in Ticks PROVE TickKept(t)
  BY DEF PromotionInit, TickKept, Resting
<1> QED
  BY <1>1, <1>2, <1>3, <1>4, <1>5 DEF PromotionInv, PromotionInit, EmptyHost

\* Whoever is past the consumers, and not finished, is alone there.
LEMMA Alone ==
  ASSUME PromotionInv, NEW p \in Pilots, NEW q \in Pilots, Unfinished(p), Past(p, 2), Unfinished(q), Past(q, 2)
  PROVE  p = q
  BY DEF PromotionInv, PilotKept, Achieved, Own

\* While a pilot is between the consumers and the end there is no deployment, and no tick works.
LEMMA NoneDeployed ==
  ASSUME PromotionInv,
         ~Whole("consumers") \/ \E p \in Pilots : Unfinished(p) /\ Past(p, 2) /\ pilot[p].at # 12
  PROVE  host.deployment = None /\ \A t \in Ticks : canary[t].at = "idle"
<1>1. host.deployment = None
  BY DEF PromotionInv, PilotKept, Achieved, Own, Whole, DeploymentKept
<1> QED
  BY <1>1 DEF PromotionInv, TickKept, Whole

\* What others rely on of the evidence and of the directory of the run.
SameEvidence ==
  /\ host'.consumers = host.consumers /\ host'.handoff = host.handoff /\ host'.late = host.late
  /\ host'.backup = host.backup /\ host'.replay = host.replay /\ host'.browser = host.browser
  /\ host'.deployment = host.deployment /\ host'.points = host.points

SameStage == host'.stage = host.stage /\ host'.contracts = host.contracts

\* What a step of pilot p may change of the host: nothing others rely on, the directory
\* aside when no other has it; once p is past the consumers, all but these; and before,
\* while there are none, these.
Careful(p) ==
  \/ SameEvidence /\ (SameStage \/ host.stage \in {None, p}) /\ host'.ingress \in {host.ingress, None}
  \/ /\ Unfinished(p) /\ Past(p, 2)
     /\ host'.consumers = host.consumers /\ host'.late = host.late /\ SameStage
     /\ host'.ingress \in {host.ingress, None} \/ host'.ingress.by = p
  \/ /\ ~Whole("consumers") /\ host.stage \in {None, p} /\ host'.ingress = host.ingress
     /\ Whole("consumers")' => HaveLooked \subseteq host'.late

\* The other pilots keep what they rely on.
LEMMA OthersStay ==
  ASSUME PromotionInv, NEW p \in Pilots, NEW q \in Pilots, p # q, Careful(p),
         pilot'[q] = pilot[q], remote'[q] = remote[q]
  PROVE  PilotKept(q)'
<1>1. PilotAgrees(q)' /\ IngressOf(q)'
  BY DEF PromotionInv, PilotKept, PilotAgrees, IngressOf, Careful, Carries, PhaseOf, Phases
<1>0. UnderWay(q) /\ (Unfinished(q) => Achieved(q)) /\ q # None
  BY PromotionAssumption DEF PromotionInv, PilotKept
<1>2. CASE SameEvidence /\ (SameStage \/ host.stage \in {None, p}) /\ host'.ingress \in {host.ingress, None}
  <2>1. UnderWay(q)'
    <3>1. CASE SameStage
      BY <1>0, <1>2, <3>1 DEF SameEvidence, SameStage, UnderWay, Half, Whole
    <3>2. CASE host.stage \in {None, p}
      <4>1. host.stage # q
        BY <1>0, <3>2
      <4> QED
        BY <1>0, <1>2, <4>1 DEF SameEvidence, UnderWay, Half, Whole, PromotionInv, PromotionTypes, RemoteRecords
    <3> QED
      BY <1>2, <3>1, <3>2
  <2>2. Unfinished(q)' => Achieved(q)'
    BY <1>0, <1>2 DEF SameEvidence, Unfinished, Piloting, Achieved, Past, Own, Serves, CutoverOf
  <2> QED
    BY <1>1, <2>1, <2>2 DEF PilotKept
<1>3. CASE /\ Unfinished(p) /\ Past(p, 2)
           /\ host'.consumers = host.consumers /\ host'.late = host.late /\ SameStage
  <2>1. ~Unfinished(q) \/ ~Past(q, 2)
    BY <1>3, Alone
  <2>2. ~Unfinished(q)' \/ ~Past(q, 2)'
    BY <2>1 DEF Unfinished, Piloting, Past
  <2>3. UnderWay(q)'
    BY <1>3, <2>1, PhaseNumbers DEF PromotionInv, PromotionTypes, PilotRecords, PilotKept, PilotAgrees,
       UnderWay, Unfinished, PhaseOf, Past, Half, Whole, SameStage, NoProcess
  <2>4. Unfinished(q)' => Achieved(q)'
    BY <2>2 DEF Achieved, Past, PromotionInv, PromotionTypes, PilotRecords
  <2> QED
    BY <1>1, <2>3, <2>4 DEF PilotKept
<1>4. CASE /\ ~Whole("consumers") /\ host.stage \in {None, p}
           /\ Whole("consumers")' => HaveLooked \subseteq host'.late
  <2>1. ~Unfinished(q) \/ ~Past(q, 2)
    BY <1>4 DEF PromotionInv, PilotKept, Achieved, Own, Whole
  <2>2. ~Unfinished(q)' \/ ~Past(q, 2)'
    BY <2>1 DEF Unfinished, Piloting, Past
  <2>3. UnderWay(q)'
    <3>1. remote[q] \in RemoteRecords /\ host.stage # q
      BY <1>0, <1>4 DEF PromotionInv, PromotionTypes
    <3>2. CASE remote[q].answer = None /\ remote[q].part > 0 /\ remote[q].cmd = "consumers"
      <4>1. remote[q].part = 1
        BY <1>0, <3>1, <3>2 DEF UnderWay, RemoteRecords
      <4>2. q \in HaveLooked
        BY <3>2, <4>1 DEF HaveLooked, Carries
      <4> QED
        BY <1>4, <3>2, <4>1, <4>2 DEF UnderWay
    <3>3. CASE ~(remote[q].answer = None /\ remote[q].part > 0 /\ remote[q].cmd = "consumers")
      BY <2>1, <3>3, PhaseNumbers DEF PromotionInv, PromotionTypes, PilotRecords, PilotKept, PilotAgrees,
         UnderWay, Unfinished, PhaseOf, Past, NoProcess
    <3> QED
      BY <3>2, <3>3
  <2>4. Unfinished(q)' => Achieved(q)'
    BY <2>2 DEF Achieved, Past, PromotionInv, PromotionTypes, PilotRecords
  <2> QED
    BY <1>1, <2>3, <2>4 DEF PilotKept
<1> QED
  BY <1>2, <1>3, <1>4 DEF Careful

\* One pilot moves, with or without its process.
LEMMA PilotMoves ==
  ASSUME PromotionInv, NEW p \in Pilots, pilot'[p] \in PilotRecords, remote'[p] \in RemoteRecords,
         pilot' = [pilot EXCEPT ![p] = pilot'[p]], remote' = [remote EXCEPT ![p] = remote'[p]],
         UNCHANGED <<canary, hour>>, host' \in HostRecords, Careful(p),
         StageKept', DeploymentKept', Earned(host'.points), PromotionKept', \A t \in Ticks : TickKept(t)',
         PilotKept(p)'
  PROVE  PromotionInv'
<1>1. PromotionTypes'
  BY DEF PromotionInv, PromotionTypes
<1>2. ASSUME NEW q \in Pilots PROVE PilotKept(q)'
  <2>1. CASE q # p
    <3>1. pilot'[q] = pilot[q] /\ remote'[q] = remote[q]
      BY <2>1 DEF PromotionInv, PromotionTypes
    <3> QED
      BY <2>1, <3>1, OthersStay
  <2> QED
    BY <2>1
<1> QED
  BY <1>1, <1>2 DEF PromotionInv

\* One pilot moves, and the host stays as it is.
LEMMA OnlyPilotMoves ==
  ASSUME PromotionInv, NEW p \in Pilots, pilot'[p] \in PilotRecords, remote'[p] \in RemoteRecords,
         pilot' = [pilot EXCEPT ![p] = pilot'[p]], remote' = [remote EXCEPT ![p] = remote'[p]],
         UNCHANGED <<host, canary, hour>>, pilot[p].at = 12 => pilot'[p].at = 12, PilotKept(p)'
  PROVE  PromotionInv'
<1>1. Careful(p)
  BY DEF Careful, SameEvidence, SameStage
<1>2. StageKept' /\ PromotionKept' /\ Earned(host'.points) /\ host' \in HostRecords
  BY DEF PromotionInv, PromotionTypes, StageKept, PromotionKept, Begun, Whole
<1>3. \A t \in Ticks : TickKept(t)'
  BY DEF PromotionInv, TickKept, Whole
<1>4. DeploymentKept'
  BY DEF PromotionInv, PromotionTypes, PilotRecords, HostRecords, PairFiles, DeploymentKept, EvidenceIsOwn,
     Whole, Own, Serves
<1> QED
  BY <1>1, <1>2, <1>3, <1>4, PilotMoves

\* What the invariant says of one pilot.
LEMMA HeldPilot ==
  ASSUME PromotionInv, NEW p \in Pilots
  PROVE  /\ pilot[p] \in PilotRecords /\ remote[p] \in RemoteRecords /\ NoProcess \in RemoteRecords
         /\ pilot = [pilot EXCEPT ![p] = pilot[p]] /\ remote = [remote EXCEPT ![p] = remote[p]]
         /\ pilot[p].at \in 0 .. 12 /\ PilotKept(p)
  BY DEF PromotionInv, PromotionTypes, PilotRecords, RemoteRecords, NoProcess

\* A pilot starts or is refused.
LEMMA PilotStartsStep ==
  ASSUME PromotionInv, NEW p \in Pilots, PilotStarts(p)
  PROVE  PromotionInv'
<1>1. PICK pr : pr = pilot'[p]
  OBVIOUS
<1>2. /\ pr \in PilotRecords /\ pilot' = [pilot EXCEPT ![p] = pr]
      /\ (pr.at = 1 /\ pr.end = None) \/ (pr.at = 0 /\ pr.end = "failed")
  BY <1>1, HeldPilot DEF PilotStarts, PromotionInv, PromotionTypes, PilotRecords, Ends
<1>3. pilot[p].at = 0 /\ remote[p] = NoProcess /\ remote'[p] = remote[p] /\ host' = host
  BY HeldPilot DEF PilotStarts, PilotKept, PilotAgrees
<1>4. pilot'[p] = pr
  BY <1>1
<1>5. PilotAgrees(p)' /\ (Unfinished(p)' => Achieved(p)')
  BY <1>2, <1>3, <1>4, NoneIsNothing DEF PilotAgrees, Unfinished, Piloting, Achieved, Past, NoProcess
<1>6. UnderWay(p)' /\ IngressOf(p)'
  BY <1>2, <1>3, <1>4, HeldPilot, NoneIsNothing DEF PilotKept, UnderWay, IngressOf, NoProcess, Carries
<1>7. PilotKept(p)'
  BY <1>5, <1>6 DEF PilotKept
<1>8. remote' = [remote EXCEPT ![p] = remote'[p]] /\ UNCHANGED <<host, canary, hour>>
  BY HeldPilot DEF PilotStarts
<1> QED
<2>1. pilot'[p] \in PilotRecords /\ remote'[p] \in RemoteRecords
  BY <1>2, <1>3, <1>4, HeldPilot
<2>2. pilot' = [pilot EXCEPT ![p] = pilot'[p]]
  BY <1>2, <1>4
<2>3. pilot[p].at = 12 => pilot'[p].at = 12
  BY <1>3
<2>4. QED
  BY <1>7, <1>8, <2>1, <2>2, <2>3, OnlyPilotMoves

\* The next phase is asked for.
LEMMA AsksHostStep ==
  ASSUME PromotionInv, NEW p \in Pilots, AsksHost(p)
  PROVE  PromotionInv'
<1>1. PICK re : re = [NoProcess EXCEPT !.cmd = PhaseOf(p)]
  OBVIOUS
<1>2. /\ re \in RemoteRecords /\ remote' = [remote EXCEPT ![p] = re] /\ remote'[p] = re
      /\ re.cmd = PhaseOf(p) /\ re.part = 0 /\ re.answer = None /\ re.got = None
  BY <1>1, HeldPilot, PhaseNumbers DEF AsksHost, Piloting, PromotionInv, PromotionTypes, RemoteRecords,
     NoProcess, PhaseOf
<1>3. pilot[p].at \in 1 .. 12 /\ pilot[p].end = None /\ pilot'[p] = pilot[p] /\ host' = host /\ remote[p] = NoProcess
  BY HeldPilot DEF AsksHost, Piloting
<1>4. PilotKept(p)'
  BY <1>2, <1>3, HeldPilot, NoneIsNothing, PhaseNumbers DEF PilotKept, PilotAgrees, Unfinished, Piloting,
     Achieved, Past, UnderWay, IngressOf, NoProcess, Carries, Own, Serves, CutoverOf, PhaseOf
<1> QED
  BY <1>2, <1>3, <1>4, HeldPilot, OnlyPilotMoves DEF AsksHost

\* An answer is heard: the pilot goes to the next phase with what the phase left.
LEMMA HearsStep ==
  ASSUME PromotionInv, NEW p \in Pilots, Hears(p)
  PROVE  PromotionInv'
<1>1. /\ pilot[p] \in PilotRecords /\ pilot[p].at \in 1 .. 12 /\ pilot[p].end = None
      /\ remote[p] \in RemoteRecords /\ remote[p].answer = "passed" /\ remote[p].cmd = Phases[pilot[p].at]
  BY HeldPilot DEF Hears, Piloting, PhaseOf
<1>2. PICK n : n = pilot[p].at
  OBVIOUS
<1>3. PICK got : got = remote[p].got
  OBVIOUS
<1>4. PICK pr : pr = pilot'[p]
  OBVIOUS
<1>5. /\ n \in 1 .. 12 /\ got = remote[p].got /\ n = pilot[p].at /\ pr = pilot'[p]
      /\ n = 8 => got \in Nat
      /\ n = 10 => got \in PointFiles
  BY <1>1, <1>2, <1>3, <1>4, HeldPilot DEF PilotKept, PilotAgrees
<1>6. Phases[n] = "activate" <=> n = 8
  BY <1>5, PhaseNumbers
<1>7. Phases[n] = "observe" <=> n = 10
  BY <1>5, PhaseNumbers
<1>8. PICK act : act = IF n = 8 THEN got ELSE pilot[p].activation
  OBVIOUS
<1>9. PICK seen : seen = IF n = 10 THEN got ELSE pilot[p].seen
  OBVIOUS
<1>10. act \in Nat \cup {None} /\ seen \in PointFiles \cup {None}
  BY <1>1, <1>5, <1>8, <1>9 DEF PilotRecords
<1>11. pr = IF n = 12 THEN [[[pilot[p] EXCEPT !.activation = act] EXCEPT !.seen = seen] EXCEPT !.end = "passed"]
            ELSE [[[pilot[p] EXCEPT !.activation = act] EXCEPT !.seen = seen] EXCEPT !.at = n + 1]
  BY <1>1, <1>5, <1>6, <1>7, <1>8, <1>9 DEF Hears, PhaseOf, PromotionInv, PromotionTypes, PilotRecords
<1>12. /\ pr \in PilotRecords /\ pr.activation = act /\ pr.seen = seen
       /\ n = 12 => pr.at = 12 /\ pr.end = "passed"
       /\ n # 12 => pr.at = n + 1 /\ pr.end = None
  <2>1. PICK a : a = [pilot[p] EXCEPT !.activation = act]
    OBVIOUS
  <2>2. a \in PilotRecords /\ a.activation = act /\ a.at = n /\ a.end = None
    BY <1>1, <1>5, <1>10, <2>1 DEF PilotRecords
  <2>3. PICK b : b = [a EXCEPT !.seen = seen]
    OBVIOUS
  <2>4. b \in PilotRecords /\ b.activation = act /\ b.seen = seen /\ b.at = n /\ b.end = None
    BY <1>10, <2>2, <2>3 DEF PilotRecords
  <2>5. CASE n = 12
    BY <1>11, <2>1, <2>3, <2>4, <2>5 DEF PilotRecords, Ends
  <2>6. CASE n # 12
    <3>1. PICK m \in 0 .. 12 : m = n + 1
      BY <1>5, <2>6
    <3> QED
      BY <1>11, <2>1, <2>3, <2>4, <2>6, <3>1 DEF PilotRecords
  <2> QED
    BY <2>5, <2>6
<1>13. /\ pilot' = [pilot EXCEPT ![p] = pilot'[p]] /\ remote' = [remote EXCEPT ![p] = remote'[p]]
       /\ remote'[p] = NoProcess /\ UNCHANGED <<host, canary, hour>>
  BY DEF Hears, PromotionInv, PromotionTypes
<1>14. PilotAgrees(p)'
  <2>1. /\ n > 8 => pilot[p].activation \in Nat
        /\ n > 10 => pilot[p].seen \in PointFiles
    BY <1>5, HeldPilot DEF PilotKept, PilotAgrees
  <2>2. pr.at \in 1 .. 12 /\ (pr.at > 8 => pr.activation \in Nat) /\ (pr.at > 10 => pr.seen \in PointFiles)
    BY <1>5, <1>8, <1>9, <1>12, <2>1
  <2> QED
    BY <1>5, <1>13, <2>2, NoneIsNothing DEF PilotAgrees, NoProcess
<1>15. Unfinished(p)' => Achieved(p)'
  <2>1. Achieved(p)
    BY <1>1 DEF PromotionInv, PilotKept, Unfinished, Piloting
  <2>2. /\ Past(p, 2)' => Past(p, 2)
        /\ Past(p, 3)' => Past(p, 3)
        /\ Past(p, 4)' => Past(p, 4)
        /\ Past(p, 5)' => Past(p, 5)
        /\ Past(p, 9)' => Past(p, 9)
        /\ Past(p, 11)' => n = 12 \/ n = 11
    BY <1>1, <1>5, <1>12, <1>13, NoneIsNothing DEF Past, NoProcess
  <2> QED
  BY <1>1, <1>5, <1>8, <1>9, <1>12, <1>13, <2>1, <2>2, NoneIsNothing DEF Achieved, NoProcess, Own, Serves,
     CutoverOf, Past
<1>16. UnderWay(p)' /\ IngressOf(p)'
  BY <1>1, <1>5, <1>6, <1>12, <1>13, HeldPilot, NoneIsNothing DEF UnderWay, NoProcess, IngressOf, Carries,
     PilotKept
<1>17. PilotKept(p)'
  BY <1>14, <1>15, <1>16 DEF PilotKept
<1>18. pilot'[p] \in PilotRecords /\ remote'[p] \in RemoteRecords /\ (pilot[p].at = 12 => pilot'[p].at = 12)
  BY <1>5, <1>12, <1>13, HeldPilot
<1> QED
  BY <1>13, <1>17, <1>18, OnlyPilotMoves

\* A pilot that ends leaves its process at most what it was.
LEMMA PilotEnds ==
  ASSUME PromotionInv, NEW p \in Pilots, NEW end \in Ends, pilot[p].at > 0,
         pilot' = [pilot EXCEPT ![p].end = end],
         \/ remote' = remote
         \/ remote' = [remote EXCEPT ![p] = NoProcess],
         UNCHANGED <<host, canary, hour>>,
         end # "rolledBack",
         end = "failed" => remote'[p].cmd # "activate" /\ (host.ingress = None \/ host.ingress.by # p),
         Unfinished(p)
  PROVE  PromotionInv'
<1>1. /\ pilot'[p] \in PilotRecords /\ pilot'[p].at = pilot[p].at /\ pilot'[p].end = end
      /\ pilot'[p].activation = pilot[p].activation /\ pilot'[p].seen = pilot[p].seen
      /\ pilot' = [pilot EXCEPT ![p] = pilot'[p]]
  BY DEF PromotionInv, PromotionTypes, PilotRecords
<1>2. /\ remote'[p] \in RemoteRecords /\ remote' = [remote EXCEPT ![p] = remote'[p]]
      /\ remote'[p] = NoProcess \/ remote'[p] = remote[p]
  BY HeldPilot DEF PromotionInv, PromotionTypes
<1>3. PilotAgrees(p)' /\ UnderWay(p)' /\ IngressOf(p)'
  <2>1. PilotAgrees(p)'
    BY <1>1, <1>2, HeldPilot, NoneIsNothing DEF PilotKept, PilotAgrees, NoProcess, PhaseOf, Ends
  <2>2. UnderWay(p)'
    BY <1>1, <1>2, HeldPilot, NoneIsNothing DEF PilotKept, UnderWay, NoProcess, Half, Whole
  <2>3. IngressOf(p)'
    BY <1>1, <1>2, HeldPilot, NoneIsNothing DEF PilotKept, IngressOf, NoProcess, Carries, Ends
  <2> QED
    BY <2>1, <2>2, <2>3
<1>4. Achieved(p)'
  BY <1>1, <1>2, HeldPilot, NoneIsNothing DEF PilotKept, Achieved, Past, Own, Serves, CutoverOf, NoProcess
<1>5. PilotKept(p)'
  BY <1>3, <1>4 DEF PilotKept
<1> QED
  BY <1>1, <1>2, <1>5, OnlyPilotMoves

\* A pilot fails, or is killed.
LEMMA PilotFailsStep ==
  ASSUME PromotionInv, NEW p \in Pilots, PilotFails(p) \/ PilotDies(p)
  PROVE  PromotionInv'
<1>1. /\ pilot[p].at > 0 /\ UNCHANGED <<host, canary, hour>> /\ pilot[p].end \in {None, "rollingBack"}
      /\ Unfinished(p)
  BY DEF PilotFails, PilotDies, Unfinished, Piloting
<1>2. CASE PilotDies(p)
  <2>1. "killed" \in Ends /\ "killed" # "rolledBack" /\ "killed" # "failed"
    BY DEF Ends
  <2> QED
    BY <1>1, <1>2, <2>1, PilotEnds DEF PilotDies
<1>3. CASE PilotFails(p)
  <2>1. PICK end : end = IF Opened(p) THEN "rollingBack" ELSE "failed"
    OBVIOUS
  <2>2. end \in Ends /\ end # "rolledBack" /\ (end = "failed" => ~Opened(p))
    BY <2>1 DEF Ends
  <2>3. pilot' = [pilot EXCEPT ![p].end = end]
    BY <1>3, <2>1 DEF PilotFails
  <2>4. remote' = remote \/ remote' = [remote EXCEPT ![p] = NoProcess]
    BY <1>3, HeldPilot DEF PilotFails
  <2>5. remote'[p] = NoProcess \/ remote'[p] = remote[p]
    BY <2>4, HeldPilot DEF PromotionInv, PromotionTypes
  <2>6. ASSUME ~Opened(p) PROVE remote'[p].cmd # "activate" /\ (host.ingress = None \/ host.ingress.by # p)
    <3>1. pilot[p].at \in 1 .. 8 /\ pilot[p].end = None
      BY <1>1, <1>3, <2>6, HeldPilot DEF Opened, PilotFails, Piloting
    <3>2. remote[p].cmd # "activate"
      BY <2>6, <3>1, HeldPilot, NoneIsNothing, PhaseNumbers DEF Opened, PilotKept, PilotAgrees, PhaseOf
    <3>3. host.ingress = None \/ host.ingress.by # p
      BY <3>1, <3>2, HeldPilot DEF PilotKept, IngressOf
    <3> QED
      BY <2>5, <3>2, <3>3, NoneIsNothing DEF NoProcess
  <2> QED
    BY <1>1, <2>2, <2>3, <2>4, <2>6, PilotEnds
<1> QED
  BY <1>2, <1>3

\* A process is killed.
LEMMA HostStopsStep ==
  ASSUME PromotionInv, NEW p \in Pilots, HostStops(p)
  PROVE  PromotionInv'
<1>1. PICK re : re = remote'[p]
  OBVIOUS
<1>2. /\ re \in RemoteRecords /\ remote' = [remote EXCEPT ![p] = remote'[p]] /\ re = remote'[p]
      /\ IF Piloting(p) THEN re.answer = "error" /\ re.cmd = remote[p].cmd ELSE re = NoProcess
  BY <1>1, HeldPilot DEF HostStops, PromotionInv, PromotionTypes, RemoteRecords
<1>3. /\ pilot' = [pilot EXCEPT ![p] = pilot'[p]] /\ pilot'[p] = pilot[p] /\ UNCHANGED <<host, canary, hour>>
      /\ remote[p] # NoProcess /\ pilot[p] \in PilotRecords /\ remote[p].cmd # None
  BY HeldPilot DEF HostStops, NoProcess
<1>4. re.answer # "passed" /\ (re.cmd = None \/ re.cmd = remote[p].cmd) /\ (re.cmd = None => re = NoProcess)
  BY <1>2, <1>3, NoneIsNothing DEF NoProcess
<1>5. PilotAgrees(p)' /\ UnderWay(p)'
  BY <1>2, <1>3, <1>4, HeldPilot, NoneIsNothing DEF PilotKept, PilotAgrees, NoProcess, UnderWay, PhaseOf
<1>6. IngressOf(p)'
  BY <1>2, <1>3, <1>4, HeldPilot, NoneIsNothing DEF PilotKept, IngressOf, NoProcess, Carries, Piloting,
     PilotAgrees
<1>7. Unfinished(p)' => Achieved(p)'
  <2>1. Achieved(p)
    BY <1>3, HeldPilot DEF PilotKept, Unfinished
  <2> QED
    BY <1>2, <1>3, <1>4, <2>1 DEF Achieved, Past, Own, Serves, CutoverOf
<1>8. PilotKept(p)'
  BY <1>5, <1>6, <1>7 DEF PilotKept
<1> QED
  BY <1>2, <1>3, <1>8, OnlyPilotMoves

\* What was opened is closed, or was overtaken.
LEMMA RollsBackStep ==
  ASSUME PromotionInv, NEW p \in Pilots, RollsBack(p)
  PROVE  PromotionInv'
<1>1. PICK pr : pr = pilot'[p]
  OBVIOUS
<1>2. /\ pr \in PilotRecords /\ pilot' = [pilot EXCEPT ![p] = pilot'[p]] /\ pr = pilot'[p]
      /\ pr.at = pilot[p].at /\ pr.activation = pilot[p].activation /\ pr.seen = pilot[p].seen
      /\ pr.end \in {"overtaken", "rolledBack", "notRolledBack"}
  BY <1>1, HeldPilot DEF RollsBack, PromotionInv, PromotionTypes, PilotRecords, Ends
<1>3. /\ remote' = [remote EXCEPT ![p] = remote'[p]] /\ remote'[p] = remote[p] /\ remote[p] \in RemoteRecords
      /\ UNCHANGED <<canary, hour>> /\ pilot[p].end = "rollingBack" /\ pilot[p].at > 0
  BY HeldPilot, NoneIsNothing DEF RollsBack, PilotKept, PilotAgrees, PromotionInv, PromotionTypes, PilotRecords
<1>4. PilotAgrees(p)' /\ Achieved(p)
  BY <1>2, <1>3, HeldPilot DEF PilotKept, PilotAgrees, PhaseOf, Unfinished
<1>5. CASE host' = host /\ pr.end = "notRolledBack"
  <2>1. UnderWay(p)' /\ IngressOf(p)'
    BY <1>2, <1>3, <1>5, HeldPilot, NoneIsNothing DEF PilotKept, UnderWay, Half, Whole, IngressOf, Carries
  <2>2. Achieved(p)'
    BY <1>2, <1>3, <1>4, <1>5 DEF Achieved, Past, Own, Serves, CutoverOf
  <2>3. PilotKept(p)'
    BY <1>4, <2>1, <2>2 DEF PilotKept
  <2> QED
    BY <1>2, <1>3, <1>5, <2>3, OnlyPilotMoves
<1>6. CASE /\ host' = [host EXCEPT !.ingress = None]
           /\ pr.end = IF Carries(p, "activate", 0) THEN "overtaken" ELSE "rolledBack"
  <2>1. /\ host' \in HostRecords /\ host'.ingress = None
        /\ host'.consumers = host.consumers /\ host'.stage = host.stage /\ host'.handoff = host.handoff
        /\ host'.backup = host.backup /\ host'.replay = host.replay /\ host'.browser = host.browser
        /\ host'.deployment = host.deployment /\ host'.points = host.points
        /\ host'.contracts = host.contracts /\ host'.promotion = host.promotion /\ host'.clears = host.clears
        /\ host'.late = host.late
    BY <1>6 DEF PromotionInv, PromotionTypes, HostRecords
  <2>2. Careful(p)
    BY <2>1 DEF Careful, SameEvidence, SameStage
  <2>3. StageKept' /\ PromotionKept' /\ Earned(host'.points) /\ \A t \in Ticks : TickKept(t)'
    BY <1>3, <2>1 DEF PromotionInv, StageKept, PromotionKept, Begun, Whole, TickKept
  <2>4. DeploymentKept'
    BY <1>2, <2>1 DEF PromotionInv, PromotionTypes, HostRecords, PairFiles, PilotRecords, DeploymentKept,
       EvidenceIsOwn, Whole, Own, Serves, Pairs
  <2>5. UnderWay(p)' /\ IngressOf(p)'
    BY <1>2, <1>3, <1>6, <2>1, HeldPilot, NoneIsNothing DEF PilotKept, UnderWay, Half, Whole, IngressOf, Carries
  <2>6. Achieved(p)'
    BY <1>2, <1>3, <1>4, <2>1 DEF Achieved, Past, Own, Serves, CutoverOf
  <2>7. PilotKept(p)'
    BY <1>4, <2>5, <2>6 DEF PilotKept
  <2> QED
    BY <1>2, <1>3, <2>1, <2>2, <2>3, <2>4, <2>7, PilotMoves
<1> QED
  BY <1>2, <1>5, <1>6, HeldPilot DEF RollsBack, PromotionInv, PromotionTypes, PilotRecords

---------------------------------------------------------------------------
\* What the process of phase k may change of the host.
Touches(k) ==
  /\ k # 2 => host'.consumers = host.consumers /\ host'.late = host.late /\ SameStage
  /\ k # 3 => host'.handoff = host.handoff
  /\ k # 4 => host'.backup = host.backup
  /\ k # 5 => host'.replay = host.replay
  /\ k # 8 => host'.ingress = host.ingress
  /\ k # 9 => host'.browser = host.browser
  /\ k # 11 => host'.points = host.points
  /\ k # 12 => host'.deployment = host.deployment
  /\ host'.promotion = host.promotion /\ host'.clears = host.clears

\* What has been done once phase k has passed.
Achieves(p, k) ==
  /\ k = 2 => Own(p, "consumers")
  /\ k = 3 => Own(p, "handoff")
  /\ k = 4 => host.backup = p
  /\ k = 5 => Own(p, "replay")
  /\ k = 8 => remote[p].got \in Nat /\ Serves(p, remote[p].got)
  /\ k = 9 => Own(p, "browser")
  /\ k = 10 => remote[p].got \in PointFiles /\ CutoverOf(p, remote[p].got)
  /\ k = 11 => host.points[1] = pilot[p].seen

\* A process on the host makes a step of phase k.
WorksOn(p, k) ==
  /\ remote[p].cmd = Phases[k] /\ remote[p].answer = None
  /\ UNCHANGED <<pilot, canary, hour>>
  /\ remote' = [remote EXCEPT ![p] = remote'[p]] /\ remote'[p] \in RemoteRecords
  /\ remote'[p].cmd = remote[p].cmd /\ remote'[p].part \in {remote[p].part, remote[p].part + 1}
  /\ host' \in HostRecords /\ Touches(k)

\* Where the pilot of a process at work is.
LEMMA AtWork ==
  ASSUME PromotionInv, NEW p \in Pilots, NEW k \in 1 .. 12, remote[p].cmd = Phases[k], remote[p].answer = None
  PROVE  /\ pilot[p].at = k /\ Unfinished(p) /\ Achieved(p) /\ UnderWay(p) /\ (Past(p, 2) <=> k > 2)
         /\ pilot[p] \in PilotRecords /\ remote[p] \in RemoteRecords
<1>1. Phases[k] # None
  BY PhaseNumbers, NoneIsNothing
<1>2. pilot[p].at = k
  BY <1>1, PhaseNumbers, HeldPilot DEF PilotKept, PilotAgrees, PhaseOf
<1>3. Unfinished(p)
  BY <1>1 DEF Unfinished, NoProcess
<1> QED
  BY <1>2, <1>3, HeldPilot, NoneIsNothing DEF PilotKept, Past

\* The pair of the consumers stays, or is not whole yet: who has looked is kept at the seal.
SealsOrStays ==
  \/ host'.consumers = host.consumers /\ host'.late = host.late
  \/ ~Whole("consumers") /\ (Whole("consumers")' => HaveLooked \subseteq host'.late)

\* A step on the host that touches only what its phase may, and leaves what it promises.
LEMMA WorkMoves ==
  ASSUME PromotionInv, NEW p \in Pilots, NEW k \in 1 .. 12, WorksOn(p, k),
         k = 2 => host' = host \/ (host.stage \in {None, p} /\ SealsOrStays /\ StageKept'),
         k = 8 => host'.ingress = host.ingress
                  \/ (host'.ingress \in Ingresses /\ host'.ingress.by = p /\ remote[p].part = 0),
         k = 11 => host'.points = host.points \/ (host.points[1] = None /\ Earned(host'.points)),
         k = 12 => ~Whole("deployment") /\ DeploymentKept',
         UnderWay(p)', remote'[p].answer = "passed" => Achieves(p, k)'
  PROVE  PromotionInv'
<1>1. /\ pilot[p].at = k /\ Unfinished(p) /\ Achieved(p) /\ (Past(p, 2) <=> k > 2)
      /\ pilot' = pilot /\ pilot[p] \in PilotRecords /\ pilot' = [pilot EXCEPT ![p] = pilot'[p]]
      /\ UNCHANGED <<canary, hour>>
  BY AtWork, HeldPilot DEF WorksOn
<1>2. Careful(p)
  BY <1>1 DEF WorksOn, Touches, Careful, SealsOrStays, SameEvidence, SameStage
<1>3. StageKept'
  BY DEF WorksOn, Touches, SameStage, PromotionInv, StageKept, Whole
<1>4. Earned(host'.points)
  BY DEF WorksOn, Touches, PromotionInv
<1>5. PromotionKept'
  BY DEF WorksOn, Touches, PromotionInv, PromotionKept, Begun
<1>6. DeploymentKept' /\ \A t \in Ticks : TickKept(t)'
  <2>1. CASE k = 1 \/ (k = 2 /\ host'.consumers = host.consumers)
    BY <2>1 DEF WorksOn, Touches, PromotionInv, PromotionTypes, HostRecords, PairFiles, DeploymentKept,
       EvidenceIsOwn, Pairs,
       Whole, Own, Serves, TickKept
  <2>2. CASE k # 1 /\ k # 12 /\ (k = 2 => host'.consumers # host.consumers)
    <3>1. host.deployment = None /\ \A t \in Ticks : canary[t].at = "idle"
      BY <1>1, <2>2, NoneDeployed DEF SealsOrStays
    <3> QED
      BY <2>2, <3>1 DEF WorksOn, Touches, DeploymentKept, EvidenceIsOwn, Whole, TickKept
  <2>3. CASE k = 12
    BY <2>3 DEF WorksOn, PromotionInv, TickKept
  <2> QED
    BY <2>1, <2>2, <2>3
<1>7. PilotAgrees(p)'
  BY <1>1, PhaseNumbers, NoneIsNothing, HeldPilot DEF WorksOn, PilotKept, PilotAgrees, PhaseOf, Achieves
<1>8. Achieved(p)'
  BY <1>1, NoneIsNothing DEF WorksOn, Touches, Achieved, Achieves, Past, Own, Serves, CutoverOf, PilotRecords
<1>9. IngressOf(p)'
  <2>1. Phases[8] = "activate" /\ IngressOf(p)
    BY PhaseNumbers, HeldPilot DEF PilotKept
  <2>2. CASE host'.ingress = host.ingress
    <3>1. remote'[p].part = 0 => remote[p].part = 0
      BY HeldPilot DEF WorksOn, RemoteRecords
    <3> QED
      BY <1>1, <2>1, <2>2, <3>1 DEF WorksOn, IngressOf, Carries
  <2>3. CASE host'.ingress # host.ingress
    <3>1. k = 8 /\ remote[p].part = 0
      BY <2>3 DEF WorksOn, Touches
    <3> QED
      BY <1>1, <2>1, <3>1 DEF WorksOn, IngressOf, Carries
  <2> QED
    BY <2>2, <2>3
<1>10. PilotKept(p)'
  BY <1>7, <1>8, <1>9 DEF PilotKept
<1> QED
  BY <1>1, <1>2, <1>3, <1>4, <1>5, <1>6, <1>10, PilotMoves DEF WorksOn

\* A process answers, and leaves the host as it was.
LEMMA AnswersOnly ==
  ASSUME PromotionInv, NEW p \in Pilots, NEW k \in 1 .. 12, remote[p].cmd = Phases[k], remote[p].answer = None,
         UNCHANGED <<host, pilot, canary, hour>>,
         remote' = [remote EXCEPT ![p] = remote'[p]], remote'[p] \in RemoteRecords,
         remote'[p].cmd = remote[p].cmd, remote'[p].part = remote[p].part, remote'[p].answer # None,
         remote'[p].answer = "passed" => Achieves(p, k)'
  PROVE  PromotionInv'
<1>1. /\ pilot[p].at = k /\ Unfinished(p) /\ Achieved(p) /\ pilot' = pilot /\ pilot[p] \in PilotRecords
      /\ pilot' = [pilot EXCEPT ![p] = pilot'[p]]
  BY AtWork, HeldPilot
<1>2. PilotAgrees(p)' /\ UnderWay(p)'
  BY <1>1, PhaseNumbers, NoneIsNothing, HeldPilot DEF PilotKept, PilotAgrees, PhaseOf, Achieves, UnderWay
<1>3. Achieved(p)'
  BY <1>1, NoneIsNothing DEF Achieved, Achieves, Past, Own, Serves, CutoverOf, PilotRecords
<1>4. IngressOf(p)'
  BY <1>1, HeldPilot DEF PilotKept, IngressOf, Carries
<1>5. PilotKept(p)'
  BY <1>2, <1>3, <1>4 DEF PilotKept
<1> QED
  BY <1>1, <1>5, OnlyPilotMoves

\* What a process says, or that it goes on.
LEMMA Answering ==
  ASSUME PromotionInv, NEW p \in Pilots
  PROVE  /\ Errs(p) => /\ remote' = [remote EXCEPT ![p] = remote'[p]] /\ remote'[p] \in RemoteRecords
                       /\ remote'[p].cmd = remote[p].cmd /\ remote'[p].part = remote[p].part
                       /\ remote'[p].answer = "error"
         /\ Passes(p) => /\ remote' = [remote EXCEPT ![p] = remote'[p]] /\ remote'[p] \in RemoteRecords
                         /\ remote'[p].cmd = remote[p].cmd /\ remote'[p].part = remote[p].part
                         /\ remote'[p].answer = "passed"
         /\ Step(p) /\ remote[p].part \in 0 .. 3 =>
                         /\ remote' = [remote EXCEPT ![p] = remote'[p]] /\ remote'[p] \in RemoteRecords
                         /\ remote'[p].cmd = remote[p].cmd /\ remote'[p].part = remote[p].part + 1
                         /\ remote'[p].answer = remote[p].answer
<1>1. remote \in [Pilots -> RemoteRecords]
  BY DEF PromotionInv, PromotionTypes
<1>2. ASSUME Errs(p) PROVE /\ remote' = [remote EXCEPT ![p] = remote'[p]] /\ remote'[p] \in RemoteRecords
                       /\ remote'[p].cmd = remote[p].cmd /\ remote'[p].part = remote[p].part
                       /\ remote'[p].answer = "error"
  BY <1>1, <1>2 DEF Errs, RemoteRecords
<1>3. ASSUME Passes(p) PROVE /\ remote' = [remote EXCEPT ![p] = remote'[p]] /\ remote'[p] \in RemoteRecords
                         /\ remote'[p].cmd = remote[p].cmd /\ remote'[p].part = remote[p].part
                         /\ remote'[p].answer = "passed"
  BY <1>1, <1>3 DEF Passes, RemoteRecords
<1>4. ASSUME Step(p), remote[p].part \in 0 .. 3
      PROVE  /\ remote' = [remote EXCEPT ![p] = remote'[p]] /\ remote'[p] \in RemoteRecords
             /\ remote'[p].cmd = remote[p].cmd /\ remote'[p].part = remote[p].part + 1
             /\ remote'[p].answer = remote[p].answer
  <2>1. PICK n \in 0 .. 4 : n = remote[p].part + 1
    BY <1>4
  <2> QED
    BY <1>1, <1>4, <2>1 DEF Step, RemoteRecords
<1> QED
  BY <1>2, <1>3, <1>4

\* A process answers with something.
LEMMA Giving ==
  ASSUME PromotionInv, NEW p \in Pilots, NEW got \in Nat \cup PointFiles, Gives(p, got)
  PROVE  /\ remote' = [remote EXCEPT ![p] = remote'[p]] /\ remote'[p] \in RemoteRecords
         /\ remote'[p].cmd = remote[p].cmd /\ remote'[p].part = remote[p].part
         /\ remote'[p].answer = "passed" /\ remote'[p].got = got
  BY DEF PromotionInv, PromotionTypes, Gives, RemoteRecords

\* A process answers with an error, and leaves the host as it was.
LEMMA ErrsStep ==
  ASSUME PromotionInv, NEW p \in Pilots, NEW k \in 1 .. 12, remote[p].cmd = Phases[k], remote[p].answer = None,
         UNCHANGED <<host, pilot, canary, hour>>, Errs(p)
  PROVE  PromotionInv'
<1>1. /\ remote' = [remote EXCEPT ![p] = remote'[p]] /\ remote'[p] \in RemoteRecords
      /\ remote'[p].cmd = remote[p].cmd /\ remote'[p].part = remote[p].part
      /\ remote'[p].answer = "error"
  BY Answering
<1> QED
  BY <1>1, NoneIsNothing, AnswersOnly

\* Services are started.
LEMMA StartsServicesStep ==
  ASSUME PromotionInv, NEW p \in Pilots, StartsServices(p), UNCHANGED <<pilot, canary, hour>>
  PROVE  PromotionInv'
<1>1. PICK k \in {1, 6, 7} : remote[p].cmd = Phases[k]
  BY DEF StartsServices, Carries, Phases
<1>2. remote[p].answer = None /\ UNCHANGED <<host, pilot, canary, hour>>
  BY DEF StartsServices, Carries
<1>3. CASE Errs(p)
  BY <1>1, <1>2, <1>3, ErrsStep
<1>4. CASE Passes(p)
  <2>1. Achieves(p, k)'
    BY <1>1 DEF Achieves
  <2>2. /\ remote' = [remote EXCEPT ![p] = remote'[p]] /\ remote'[p] \in RemoteRecords
        /\ remote'[p].cmd = remote[p].cmd /\ remote'[p].part = remote[p].part
        /\ remote'[p].answer = "passed"
    BY <1>4, Answering
  <2> QED
    BY <1>1, <1>2, <2>1, <2>2, NoneIsNothing, AnswersOnly
<1> QED
  BY <1>3, <1>4 DEF StartsServices

\* How a step of phase k goes on or answers, beside what it did to the host.
GoesOn(p) ==
  /\ remote' = [remote EXCEPT ![p] = remote'[p]] /\ remote'[p] \in RemoteRecords
  /\ remote'[p].cmd = remote[p].cmd
  /\ \/ remote'[p].part = remote[p].part /\ remote'[p].answer \in {"passed", "error"}
     \/ remote'[p].part = remote[p].part + 1 /\ remote'[p].answer = remote[p].answer

\* Every answer goes on.
LEMMA GoingOn ==
  ASSUME PromotionInv, NEW p \in Pilots,
         Errs(p) \/ Passes(p) \/ (Step(p) /\ remote[p].part \in 0 .. 3)
  PROVE  GoesOn(p)
  BY Answering DEF GoesOn

\* The contracts are deployed by who made the directory of the run, after a look at the pair.
LEMMA DeploysConsumersStep ==
  ASSUME PromotionInv, NEW p \in Pilots, DeploysConsumers(p), UNCHANGED <<pilot, canary, hour>>
  PROVE  PromotionInv'
<1>1. /\ remote[p].cmd = "consumers" /\ remote[p].answer = None /\ remote[p].cmd = Phases[2]
  BY PhaseNumbers DEF DeploysConsumers, Carries
<1>2. pilot[p].at = 2 /\ UnderWay(p) /\ remote[p] \in RemoteRecords
  BY <1>1, AtWork
<1>3. host \in HostRecords /\ StageKept /\ p # None
  BY PromotionAssumption DEF PromotionInv, PromotionTypes
<1>4. ASSUME Errs(p), UNCHANGED host PROVE PromotionInv'
  BY <1>1, <1>4, ErrsStep
<1>5. CASE remote[p].part = 0 /\ host.consumers = None /\ UNCHANGED host /\ Step(p)
  <2>1. GoesOn(p) /\ remote'[p].part = 1 /\ remote'[p].answer = None
    BY <1>1, <1>5, Answering DEF GoesOn
  <2>2. WorksOn(p, 2)
    BY <1>1, <1>3, <1>5, <2>1 DEF WorksOn, GoesOn, Touches, SameStage
  <2>3. UnderWay(p)'
    BY <1>1, <1>5, <2>1, <2>2 DEF UnderWay, WorksOn, Whole
  <2> QED
    BY <1>5, <2>1, <2>2, <2>3, NoneIsNothing, WorkMoves
<1>6. CASE /\ remote[p].part = 1 /\ host.stage = None
           /\ host' = [host EXCEPT !.stage = p] /\ Step(p)
  <2>1. GoesOn(p) /\ remote'[p].part = 2 /\ remote'[p].answer = None
    BY <1>1, <1>6, Answering DEF GoesOn
  <2>2. /\ WorksOn(p, 2) /\ host'.stage = p /\ host'.consumers = host.consumers
        /\ host'.contracts = host.contracts /\ host'.late = host.late
    BY <1>1, <1>3, <1>6, <2>1 DEF WorksOn, GoesOn, Touches, HostRecords
  <2>3. \A q \in host.contracts : host.stage # q
    BY <1>3, <1>6, PromotionAssumption DEF HostRecords
  <2>4. StageKept'
    BY <1>3, <2>2, <2>3 DEF StageKept, Whole
  <2>5. UnderWay(p)'
    BY <1>1, <1>2, <1>6, <2>1, <2>2 DEF UnderWay, Whole, WorksOn
  <2> QED
    BY <1>6, <2>1, <2>2, <2>4, <2>5, NoneIsNothing, WorkMoves DEF SealsOrStays
<1>7. ASSUME remote[p].part > 1
      PROVE  /\ host.stage = p /\ (Whole("consumers") => p \in host.late)
             /\ remote[p].part > 2 => p \in host.contracts
  BY <1>1, <1>2, <1>7 DEF UnderWay, RemoteRecords
<1>8. CASE /\ remote[p].part = 2 /\ host' = [host EXCEPT !.contracts = @ \cup {p}]
           /\ Step(p) \/ Errs(p)
  <2>1. GoesOn(p) /\ remote'[p].part < 4 /\ remote'[p].answer # "passed"
    BY <1>1, <1>8, Answering, NoneIsNothing DEF GoesOn
  <2>2. /\ WorksOn(p, 2) /\ host'.stage = p /\ host'.consumers = host.consumers
        /\ host'.contracts = host.contracts \cup {p} /\ host'.late = host.late
    BY <1>1, <1>3, <1>7, <1>8, <2>1 DEF WorksOn, GoesOn, Touches, HostRecords
  <2>3. host.stage = p /\ (Whole("consumers") => p \in host.late)
    BY <1>7, <1>8
  <2>4. StageKept'
    BY <1>3, <2>2, <2>3 DEF StageKept, Whole
  <2>5. UnderWay(p)'
    BY <1>1, <2>1, <2>2, <2>3 DEF UnderWay, Whole, WorksOn
  <2> QED
    BY <2>1, <2>2, <2>3, <2>4, <2>5, WorkMoves DEF SealsOrStays
<1>9. CASE /\ remote[p].part = 3 /\ host.consumers = None /\ Step(p)
           /\ host' = [host EXCEPT !.consumers = [by |-> p, at |-> pilot[p].activation, whole |-> FALSE]]
  <2>1. GoesOn(p) /\ remote'[p].part = 4 /\ remote'[p].answer = None
    BY <1>1, <1>9, Answering DEF GoesOn
  <2>2. PICK c : c = [by |-> p, at |-> pilot[p].activation, whole |-> FALSE]
    OBVIOUS
  <2>3. c \in PairFiles /\ c.by = p /\ c.whole = FALSE /\ c # None
    <3>1. PICK act \in Nat \cup {None} : act = pilot[p].activation
      BY HeldPilot DEF PilotRecords
    <3>2. c \in PairFiles
      BY <2>2, <3>1 DEF PairFiles
    <3> QED
      BY <2>2, <3>2, PromotionAssumption
  <2>4. WorksOn(p, 2) /\ host'.stage = host.stage /\ host'.consumers = c /\ host'.contracts = host.contracts
    BY <1>1, <1>3, <1>9, <2>1, <2>2, <2>3 DEF WorksOn, GoesOn, Touches, HostRecords
  <2>5. host.stage = p /\ p \in host.contracts /\ ~Whole("consumers") /\ ~Whole("consumers")'
    BY <1>7, <1>9, <2>3, <2>4 DEF Whole
  <2>6. StageKept'
    BY <1>3, <2>4, <2>5 DEF StageKept
  <2>7. Half(p, "consumers")'
    BY <2>3, <2>4 DEF Half
  <2>8. UnderWay(p)'
    BY <1>1, <2>1, <2>4, <2>5, <2>7 DEF UnderWay, WorksOn
  <2> QED
    BY <2>1, <2>4, <2>5, <2>6, <2>8, NoneIsNothing, WorkMoves DEF SealsOrStays
<1>10. ASSUME remote[p].part = 4
       PROVE  Half(p, "consumers") /\ ~Whole("consumers") /\ host.stage = p /\ p \in host.contracts
  BY <1>1, <1>2, <1>10 DEF UnderWay, Half, Whole
<1>11. ASSUME remote[p].part = 4, NEW s \in {None, p},
              host' = [host EXCEPT !.consumers.whole = TRUE, !.late = HaveLooked, !.stage = s],
              Passes(p) \/ Errs(p)
       PROVE  PromotionInv'
  <2>1. GoesOn(p) /\ remote'[p].answer # None
    BY <1>11, Answering, NoneIsNothing DEF GoesOn
  <2>2. PICK c : c = [host.consumers EXCEPT !.whole = TRUE]
    OBVIOUS
  <2>3. c \in PairFiles /\ c.by = p /\ c.whole = TRUE /\ c # None
    BY <1>3, <1>10, <1>11, <2>2, PromotionAssumption DEF HostRecords, PairFiles, Half
  <2>4. PICK looked \in SUBSET Pilots : looked = HaveLooked
    BY DEF HaveLooked
  <2>5. PICK h : h = [host EXCEPT !.consumers = c]
    OBVIOUS
  <2>6. /\ h \in HostRecords /\ h.consumers = c /\ h.contracts = host.contracts
        /\ h.handoff = host.handoff /\ h.backup = host.backup /\ h.replay = host.replay
        /\ h.ingress = host.ingress /\ h.browser = host.browser /\ h.points = host.points
        /\ h.deployment = host.deployment /\ h.promotion = host.promotion /\ h.clears = host.clears
    BY <1>3, <2>3, <2>5 DEF HostRecords
  <2>7. host' = [[h EXCEPT !.late = looked] EXCEPT !.stage = s]
    BY <1>3, <1>11, <2>2, <2>4, <2>5 DEF HostRecords
  <2>8. /\ host' \in HostRecords /\ Touches(2) /\ host'.consumers = c /\ host'.contracts = host.contracts
        /\ host'.late = looked
    <3>1. h.skews = host.skews /\ s \in Pilots \cup {None}
      BY <1>3, <1>11, <2>5 DEF HostRecords
    <3>2. host' \in HostRecords /\ host'.consumers = c /\ host'.late = looked
      <4>1. PICK g : g = [h EXCEPT !.late = looked]
        OBVIOUS
      <4>2. g \in HostRecords /\ g.consumers = c /\ g.late = looked
        BY <2>4, <2>6, <4>1 DEF HostRecords
      <4>3. host' = [g EXCEPT !.stage = s]
        BY <2>7, <4>1
      <4> QED
        BY <3>1, <4>2, <4>3 DEF HostRecords
    <3>3. /\ host'.contracts = host.contracts /\ host'.handoff = host.handoff /\ host'.backup = host.backup
          /\ host'.replay = host.replay /\ host'.ingress = host.ingress /\ host'.browser = host.browser
          /\ host'.points = host.points /\ host'.deployment = host.deployment
          /\ host'.promotion = host.promotion /\ host'.clears = host.clears
      BY <2>6, <2>7 DEF HostRecords
    <3> QED
      BY <3>2, <3>3 DEF Touches
  <2>9. WorksOn(p, 2)
    BY <1>1, <2>1, <2>8 DEF WorksOn, GoesOn
  <2>10. StageKept'
    <3>1. host.contracts = {p}
      BY <1>3, <1>10, <1>11 DEF StageKept
    <3> QED
      BY <2>3, <2>8, <3>1 DEF StageKept, Whole
  <2>11. UnderWay(p)'
    BY <2>1 DEF UnderWay
  <2>12. Achieves(p, 2)'
    BY <2>3, <2>8 DEF Achieves, Own
  <2>13. SealsOrStays /\ host.stage = p
    BY <1>10, <1>11, <2>4, <2>8 DEF SealsOrStays
  <2> QED
    BY <2>9, <2>10, <2>11, <2>12, <2>13, WorkMoves
<1>12. CASE remote[p].part = 4 /\ host' = [host EXCEPT !.consumers = None] /\ Errs(p)
  <2>1. GoesOn(p) /\ remote'[p].answer = "error"
    BY <1>12, Answering DEF GoesOn
  <2>2. WorksOn(p, 2) /\ host'.stage = host.stage /\ host'.consumers = None /\ host'.contracts = host.contracts
    BY <1>1, <1>3, <1>12, <2>1 DEF WorksOn, GoesOn, Touches, HostRecords
  <2>3. host.stage = p /\ ~Whole("consumers") /\ ~Whole("consumers")'
    BY <1>10, <1>12, <2>2 DEF Whole
  <2>4. StageKept' /\ UnderWay(p)'
    BY <1>3, <2>1, <2>2, <2>3, NoneIsNothing DEF StageKept, UnderWay
  <2> QED
    BY <2>1, <2>2, <2>3, <2>4, NoneIsNothing, WorkMoves DEF SealsOrStays
<1>13. ASSUME remote[p].part = 4, host' = [host EXCEPT !.consumers.whole = TRUE, !.late = HaveLooked], Errs(p)
       PROVE  PromotionInv'
  <2>1. host' = [host EXCEPT !.consumers.whole = TRUE, !.late = HaveLooked, !.stage = p]
    BY <1>3, <1>10, <1>13 DEF HostRecords
  <2> QED
    BY <1>11, <1>13, <2>1
<1> QED
  BY <1>4, <1>5, <1>6, <1>8, <1>9, <1>11, <1>12, <1>13
     DEF DeploysConsumers, Carries, PairBegins, ConsumersAbsent, StageFree

\* The file of a pair is written, or taken back.
LEMMA FileChanges ==
  ASSUME host \in HostRecords, NEW k \in {3, 9, 12}, NEW c \in PairFiles \cup {None},
         host' = [host EXCEPT ![Phases[k]] = c]
  PROVE  host' \in HostRecords /\ host'[Phases[k]] = c /\ Touches(k)
<1>1. CASE k = 3
  <2>1. host' = [host EXCEPT !.handoff = c]
    BY <1>1 DEF Phases
  <2>2. host' \in HostRecords /\ host'["handoff"] = c /\ Touches(3)
    BY <2>1 DEF HostRecords, Touches, SameStage
  <2> QED
    BY <1>1, <2>2 DEF Phases
<1>2. CASE k = 9
  <2>1. host' = [host EXCEPT !.browser = c]
    BY <1>2 DEF Phases
  <2>2. host' \in HostRecords /\ host'["browser"] = c /\ Touches(9)
    BY <2>1 DEF HostRecords, Touches, SameStage
  <2> QED
    BY <1>2, <2>2 DEF Phases
<1>3. CASE k = 12
  <2>1. host' = [host EXCEPT !.deployment = c]
    BY <1>3 DEF Phases
  <2>2. host' \in HostRecords /\ host'["deployment"] = c /\ Touches(12)
    BY <2>1 DEF HostRecords, Touches, SameStage
  <2> QED
    BY <1>3, <2>2 DEF Phases
<1> QED
  BY <1>1, <1>2, <1>3

\* A pair is begun, completed or taken back by its owner.
LEMMA PairWorks ==
  ASSUME PromotionInv, NEW p \in Pilots, NEW k \in {3, 9, 12}, NEW f, f = Phases[k],
         remote[p].cmd = Phases[k], remote[p].answer = None, UNCHANGED <<pilot, canary, hour>>,
         NEW c \in PairFiles \cup {None}, host' = [host EXCEPT ![f] = c], GoesOn(p),
         c # None => c.by = p /\ c.at = IF host[f] = None THEN pilot[p].activation ELSE host[f].at,
         host[f] = None \/ Half(p, f),
         remote'[p].answer = "passed" => c # None /\ c.whole,
         remote'[p].answer = None => c # None /\ ~c.whole /\ host[f] = None,
         c # None /\ c.whole => host[f] # None /\ remote[p].part = 1
  PROVE  PromotionInv'
<1>1. /\ pilot[p].at = k /\ Unfinished(p) /\ Achieved(p) /\ UnderWay(p) /\ pilot[p] \in PilotRecords
      /\ k \in 1 .. 12 /\ (Past(p, 2) <=> k > 2)
  BY AtWork
<1>2. /\ host \in HostRecords /\ host' \in HostRecords /\ host'[f] = c /\ Touches(k)
      /\ Phases[3] = "handoff" /\ Phases[9] = "browser" /\ Phases[12] = "deployment"
  <2>1. host \in HostRecords
    BY DEF PromotionInv, PromotionTypes
  <2>2. host' \in HostRecords /\ host'[f] = c /\ Touches(k)
    BY <2>1, FileChanges
  <2> QED
    BY <2>1, <2>2 DEF Phases
<1>3. WorksOn(p, k)
  BY <1>2 DEF GoesOn, WorksOn
<1>4. UnderWay(p)'
  BY <1>2, <1>3, NoneIsNothing DEF UnderWay, WorksOn, Half
<1>5. remote'[p].answer = "passed" => Achieves(p, k)'
  BY <1>2 DEF Achieves, Own
<1>6. ASSUME k = 12 PROVE ~Whole("deployment") /\ DeploymentKept'
  <2>1. f = "deployment" /\ ~Whole("deployment")
    BY <1>2, <1>6 DEF Whole, Half
  <2>2. /\ host.backup = p /\ host.points[1] = pilot[p].seen /\ CutoverOf(p, pilot[p].seen)
        /\ \A g \in {"consumers", "handoff", "replay", "browser"} : Own(p, g)
        /\ Serves(p, pilot[p].activation)
    BY <1>1, <1>6 DEF Achieved, Past
  <2>3. pilot[p].activation \in Nat /\ pilot[p].seen \in PointFiles /\ pilot[p].seen # None
    BY <1>1, <1>6, HeldPilot, PromotionAssumption DEF PilotKept, PilotAgrees
  <2>4. pilot' = pilot /\ host'.deployment = c
    BY <1>2, <2>1
  <2>5. CASE c = None
    BY <2>1, <2>4, <2>5 DEF DeploymentKept, EvidenceIsOwn, Whole
  <2>6. CASE c # None /\ ~c.whole
    <3>1. c.by = p /\ ~Whole("deployment")'
      BY <2>4, <2>6 DEF Whole
    <3>2. Own(p, "consumers")'
      BY <1>2, <1>6, <2>2 DEF Own, Touches
    <3> QED
      BY <1>1, <1>6, <2>1, <2>4, <3>1, <3>2 DEF DeploymentKept, EvidenceIsOwn
  <2>7. CASE c # None /\ c.whole
    <3>1. c.by = p /\ c.at = pilot[p].activation
      BY <1>1, <1>2, <1>6, <2>1, <2>7, NoneIsNothing DEF UnderWay
    <3>2. /\ host'.backup = p /\ host'.points[1] = pilot[p].seen /\ host'.ingress = host.ingress
          /\ \A g \in {"consumers", "handoff", "replay", "browser"} : host'[g] # None /\ host'[g].by = p /\ host'[g].whole
      BY <1>2, <1>6, <2>2 DEF Touches, Own
    <3>3. \A g \in Pairs : host'[g] # None /\ host'[g].by = p /\ host'[g].whole
      BY <2>4, <2>7, <3>1, <3>2 DEF Pairs
    <3>4. EvidenceIsOwn'
      BY <2>2, <2>3, <2>4, <3>1, <3>2, <3>3 DEF EvidenceIsOwn, Whole, CutoverOf
    <3>5. Own(p, "consumers")' /\ Serves(p, c.at)'
      BY <2>2, <3>1, <3>2 DEF Own, Serves
    <3> QED
      BY <1>1, <1>6, <2>1, <2>3, <2>4, <3>1, <3>4, <3>5 DEF DeploymentKept
  <2> QED
    BY <2>1, <2>5, <2>6, <2>7
<1> QED
  BY <1>1, <1>3, <1>4, <1>5, <1>6, WorkMoves

\* A step of a pair whose path was free.
LEMMA PairStep ==
  ASSUME PromotionInv, NEW p \in Pilots, NEW k \in {3, 9, 12}, NEW f, f = Phases[k],
         remote[p].cmd = Phases[k], remote[p].answer = None, UNCHANGED <<pilot, canary, hour>>,
         \/ remote[p].part = 0 /\ PairBegins(p, f)
         \/ remote[p].part = 1 /\ PairEnds(p, f)
  PROVE  PromotionInv'
<1>1. /\ pilot[p] \in PilotRecords /\ k \in 1 .. 12 /\ UnderWay(p)
      /\ Phases[3] = "handoff" /\ Phases[9] = "browser" /\ Phases[12] = "deployment"
  BY AtWork DEF Phases
<1>2. host[f] \in PairFiles \cup {None}
  BY <1>1 DEF PromotionInv, PromotionTypes, HostRecords
<1>3. CASE remote[p].part = 0 /\ PairBegins(p, f)
  <2>1. CASE host[f] # None
    BY <1>1, <1>3, <2>1, ErrsStep DEF PairBegins
  <2>2. CASE host[f] = None
    <3>1. PICK act \in Nat \cup {None} : act = pilot[p].activation
      BY <1>1 DEF PilotRecords
    <3>2. PICK c : c = [by |-> p, at |-> act, whole |-> FALSE]
      OBVIOUS
    <3>3. c \in PairFiles /\ c.by = p /\ c.at = pilot[p].activation /\ c.whole = FALSE
      BY <3>1, <3>2 DEF PairFiles
    <3>4. host' = [host EXCEPT ![f] = c] /\ Step(p)
      BY <1>3, <2>2, <3>1, <3>2 DEF PairBegins
    <3>5. GoesOn(p) /\ remote'[p].answer = None
      BY <1>3, <3>4, Answering DEF GoesOn
    <3> QED
      BY <2>2, <3>3, <3>4, <3>5, PromotionAssumption, NoneIsNothing, PairWorks
  <2> QED
    BY <2>1, <2>2
<1>4. CASE remote[p].part = 1 /\ PairEnds(p, f)
  <2>1. Half(p, f)
    BY <1>1, <1>4 DEF UnderWay
  <2>2. CASE host' = [host EXCEPT ![f] = None] /\ Errs(p)
    <3>1. GoesOn(p) /\ remote'[p].answer = "error"
      BY <2>2, Answering DEF GoesOn
    <3> QED
      BY <2>1, <2>2, <3>1, NoneIsNothing, PairWorks
  <2>3. CASE host' = [host EXCEPT ![f].whole = TRUE] /\ Passes(p)
    <3>1. PICK c : c = [host[f] EXCEPT !.whole = TRUE]
      OBVIOUS
    <3>2. c \in PairFiles /\ c.by = p /\ c.at = host[f].at /\ c.whole = TRUE
      BY <1>2, <2>1, <3>1 DEF Half, PairFiles
    <3>3. host' = [host EXCEPT ![f] = c]
      BY <2>3, <3>1
    <3>4. GoesOn(p) /\ remote'[p].answer = "passed"
      BY <2>3, Answering DEF GoesOn
    <3>5. host[f] # None /\ c # None
      BY <2>1, <3>2, PromotionAssumption DEF Half
    <3> QED
      BY <1>4, <2>1, <3>2, <3>3, <3>4, <3>5, NoneIsNothing, PairWorks
  <2> QED
    BY <1>4, <2>2, <2>3 DEF PairEnds
<1> QED
  BY <1>3, <1>4

\* The handoff.
LEMMA HandsOffStep ==
  ASSUME PromotionInv, NEW p \in Pilots, HandsOff(p), UNCHANGED <<pilot, canary, hour>>
  PROVE  PromotionInv'
<1>1. remote[p].cmd = Phases[3] /\ remote[p].answer = None /\ Phases[3] = "handoff"
  BY DEF HandsOff, Carries, Phases
<1>2. CASE Errs(p) /\ UNCHANGED host
  BY <1>1, <1>2, ErrsStep
<1>3. CASE \/ remote[p].part = 0 /\ PairBegins(p, "handoff")
           \/ remote[p].part = 1 /\ PairEnds(p, "handoff")
  BY <1>1, <1>3, PairStep
<1> QED
  BY <1>2, <1>3 DEF HandsOff, Carries

\* Browser acceptance and the evidence of the deployment.
LEMMA AppendsPairStep ==
  ASSUME PromotionInv, NEW p \in Pilots, AppendsPair(p), UNCHANGED <<pilot, canary, hour>>
  PROVE  PromotionInv'
<1>1. PICK f \in {"browser", "deployment"} :
        \/ Carries(p, f, 0) /\ PairBegins(p, f)
        \/ Carries(p, f, 1) /\ PairEnds(p, f)
  BY DEF AppendsPair
<1>2. PICK k \in {9, 12} : f = Phases[k]
  BY DEF Phases
<1>3. remote[p].cmd = Phases[k] /\ remote[p].answer = None
  BY <1>1, <1>2 DEF Carries
<1>4. \/ remote[p].part = 0 /\ PairBegins(p, f)
      \/ remote[p].part = 1 /\ PairEnds(p, f)
  BY <1>1 DEF Carries
<1> QED
  BY <1>2, <1>3, <1>4, PairStep

\* The backup.
LEMMA BacksUpStep ==
  ASSUME PromotionInv, NEW p \in Pilots, BacksUp(p), UNCHANGED <<pilot, canary, hour>>
  PROVE  PromotionInv'
<1>1. remote[p].cmd = Phases[4] /\ remote[p].answer = None /\ Phases[4] = "backup" /\ remote[p].part = 0
  BY DEF BacksUp, Carries, Phases
<1>2. CASE Errs(p) /\ UNCHANGED host
  BY <1>1, <1>2, ErrsStep
<1>3. CASE host' = [host EXCEPT !.backup = p] /\ (Passes(p) \/ Errs(p))
  <2>1. GoesOn(p) /\ remote'[p].answer # None
    BY <1>3, Answering, NoneIsNothing DEF GoesOn
  <2>2. host' \in HostRecords /\ Touches(4) /\ host'.backup = p
    BY <1>3 DEF PromotionInv, PromotionTypes, HostRecords, Touches, SameStage
  <2>3. WorksOn(p, 4)
    BY <1>1, <2>1, <2>2 DEF WorksOn, GoesOn
  <2>4. UnderWay(p)' /\ Achieves(p, 4)'
    BY <2>1, <2>2 DEF UnderWay, Achieves
  <2> QED
    BY <2>3, <2>4, WorkMoves
<1> QED
  BY <1>2, <1>3 DEF BacksUp

\* The stage of the replay bootstrap.
LEMMA BootstrapsReplayStep ==
  ASSUME PromotionInv, NEW p \in Pilots, BootstrapsReplay(p), UNCHANGED <<pilot, canary, hour>>
  PROVE  PromotionInv'
<1>1. remote[p].cmd = Phases[5] /\ remote[p].answer = None /\ Phases[5] = "replay"
  BY DEF BootstrapsReplay, Carries, Phases
<1>2. /\ pilot[p] \in PilotRecords /\ UnderWay(p) /\ host \in HostRecords
      /\ host.replay \in PairFiles \cup {None} /\ remote[p] \in RemoteRecords
  BY <1>1, AtWork DEF PromotionInv, PromotionTypes, HostRecords
<1>3. CASE Errs(p) /\ UNCHANGED host
  BY <1>1, <1>3, ErrsStep
<1>4. ASSUME GoesOn(p), host' \in HostRecords, Touches(5),
             remote'[p].answer = None => remote'[p].part # 2 \/ Half(p, "replay")',
             remote'[p].answer = "passed" => Own(p, "replay")'
      PROVE  PromotionInv'
  <2>1. WorksOn(p, 5)
    BY <1>1, <1>4 DEF WorksOn, GoesOn
  <2>2. UnderWay(p)'
    BY <1>1, <1>4, <2>1 DEF UnderWay, WorksOn
  <2>3. remote'[p].answer = "passed" => Achieves(p, 5)'
    BY <1>4 DEF Achieves
  <2> QED
    BY <2>1, <2>2, <2>3, WorkMoves
<1>5. CASE \/ remote[p].part = 0 /\ host' = [host EXCEPT !.replayStage = p] /\ Step(p)
           \/ remote[p].part = 1 /\ host' = [host EXCEPT !.replayStage = None] /\ Errs(p)
  <2>1. GoesOn(p) /\ (remote'[p].answer = "error" \/ remote'[p].part = 1) /\ remote'[p].answer # "passed"
    BY <1>1, <1>5, Answering, NoneIsNothing DEF GoesOn
  <2>2. host' \in HostRecords /\ Touches(5)
    BY <1>2, <1>5 DEF HostRecords, Touches, SameStage
  <2> QED
    BY <1>4, <2>1, <2>2, NoneIsNothing
<1>6. CASE remote[p].part = 1 /\ host.replay = None /\ PairBegins(p, "replay")
  <2>1. PICK act \in Nat \cup {None} : act = pilot[p].activation
    BY <1>2 DEF PilotRecords
  <2>2. PICK c : c = [by |-> p, at |-> act, whole |-> FALSE]
    OBVIOUS
  <2>3. c \in PairFiles /\ c.by = p /\ c.whole = FALSE /\ c # None
    <3>1. c \in PairFiles /\ c.by = p /\ c.whole = FALSE
      BY <2>1, <2>2 DEF PairFiles
    <3> QED
      BY <3>1, PromotionAssumption
  <2>4. host' = [host EXCEPT !.replay = c] /\ Step(p)
    BY <1>6, <2>1, <2>2 DEF PairBegins
  <2>5. GoesOn(p) /\ remote'[p].answer = None
    BY <1>1, <1>6, <2>4, Answering DEF GoesOn
  <2>6. host' \in HostRecords /\ Touches(5) /\ host'["replay"] = c
    BY <1>2, <2>3, <2>4 DEF HostRecords, Touches, SameStage
  <2>7. Half(p, "replay")'
    BY <2>3, <2>6 DEF Half
  <2> QED
    BY <1>4, <2>5, <2>6, <2>7, NoneIsNothing
<1>7. CASE /\ remote[p].part = 2 /\ Passes(p)
           /\ host' = [host EXCEPT !.replay.whole = TRUE, !.replayStage = None]
  <2>1. GoesOn(p) /\ remote'[p].answer = "passed"
    BY <1>7, Answering DEF GoesOn
  <2>2. Half(p, "replay")
    BY <1>1, <1>2, <1>7 DEF UnderWay
  <2>3. PICK c : c = [host.replay EXCEPT !.whole = TRUE]
    OBVIOUS
  <2>4. c \in PairFiles /\ c.by = p /\ c.whole = TRUE /\ c # None
    BY <1>2, <2>2, <2>3, PromotionAssumption DEF Half, PairFiles
  <2>5. PICK h : h = [host EXCEPT !.replay = c]
    OBVIOUS
  <2>6. /\ h \in HostRecords /\ h.replay = c /\ h.contracts = host.contracts
        /\ h.handoff = host.handoff /\ h.backup = host.backup /\ h.consumers = host.consumers
        /\ h.ingress = host.ingress /\ h.browser = host.browser /\ h.points = host.points
        /\ h.deployment = host.deployment /\ h.promotion = host.promotion /\ h.clears = host.clears
        /\ h.stage = host.stage /\ h.late = host.late
    BY <1>2, <2>4, <2>5 DEF HostRecords
  <2>7. host' = [h EXCEPT !.replayStage = None]
    BY <1>2, <1>7, <2>3, <2>5 DEF HostRecords
  <2>8. host' \in HostRecords /\ Touches(5) /\ host'["replay"] = c
    BY <2>6, <2>7 DEF HostRecords, Touches, SameStage
  <2>9. Own(p, "replay")'
    BY <2>4, <2>8 DEF Own
  <2> QED
    BY <1>4, <2>1, <2>8, <2>9, NoneIsNothing
<1>8. CASE /\ remote[p].part = 2 /\ Errs(p)
           /\ host' = [host EXCEPT !.replay = None, !.replayStage = None]
  <2>1. GoesOn(p) /\ remote'[p].answer = "error"
    BY <1>8, Answering DEF GoesOn
  <2>2. host' \in HostRecords /\ Touches(5)
    BY <1>2, <1>8 DEF HostRecords, Touches, SameStage
  <2> QED
    BY <1>4, <2>1, <2>2, NoneIsNothing
<1> QED
  BY <1>3, <1>5, <1>6, <1>7, <1>8 DEF BootstrapsReplay, Carries

\* What is served is what the pilot activated last.
LEMMA ActivatesStep ==
  ASSUME PromotionInv, NEW p \in Pilots, Activates(p), UNCHANGED <<pilot, canary, hour>>
  PROVE  PromotionInv'
<1>1. remote[p].cmd = Phases[8] /\ remote[p].answer = None /\ Phases[8] = "activate" /\ remote[p].part = 0
  BY DEF Activates, Carries, Phases
<1>2. CASE Errs(p) /\ UNCHANGED host
  BY <1>1, <1>2, ErrsStep
<1>3. CASE host' = [host EXCEPT !.ingress = [by |-> p, at |-> hour]] /\ (Gives(p, hour) \/ Errs(p))
  <2>1. PICK i : i = [by |-> p, at |-> hour]
    OBVIOUS
  <2>2. i \in Ingresses /\ i.by = p /\ i.at = hour /\ hour \in Nat
    BY <2>1 DEF Ingresses, PromotionInv, PromotionTypes
  <2>3. host' \in HostRecords /\ Touches(8) /\ host'.ingress = i
    BY <1>3, <2>1, <2>2 DEF PromotionInv, PromotionTypes, HostRecords, Touches, SameStage
  <2>4. /\ remote' = [remote EXCEPT ![p] = remote'[p]] /\ remote'[p] \in RemoteRecords
        /\ remote'[p].cmd = remote[p].cmd /\ remote'[p].part = remote[p].part
        /\ remote'[p].answer = "error" \/ (remote'[p].answer = "passed" /\ remote'[p].got = hour)
    BY <1>3, <2>2, Giving, Answering
  <2>5. WorksOn(p, 8)
    BY <1>1, <2>3, <2>4 DEF WorksOn
  <2>6. UnderWay(p)' /\ (remote'[p].answer = "passed" => Achieves(p, 8)')
    BY <2>1, <2>2, <2>3, <2>4, NoneIsNothing DEF UnderWay, Achieves, Serves
  <2> QED
    BY <1>1, <2>2, <2>3, <2>5, <2>6, WorkMoves
<1> QED
  BY <1>2, <1>3 DEF Activates

\* The cutover is observed through the pilot's own activation.
LEMMA ObservesCutoverStep ==
  ASSUME PromotionInv, NEW p \in Pilots, ObservesCutover(p), UNCHANGED <<pilot, canary, hour>>
  PROVE  PromotionInv'
<1>1. remote[p].cmd = Phases[10] /\ remote[p].answer = None /\ Phases[10] = "observe" /\ UNCHANGED host
  BY DEF ObservesCutover, Carries, Phases
<1>2. CASE Errs(p)
  BY <1>1, <1>2, ErrsStep
<1>3. CASE Observable(pilot[p].activation) /\ Gives(p, PointSeen(pilot[p].activation))
  <2>1. PICK point : point = PointSeen(pilot[p].activation)
    OBVIOUS
  <2>2. pilot[p].at = 10 /\ Achieved(p) /\ pilot[p].activation \in Nat
    BY <1>1, AtWork, HeldPilot DEF PilotKept, PilotAgrees
  <2>3. host.ingress = [by |-> p, at |-> pilot[p].activation] /\ hour >= pilot[p].activation
    BY <1>3, <2>2 DEF Achieved, Serves, Observable
  <2>4. host.ingress \in Ingresses /\ hour \in Nat
    BY <1>3 DEF Observable, PromotionInv, PromotionTypes, HostRecords
  <2>5. point \in PointFiles /\ CutoverOf(p, point)
    BY <2>1, <2>2, <2>3, <2>4 DEF PointSeen, PointFiles, CutoverOf
  <2>6. /\ remote' = [remote EXCEPT ![p] = remote'[p]] /\ remote'[p] \in RemoteRecords
        /\ remote'[p].cmd = remote[p].cmd /\ remote'[p].part = remote[p].part
        /\ remote'[p].answer = "passed" /\ remote'[p].got = point
    BY <1>3, <2>1, <2>5, Giving
  <2>7. Achieves(p, 10)'
    BY <2>5, <2>6 DEF Achieves, CutoverOf
  <2> QED
    BY <1>1, <2>6, <2>7, NoneIsNothing, AnswersOnly
<1> QED
  BY <1>2, <1>3 DEF ObservesCutover

\* The first checkpoint is linked only where none is.
LEMMA AppendsCutoverStep ==
  ASSUME PromotionInv, NEW p \in Pilots, AppendsCutover(p), UNCHANGED <<pilot, canary, hour>>
  PROVE  PromotionInv'
<1>1. remote[p].cmd = Phases[11] /\ remote[p].answer = None /\ Phases[11] = "checkpoint" /\ remote[p].part = 0
  BY DEF AppendsCutover, Carries, Phases
<1>2. CASE Errs(p) /\ UNCHANGED host
  BY <1>1, <1>2, ErrsStep
<1>3. CASE PathFree(1) /\ host' = [host EXCEPT !.points[1] = pilot[p].seen] /\ (Passes(p) \/ Errs(p))
  <2>1. PICK seen : seen = pilot[p].seen
    OBVIOUS
  <2>2. pilot[p].at = 11 /\ Achieved(p) /\ seen \in PointFiles /\ pilot[p].activation \in Nat
    BY <1>1, <2>1, AtWork, HeldPilot DEF PilotKept, PilotAgrees
  <2>3. /\ seen.due = seen.through.at + 0 /\ seen.at >= seen.due /\ seen # None
    BY <2>1, <2>2, PromotionAssumption DEF Achieved, CutoverOf
  <2>4. host.points \in Checkpoints /\ \A i \in 1 .. 4 : host.points[i] = None
    <3>1. Earned(host.points) /\ host.points[1] = None
      BY <1>3 DEF PromotionInv, PathFree
    <3>2. host.points[2] = None
      BY <3>1 DEF Earned
    <3>3. host.points[3] = None
      BY <3>1, <3>2 DEF Earned
    <3>4. host.points[4] = None
      BY <3>1, <3>3 DEF Earned
    <3> QED
      BY <3>1, <3>2, <3>3, <3>4 DEF PromotionInv, PromotionTypes, HostRecords
  <2>5. PICK s : s = [host.points EXCEPT ![1] = seen]
    OBVIOUS
  <2>6. s \in Checkpoints /\ s[1] = seen /\ \A i \in 2 .. 4 : s[i] = None
    BY <2>2, <2>4, <2>5 DEF Checkpoints
  <2>7. Wait[1] = 0
    BY DEF Wait
  <2>8. Earned(s)
    BY <2>2, <2>3, <2>6, <2>7 DEF Earned
  <2>9. host' \in HostRecords /\ Touches(11) /\ host'.points = s
    BY <1>3, <2>1, <2>5, <2>6 DEF PromotionInv, PromotionTypes, HostRecords, Touches, SameStage
  <2>10. GoesOn(p) /\ remote'[p].answer # None
    BY <1>3, Answering, NoneIsNothing DEF GoesOn
  <2>11. WorksOn(p, 11)
    BY <1>1, <2>9, <2>10 DEF WorksOn, GoesOn
  <2>12. UnderWay(p)' /\ Achieves(p, 11)'
    BY <2>1, <2>6, <2>9, <2>10 DEF UnderWay, Achieves
  <2> QED
    BY <2>4, <2>8, <2>9, <2>11, <2>12, WorkMoves
<1> QED
  BY <1>2, <1>3 DEF AppendsCutover

\* Every step of a process on the host.
LEMMA HostStepKeeps ==
  ASSUME PromotionInv, NEW p \in Pilots, HostStep(p)
  PROVE  PromotionInv'
BY StartsServicesStep, DeploysConsumersStep, HandsOffStep, BacksUpStep, BootstrapsReplayStep, ActivatesStep,
   ObservesCutoverStep, AppendsCutoverStep, AppendsPairStep DEF HostStep

---------------------------------------------------------------------------
\* The checkpoints that are kept are the first ones.
LEMMA FirstOnes ==
  ASSUME NEW s, Earned(s)
  PROVE  /\ Cardinality({i \in 1 .. 4 : s[i] # None}) \in 0 .. 4
         /\ \A i \in 1 .. 4 : s[i] # None <=> i <= Cardinality({j \in 1 .. 4 : s[j] # None})
<1> DEFINE Kinds == {i \in 1 .. 4 : s[i] # None}
<1>1. /\ s[2] # None => s[1] # None
      /\ s[3] # None => s[2] # None
      /\ s[4] # None => s[3] # None
  BY DEF Earned
<1>2. \E k \in 0 .. 4 : Kinds = 1 .. k
  <2>1. CASE s[1] = None
    <3>1. Kinds = 1 .. 0
      BY <1>1, <2>1
    <3> QED
      BY <3>1
  <2>2. CASE s[1] # None /\ s[2] = None
    <3>1. Kinds = 1 .. 1
      BY <1>1, <2>2
    <3> QED
      BY <3>1
  <2>3. CASE s[2] # None /\ s[3] = None
    <3>1. Kinds = 1 .. 2
      BY <1>1, <2>3
    <3> QED
      BY <3>1
  <2>4. CASE s[3] # None /\ s[4] = None
    <3>1. Kinds = 1 .. 3
      BY <1>1, <2>4
    <3> QED
      BY <3>1
  <2>5. CASE s[4] # None
    <3>1. Kinds = 1 .. 4
      BY <1>1, <2>5
    <3> QED
      BY <3>1
  <2> QED
    BY <2>1, <2>2, <2>3, <2>4, <2>5
<1>3. PICK k \in 0 .. 4 : Kinds = 1 .. k
  BY <1>2
<1>4. Cardinality(1 .. k) = k
  <2>1. k \in Int /\ 1 \in Int
    OBVIOUS
  <2>2. Cardinality(1 .. k) = IF 1 > k THEN 0 ELSE k - 1 + 1
    BY <2>1, FS_Interval, Zenon
  <2> QED
    BY <2>2
<1>5. \A i \in 1 .. 4 : s[i] # None <=> i \in Kinds
  OBVIOUS
<1> HIDE DEF Kinds
<1>6. Cardinality(Kinds) = k /\ \A i \in 1 .. 4 : s[i] # None <=> i <= k
  BY <1>3, <1>4, <1>5
<1> QED
  BY <1>6 DEF Kinds

\* One tick moves, and the host stays as it is.
LEMMA OnlyTickMoves ==
  ASSUME PromotionInv, NEW t \in Ticks, UNCHANGED <<host, pilot, remote, hour>>,
         canary' = [canary EXCEPT ![t] = canary'[t]], canary'[t] \in TickRecords, TickKept(t)'
  PROVE  PromotionInv'
<1>1. PromotionTypes' /\ Earned(host'.points)
  BY DEF PromotionInv, PromotionTypes
<1>2. StageKept' /\ DeploymentKept' /\ PromotionKept'
  BY DEF PromotionInv, StageKept, DeploymentKept, EvidenceIsOwn, Whole, Own, Serves, PromotionKept, Begun
<1>3. ASSUME NEW p \in Pilots PROVE PilotKept(p)'
  BY DEF PromotionInv, PilotKept, PilotAgrees, PhaseOf, Unfinished, Piloting, Achieved, Past, Own, Serves,
     CutoverOf, UnderWay, Whole,
     Half, IngressOf, Carries
<1>4. ASSUME NEW u \in Ticks PROVE TickKept(u)'
  <2>1. CASE u # t
    BY <2>1 DEF PromotionInv, PromotionTypes, TickKept, Whole, Begun
  <2> QED
    BY <2>1
<1> QED
  BY <1>1, <1>2, <1>3, <1>4 DEF PromotionInv

\* A tick that fails forgets what it held.
LEMMA TickFailsStep ==
  ASSUME PromotionInv, NEW t \in Ticks, TickFails(t)
  PROVE  PromotionInv'
<1>1. canary' = [canary EXCEPT ![t] = canary'[t]] /\ canary'[t] = Resting /\ UNCHANGED <<host, pilot, remote, hour>>
  BY DEF TickFails, PromotionInv, PromotionTypes
<1>2. Resting \in TickRecords /\ Resting.at = "idle"
  BY DEF Resting, TickRecords
<1>3. TickKept(t)'
  BY <1>1, <1>2 DEF TickKept
<1> QED
  BY <1>1, <1>2, <1>3, OnlyTickMoves

\* A tick begins from the checkpoints kept, none of them later than its clock.
LEMMA TickBeginsStep ==
  ASSUME PromotionInv, NEW t \in Ticks, TickBegins(t)
  PROVE  PromotionInv'
<1>1. PICK s : s = host.points
  OBVIOUS
<1>2. s \in Checkpoints /\ Earned(s) /\ hour \in Nat /\ Whole("deployment") /\ UNCHANGED <<host, pilot, remote, hour>>
  BY <1>1 DEF PromotionInv, PromotionTypes, HostRecords, TickBegins
<1>3. PICK k \in 1 .. 4 : k = Kept /\ \A i \in 1 .. 4 : s[i] # None <=> i <= k
  BY <1>1, <1>2, FirstOnes DEF Kept, TickBegins
<1>4. hour >= s[k].at
  BY <1>1, <1>3 DEF TickBegins, StateFits
<1>5. \A i \in 1 .. 4 : s[i] # None => s[i].at \in Nat
  BY <1>2 DEF Checkpoints, PointFiles
<1>6. /\ s[2] # None => s[1] # None /\ s[2].at >= s[1].at
      /\ s[3] # None => s[2] # None /\ s[3].at >= s[2].at
      /\ s[4] # None => s[3] # None /\ s[4].at >= s[3].at
  BY <1>2 DEF Earned
<1>7. \A i \in 1 .. 4 : s[i] # None => hour >= s[i].at
  <2>1. k = 1 \/ k = 2 \/ k = 3 \/ k = 4
    OBVIOUS
  <2> QED
    BY <1>2, <1>3, <1>4, <1>5, <1>6, <2>1
<1>8. PICK c : c = canary'[t]
  OBVIOUS
<1>9. PICK d : d = host.deployment
  OBVIOUS
<1>10. PICK at : at = IF k = 4 THEN "finishing" ELSE "observing"
  OBVIOUS
<1>11. d \in PairFiles
  BY <1>2, <1>9 DEF Whole, PromotionInv, PromotionTypes, HostRecords
<1>12. c = [at |-> at, now |-> hour, dep |-> d, state |-> s]
  BY <1>1, <1>3, <1>8, <1>9, <1>10 DEF TickBegins, PromotionInv, PromotionTypes
<1>13. c \in TickRecords /\ c.at = at /\ c.now = hour /\ c.dep = d /\ c.state = s
  BY <1>2, <1>10, <1>11, <1>12 DEF TickRecords
<1>14. TickKept(t)'
  <2>1. Begun(s)
    BY <1>2, <1>3 DEF Begun
  <2>2. Whole("deployment")' /\ Begun(canary'[t].state)
    BY <1>2, <1>8, <1>13, <2>1 DEF Whole
  <2>3. at = "observing" => s[4] = None
    BY <1>3, <1>10
  <2>4. at = "finishing" => s[4] # None
    BY <1>3, <1>10
  <2>5. at # "appending"
    BY <1>10
  <2>6. Begun(canary'[t].state) <=> Begun(canary[t].state)'
    BY DEF Begun, Earned
  <2> QED
    BY <1>1, <1>2, <1>7, <1>8, <1>9, <1>13, <2>2, <2>3, <2>4, <2>5, <2>6 DEF TickKept
<1> QED
  BY <1>2, <1>8, <1>13, <1>14, OnlyTickMoves DEF TickBegins, PromotionInv, PromotionTypes

\* A tick observes through the activation its deployment names.
LEMMA TickObservesStep ==
  ASSUME PromotionInv, NEW t \in Ticks, TickObserves(t)
  PROVE  PromotionInv'
<1>1. PICK c : c = canary[t]
  OBVIOUS
<1>2. PICK s : s = c.state
  OBVIOUS
<1>3. /\ c \in TickRecords /\ c.at = "observing" /\ hour = c.now /\ hour \in Nat
      /\ UNCHANGED <<host, pilot, remote, hour>>
  BY <1>1 DEF TickObserves, PromotionInv, PromotionTypes
<1>4. /\ Whole("deployment") /\ c.dep = host.deployment /\ Begun(s) /\ s[4] = None
      /\ \A i \in 1 .. 4 : s[i] # None => host.points[i] = s[i] /\ hour >= s[i].at
  BY <1>1, <1>2, <1>3 DEF PromotionInv, TickKept
<1>5. s \in Checkpoints /\ Earned(s) /\ s[1] # None
  BY <1>4 DEF Begun
<1>6. PICK n \in 2 .. 4 : n = NextPoint(t) /\ \A i \in 1 .. 4 : s[i] # None <=> i < n
  <2>1. PICK k \in 0 .. 4 : k = Cardinality({i \in 1 .. 4 : s[i] # None}) /\ \A i \in 1 .. 4 : s[i] # None <=> i <= k
    BY <1>5, FirstOnes
  <2>2. k \in 1 .. 3 /\ NextPoint(t) = 1 + k
    BY <1>1, <1>2, <1>4, <1>5, <2>1 DEF NextPoint
  <2>3. PICK n \in 2 .. 4 : n = 1 + k
    BY <2>2
  <2> QED
    BY <2>1, <2>2, <2>3
<1>7. PICK due : due = DueAt(c.dep, n)
  OBVIOUS
<1>8. PICK point : point = PointSeen(due)
  OBVIOUS
<1>9. Observable(due) /\ canary' = [canary EXCEPT ![t].at = "appending", ![t].state[n] = point]
  BY <1>1, <1>6, <1>7, <1>8 DEF TickObserves
<1>10. /\ host.deployment.at \in Nat /\ host.ingress = [by |-> host.deployment.by, at |-> host.deployment.at]
       /\ host.points[1].through = host.ingress /\ host.ingress \in Ingresses
       /\ host.ingress.at = host.deployment.at
  BY <1>4, <1>9 DEF PromotionInv, PromotionTypes, HostRecords, DeploymentKept, EvidenceIsOwn, Serves, Observable
<1>11. s[1].through = host.ingress
  BY <1>4, <1>5, <1>10
<1>12. Wait[n] \in Nat
  BY DEF Wait
<1>13. due \in Nat /\ due = s[1].through.at + Wait[n] /\ hour >= due
  BY <1>4, <1>7, <1>9, <1>10, <1>11, <1>12 DEF DueAt, Observable
<1>14. /\ point \in PointFiles /\ point # None /\ point.through = s[1].through /\ point.at = hour
       /\ point.due = s[1].through.at + Wait[n] /\ point.at >= point.due
  BY <1>3, <1>8, <1>10, <1>11, <1>13, PromotionAssumption DEF PointSeen, PointFiles
<1>15. PICK r : r = [s EXCEPT ![n] = point]
  OBVIOUS
<1>16. /\ r \in Checkpoints /\ r[n] = point /\ r[1] = s[1]
       /\ \A i \in 1 .. 4 : i # n => r[i] = s[i]
  BY <1>5, <1>14, <1>15 DEF Checkpoints
<1>17. Begun(r)
  <2>1. ASSUME NEW i \in 1 .. 4, r[i] # None
        PROVE  /\ r[i].through = r[1].through /\ r[i].due = r[1].through.at + Wait[i] /\ r[i].at >= r[i].due
               /\ i > 1 => r[i - 1] # None /\ r[i].at >= r[i - 1].at
    <3>1. CASE i = n
      <4>1. PICK j \in 1 .. 3 : j = i - 1
        BY <3>1
      <4>2. s[j] # None /\ r[j] = s[j] /\ hour >= s[j].at
        BY <1>4, <1>6, <1>16, <3>1, <4>1
      <4> QED
        BY <1>14, <1>16, <3>1, <4>1, <4>2
    <3>2. CASE i # n
      <4>1. s[i] # None /\ r[i] = s[i] /\ i < n
        BY <1>6, <1>16, <2>1, <3>2
      <4>2. /\ s[i].through = s[1].through /\ s[i].due = s[1].through.at + Wait[i] /\ s[i].at >= s[i].due
            /\ i > 1 => s[i - 1] # None /\ s[i].at >= s[i - 1].at
        BY <1>5, <4>1 DEF Earned
      <4>3. i > 1 => r[i - 1] = s[i - 1]
        BY <1>16, <4>1
      <4> QED
        BY <1>16, <4>1, <4>2, <4>3
    <3> QED
      BY <3>1, <3>2
  <2> QED
    BY <1>5, <1>16, <2>1 DEF Begun, Earned
<1>18. PICK a : a = [c EXCEPT !.at = "appending"]
  OBVIOUS
<1>19. a \in TickRecords /\ a.at = "appending" /\ a.state = s /\ a.dep = c.dep
  BY <1>2, <1>3, <1>18 DEF TickRecords
<1>20. PICK b : b = [a EXCEPT !.state = r]
  OBVIOUS
<1>21. b \in TickRecords /\ b.at = "appending" /\ b.state = r /\ b.dep = c.dep
  BY <1>16, <1>19, <1>20 DEF TickRecords
<1>22. canary' = [canary EXCEPT ![t] = b]
  BY <1>1, <1>2, <1>3, <1>9, <1>15, <1>18, <1>19, <1>20 DEF PromotionInv, PromotionTypes, TickRecords
<1>23. canary' = [canary EXCEPT ![t] = canary'[t]] /\ canary'[t] = b
  BY <1>22 DEF PromotionInv, PromotionTypes
<1>24. TickKept(t)'
  <2>1. r[2] # None
    BY <1>6, <1>14, <1>16
  <2>2. ASSUME NEW i \in 1 .. 3, r[i + 1] # None PROVE host.points[i] = r[i]
    <3>1. PICK j \in 2 .. 4 : j = i + 1
      OBVIOUS
    <3>2. j <= n
      BY <1>6, <1>16, <2>2, <3>1
    <3> QED
      BY <1>4, <1>6, <1>16, <3>1, <3>2
  <2>3. Begun(canary[t].state)'
    BY <1>17, <1>21, <1>23 DEF Begun, Earned
  <2>4. Whole("deployment")' /\ canary'[t].dep = host'.deployment
    BY <1>3, <1>4, <1>21, <1>23 DEF Whole
  <2> QED
    BY <1>3, <1>21, <1>23, <2>1, <2>2, <2>3, <2>4 DEF TickKept
<1> QED
  BY <1>3, <1>21, <1>23, <1>24, OnlyTickMoves

\* The ticks and pilots that look on while a tick adds a checkpoint after the first, or
\* writes the promotion.
LEMMA TickWrites ==
  ASSUME PromotionInv, NEW t \in Ticks, UNCHANGED <<pilot, remote, hour>>,
         canary' = [canary EXCEPT ![t] = canary'[t]], canary'[t] \in TickRecords, TickKept(t)',
         NEW r \in Checkpoints, NEW m \in [dep : PairFiles, state : Checkpoints] \cup {None},
         host' = [[host EXCEPT !.points = r] EXCEPT !.promotion = m], Earned(r), r[1] = host.points[1],
         \A i \in 1 .. 4 : host.points[i] # None => r[i] = host.points[i],
         host.points[4] # None => r = host.points,
         PromotionKept'
  PROVE  PromotionInv'
<1>1. PICK h : h = [host EXCEPT !.points = r]
  OBVIOUS
<1>2. /\ h \in HostRecords /\ h.points = r /\ h.late = host.late /\ h.stage = host.stage /\ h.contracts = host.contracts
      /\ h.consumers = host.consumers /\ h.handoff = host.handoff /\ h.backup = host.backup
      /\ h.replay = host.replay /\ h.browser = host.browser /\ h.deployment = host.deployment
      /\ h.ingress = host.ingress /\ h.clears = host.clears
  BY <1>1 DEF PromotionInv, PromotionTypes, HostRecords
<1>3. /\ host' \in HostRecords /\ host'.points = r /\ host'.stage = host.stage /\ host'.contracts = host.contracts
      /\ host'.late = host.late
      /\ host'.consumers = host.consumers /\ host'.handoff = host.handoff /\ host'.backup = host.backup
      /\ host'.replay = host.replay /\ host'.browser = host.browser /\ host'.deployment = host.deployment
      /\ host'.ingress = host.ingress /\ host'.clears = host.clears
  BY <1>1, <1>2 DEF HostRecords
<1>4. PromotionTypes' /\ Earned(host'.points)
  BY <1>3 DEF PromotionInv, PromotionTypes
<1>5. StageKept'
  BY <1>3 DEF PromotionInv, StageKept, Whole
<1>6. DeploymentKept'
  BY <1>3 DEF PromotionInv, DeploymentKept, EvidenceIsOwn, Whole, Own, Serves, Pairs
<1>7. ASSUME NEW p \in Pilots PROVE PilotKept(p)'
  <2>1. PilotAgrees(p)' /\ IngressOf(p)' /\ UnderWay(p)'
    BY <1>3 DEF PromotionInv, PilotKept, PilotAgrees, PhaseOf, UnderWay, Half, Whole, IngressOf, Carries
  <2>2. Unfinished(p)' => Achieved(p)'
    BY <1>3 DEF PromotionInv, PilotKept, Unfinished, Piloting, Achieved, Past, Own, Serves, CutoverOf
  <2> QED
    BY <2>1, <2>2 DEF PilotKept
<1>8. ASSUME NEW u \in Ticks PROVE TickKept(u)'
  <2>1. CASE u = t
    BY <2>1
  <2>2. CASE u # t
    <3>1. PICK s : s = canary[u].state
      OBVIOUS
    <3>2. canary'[u] = canary[u] /\ TickKept(u)
      BY <2>2 DEF PromotionInv, PromotionTypes
    <3>3. ASSUME canary[u].at = "observing", NEW i \in 1 .. 4, s[i] # None
          PROVE  r[i] = s[i] /\ canary[u].now >= s[i].at
      BY <3>1, <3>2, <3>3 DEF TickKept
    <3>4. ASSUME canary[u].at = "appending", NEW i \in 1 .. 3, s[i + 1] # None PROVE r[i] = s[i]
      <4>1. host.points[i] = s[i] /\ Earned(s)
        BY <3>1, <3>2, <3>4 DEF TickKept, Begun
      <4>2. PICK j \in 2 .. 4 : j = i + 1
        OBVIOUS
      <4>3. s[j] # None /\ j - 1 = i /\ j > 1
        BY <3>4, <4>2
      <4>4. s[i] # None
        BY <4>1, <4>3 DEF Earned
      <4> QED
        BY <4>1, <4>4
    <3>5. ASSUME canary[u].at = "finishing" PROVE r = s
      BY <3>1, <3>2, <3>5 DEF TickKept
    <3>6. Begun(canary[u].state) => Begun(canary[u].state)'
      BY <3>2 DEF Begun, Earned
    <3> QED
      BY <1>3, <3>1, <3>2, <3>3, <3>4, <3>5, <3>6 DEF TickKept, Whole
  <2> QED
    BY <2>1, <2>2
<1> QED
  BY <1>4, <1>5, <1>6, <1>7, <1>8 DEF PromotionInv

\* A checkpoint is linked: the state of the tick is now the host's.
LEMMA TickAppendsStep ==
  ASSUME PromotionInv, NEW t \in Ticks, TickAppends(t)
  PROVE  PromotionInv'
<1>1. PICK s : s = canary[t].state
  OBVIOUS
<1>2. PICK pts : pts = host.points
  OBVIOUS
<1>3. /\ canary[t] \in TickRecords /\ canary[t].at = "appending" /\ pts \in Checkpoints /\ Earned(pts)
      /\ UNCHANGED <<pilot, remote, hour>>
  BY <1>2 DEF TickAppends, PromotionInv, PromotionTypes, HostRecords
<1>4. /\ Whole("deployment") /\ canary[t].dep = host.deployment /\ Begun(s) /\ s[2] # None
      /\ \A i \in 1 .. 3 : s[i + 1] # None => pts[i] = s[i]
  BY <1>1, <1>2, <1>3 DEF PromotionInv, TickKept
<1>5. s \in Checkpoints /\ Earned(s) /\ s[1] # None
  BY <1>4 DEF Begun
<1>6. PICK n \in 2 .. 4 : n = NextPoint(t) - 1 /\ \A i \in 1 .. 4 : s[i] # None <=> i <= n
  <2>1. PICK k \in 0 .. 4 : k = Cardinality({i \in 1 .. 4 : s[i] # None}) /\ \A i \in 1 .. 4 : s[i] # None <=> i <= k
    BY <1>5, FirstOnes
  <2>2. k \in 2 .. 4
    BY <1>4, <2>1
  <2>3. NextPoint(t) - 1 = k
    BY <1>1, <2>1 DEF NextPoint
  <2> QED
    BY <2>1, <2>2, <2>3
<1>7. pts[n] = None /\ host' = [host EXCEPT !.points[n] = s[n]]
  BY <1>1, <1>2, <1>6 DEF TickAppends, PathFree
<1>8. PICK k \in 0 .. 4 : \A i \in 1 .. 4 : pts[i] # None <=> i <= k
  BY <1>3, FirstOnes
<1>9. k < n
  BY <1>7, <1>8
<1>10. \A i \in 1 .. 4 : i < n => pts[i] = s[i]
  <2>1. ASSUME NEW i \in 1 .. 4, i < n PROVE pts[i] = s[i]
    <3>1. i \in 1 .. 3 /\ i + 1 \in 1 .. 4 /\ i + 1 <= n
      BY <2>1
    <3> QED
      BY <1>4, <1>6, <3>1
  <2> QED
    BY <2>1
<1>11. PICK r : r = [pts EXCEPT ![n] = s[n]]
  OBVIOUS
<1>12. r = s
  <2>1. ASSUME NEW i \in 1 .. 4 PROVE r[i] = s[i]
    <3>1. i > n => s[i] = None /\ pts[i] = None
      BY <1>6, <1>8, <1>9
    <3> QED
      BY <1>3, <1>10, <1>11, <3>1 DEF Checkpoints
  <2>2. r \in [1 .. 4 -> PointFiles \cup {None}] /\ s \in [1 .. 4 -> PointFiles \cup {None}]
    BY <1>3, <1>5, <1>11 DEF Checkpoints
  <2> QED
    BY <2>1, <2>2
<1>13. s[1] = pts[1] /\ \A i \in 1 .. 4 : pts[i] # None => s[i] = pts[i]
  BY <1>8, <1>9, <1>10
<1>14. pts[4] = None
  BY <1>8, <1>9
<1>15. PICK m : m = host.promotion
  OBVIOUS
<1>16. m \in [dep : PairFiles, state : Checkpoints] \cup {None} /\ host \in HostRecords
  BY <1>15 DEF PromotionInv, PromotionTypes, HostRecords
<1>17. host' = [[host EXCEPT !.points = s] EXCEPT !.promotion = m]
  <2>1. host' = [host EXCEPT !.points = s]
    BY <1>2, <1>7, <1>11, <1>12
  <2> QED
    BY <1>15, <1>16, <2>1 DEF HostRecords
<1>18. host'.promotion = m /\ host'.clears = host.clears /\ host'.points = s /\ host'.deployment = host.deployment
  BY <1>16, <1>17 DEF HostRecords
<1>19. PromotionKept'
  <2>1. m # None => m.state[4] # None /\ PromotionKept
    BY <1>15 DEF PromotionInv, PromotionKept
  <2>2. m # None => host.clears # 0
    BY <1>2, <1>14, <1>15, <2>1 DEF PromotionKept
  <2> QED
    BY <1>15, <1>18, <2>1, <2>2 DEF PromotionKept, Begun, Earned
<1>20. PICK c : c = canary'[t]
  OBVIOUS
<1>21. /\ canary' = [canary EXCEPT ![t] = c]
       /\ c = IF n = 4 THEN [canary[t] EXCEPT !.at = "finishing"] ELSE Resting
  BY <1>6, <1>20 DEF TickAppends, PromotionInv, PromotionTypes
<1>22. Resting \in TickRecords /\ Resting.at = "idle"
  BY DEF Resting, TickRecords
<1>23. TickKept(t)' /\ c \in TickRecords
  <2>1. CASE n # 4
    BY <1>20, <1>21, <1>22, <2>1 DEF TickKept
  <2>2. CASE n = 4
    <3>1. c \in TickRecords /\ c.at = "finishing" /\ c.dep = canary[t].dep /\ c.state = s
      BY <1>1, <1>3, <1>21, <2>2 DEF TickRecords
    <3>2. s[4] # None
      BY <1>6, <2>2
    <3>3. Begun(canary[t].state)'
      BY <1>4, <1>20, <3>1 DEF Begun, Earned
    <3>4. Whole("deployment")' /\ c.dep = host'.deployment
      BY <1>4, <1>18, <3>1 DEF Whole
    <3> QED
      BY <1>18, <1>20, <3>1, <3>2, <3>3, <3>4 DEF TickKept
  <2> QED
    BY <2>1, <2>2
<1>24. /\ canary' = [canary EXCEPT ![t] = canary'[t]] /\ canary'[t] \in TickRecords
       /\ s[1] = host.points[1] /\ Earned(s) /\ s \in Checkpoints
       /\ \A i \in 1 .. 4 : host.points[i] # None => s[i] = host.points[i]
       /\ host.points[4] # None => s = host.points
  BY <1>2, <1>5, <1>13, <1>14, <1>20, <1>21, <1>23
<1> QED
  BY <1>3, <1>16, <1>17, <1>19, <1>23, <1>24, TickWrites

\* The promotion is written once, from four checkpoints kept.
LEMMA TickFinishesStep ==
  ASSUME PromotionInv, NEW t \in Ticks, TickFinishes(t)
  PROVE  PromotionInv'
<1>1. PICK s : s = canary[t].state
  OBVIOUS
<1>2. PICK d : d = canary[t].dep
  OBVIOUS
<1>3. /\ host \in HostRecords /\ UNCHANGED <<pilot, remote, hour>>
      /\ canary[t].at = "finishing" /\ s[4] # None /\ host.points = s /\ Whole("deployment") /\ d = host.deployment
      /\ Begun(s)
  BY <1>1, <1>2 DEF TickFinishes, MayFinish, PromotionInv, PromotionTypes, TickKept
<1>4. d \in PairFiles /\ s \in Checkpoints /\ Earned(s) /\ s[1].through = [by |-> d.by, at |-> d.at]
  BY <1>3 DEF Begun, Whole, HostRecords, PromotionInv, DeploymentKept, EvidenceIsOwn
<1>5. PICK claim : claim = [dep |-> d, state |-> s]
  OBVIOUS
<1>6. claim \in [dep : PairFiles, state : Checkpoints] /\ claim.dep = d /\ claim.state = s
  BY <1>4, <1>5
<1>7. PICK m : m = IF host.promotion = None THEN claim ELSE host.promotion
  OBVIOUS
<1>8. m \in [dep : PairFiles, state : Checkpoints] \cup {None}
  BY <1>3, <1>6, <1>7 DEF HostRecords
<1>9. host' = [host EXCEPT !.promotion = m]
  BY <1>1, <1>2, <1>3, <1>5, <1>7 DEF TickFinishes, HostRecords
<1>10. host' = [[host EXCEPT !.points = s] EXCEPT !.promotion = m]
  BY <1>3, <1>9 DEF HostRecords
<1>11. host'.promotion = m /\ host'.clears = host.clears /\ host'.points = s
  BY <1>3, <1>9 DEF HostRecords
<1>12. PromotionKept'
  <2>1. CASE host.promotion = None
    BY <1>3, <1>4, <1>6, <1>7, <1>11, <2>1 DEF PromotionKept, Begun, Earned
  <2>2. CASE host.promotion # None
    BY <1>3, <1>7, <1>11, <2>2 DEF PromotionInv, PromotionKept, Begun, Earned
  <2> QED
    BY <2>1, <2>2
<1>13. canary' = [canary EXCEPT ![t] = canary'[t]] /\ canary'[t] = Resting
  BY DEF TickFinishes, PromotionInv, PromotionTypes
<1>14. Resting \in TickRecords /\ Resting.at = "idle"
  BY DEF Resting, TickRecords
<1>15. TickKept(t)'
  BY <1>13, <1>14 DEF TickKept
<1>16. /\ canary'[t] \in TickRecords /\ s[1] = host.points[1] /\ Earned(s) /\ s \in Checkpoints
       /\ \A i \in 1 .. 4 : host.points[i] # None => s[i] = host.points[i]
       /\ host.points[4] # None => s = host.points
  BY <1>3, <1>4, <1>13, <1>14
<1> QED
  BY <1>3, <1>8, <1>10, <1>12, <1>13, <1>15, <1>16, TickWrites

\* The host is prepared anew, nothing being under way.
LEMMA OperatorClearsStep ==
  ASSUME PromotionInv, OperatorClears
  PROVE  PromotionInv'
<1>1. host \in HostRecords /\ UNCHANGED <<pilot, remote, canary, hour>>
  BY DEF OperatorClears, PromotionInv, PromotionTypes
<1>2. PICK stays \in BOOLEAN :
        host' = [EmptyHost EXCEPT !.points = IF stays THEN host.points ELSE @,
                                  !.promotion = IF stays THEN host.promotion ELSE @,
                                  !.ingress = host.ingress, !.clears = host.clears + 1,
                                  !.skews = host.skews]
  BY DEF OperatorClears
<1>3. PICK pts : pts = IF stays THEN host.points ELSE NoPoints
  OBVIOUS
<1>4. PICK m : m = IF stays THEN host.promotion ELSE None
  OBVIOUS
<1>5. PICK clears \in Nat : clears = host.clears + 1
  BY <1>1 DEF HostRecords
<1>6. NoPoints \in Checkpoints /\ Earned(NoPoints)
  BY DEF NoPoints, Checkpoints, Earned
<1>7. pts \in Checkpoints /\ Earned(pts) /\ m \in [dep : PairFiles, state : Checkpoints] \cup {None}
  BY <1>1, <1>3, <1>4, <1>6 DEF HostRecords, PromotionInv
<1>8. host' = [consumers |-> None, handoff |-> None, backup |-> None, replay |-> None, browser |-> None,
               deployment |-> None, stage |-> None, replayStage |-> None, contracts |-> {},
               late |-> {}, points |-> pts, promotion |-> m, ingress |-> host.ingress, clears |-> clears,
               skews |-> host.skews]
  BY <1>2, <1>3, <1>4, <1>5 DEF EmptyHost
<1>9. /\ host' \in HostRecords /\ host'.points = pts /\ host'.promotion = m /\ host'.ingress = host.ingress
      /\ host'.clears = clears /\ host'.stage = None /\ host'.consumers = None /\ host'.contracts = {}
      /\ host'.deployment = None
  BY <1>1, <1>5, <1>7, <1>8 DEF HostRecords
<1>10. PromotionTypes' /\ Earned(host'.points)
  BY <1>1, <1>7, <1>9 DEF PromotionInv, PromotionTypes
<1>11. StageKept' /\ DeploymentKept'
  BY <1>9 DEF StageKept, DeploymentKept, EvidenceIsOwn, Whole
<1>12. PromotionKept'
  <2>1. host.clears \in Nat
    BY <1>1 DEF HostRecords
  <2>2. clears # 0
    BY <1>5, <2>1
  <2> QED
    BY <1>4, <1>9, <2>2 DEF PromotionInv, PromotionKept, Begun, Earned
<1>13. ASSUME NEW p \in Pilots PROVE PilotKept(p)'
  <2>1. remote[p] = NoProcess /\ pilot'[p] = pilot[p] /\ remote'[p] = remote[p] /\ PilotAgrees(p) /\ IngressOf(p)
    BY <1>1 DEF OperatorClears, PromotionInv, PilotKept
  <2>2. pilot[p].at \in 0 .. 12 /\ (pilot[p].at > 0 => pilot[p].end \notin {None, "rollingBack"})
    BY HeldPilot DEF OperatorClears
  <2>3. ~Unfinished(p)
    BY <2>1, <2>2, NoneIsNothing DEF Unfinished, Piloting, PilotAgrees
  <2>4. ~Unfinished(p)' /\ PilotAgrees(p)' /\ IngressOf(p)'
    BY <1>9, <2>1, <2>3 DEF Unfinished, Piloting, PilotAgrees, PhaseOf, IngressOf, Carries
  <2>5. UnderWay(p)'
    BY <2>1 DEF UnderWay, NoProcess
  <2> QED
    BY <2>4, <2>5 DEF PilotKept
<1>14. ASSUME NEW t \in Ticks PROVE TickKept(t)'
  BY <1>1 DEF OperatorClears, TickKept
<1> QED
  BY <1>10, <1>11, <1>12, <1>13, <1>14 DEF PromotionInv

\* Nothing relies on what the clock says now.
LEMMA ClockMoves ==
  ASSUME PromotionInv, hour' \in Nat, UNCHANGED <<pilot, remote, canary>>,
         \/ host' = host
         \/ host' = [host EXCEPT !.skews = host.skews + 1]
  PROVE  PromotionInv'
<1>1. host \in HostRecords
  BY DEF PromotionInv, PromotionTypes
<1>2. PICK skews \in Nat : host' = [host EXCEPT !.skews = skews]
  <2>1. host.skews \in Nat /\ host.skews + 1 \in Nat
    BY <1>1 DEF HostRecords
  <2>2. host = [host EXCEPT !.skews = host.skews]
    BY <1>1 DEF HostRecords
  <2> QED
    BY <2>1, <2>2
<1>3. /\ host' \in HostRecords /\ host'.points = host.points /\ host'.stage = host.stage
      /\ host'.contracts = host.contracts /\ host'.late = host.late /\ host'.promotion = host.promotion
      /\ host'.consumers = host.consumers /\ host'.handoff = host.handoff /\ host'.backup = host.backup
      /\ host'.replay = host.replay /\ host'.browser = host.browser /\ host'.deployment = host.deployment
      /\ host'.ingress = host.ingress /\ host'.clears = host.clears
  BY <1>1, <1>2 DEF HostRecords
<1>4. PromotionTypes' /\ Earned(host'.points)
  BY <1>3 DEF PromotionInv, PromotionTypes
<1>5. StageKept' /\ DeploymentKept' /\ PromotionKept'
  BY <1>3 DEF PromotionInv, StageKept, DeploymentKept, EvidenceIsOwn, Whole, Own, Serves, PromotionKept, Begun,
     Pairs
<1>6. ASSUME NEW p \in Pilots PROVE PilotKept(p)'
  BY <1>3 DEF PromotionInv, PilotKept, PilotAgrees, PhaseOf, Unfinished, Piloting, Achieved, Past, Own, Serves,
     CutoverOf, UnderWay, Whole,
     Half, IngressOf, Carries
<1>7. ASSUME NEW t \in Ticks PROVE TickKept(t)'
  BY <1>3 DEF PromotionInv, TickKept, Whole, Begun
<1> QED
  BY <1>4, <1>5, <1>6, <1>7 DEF PromotionInv

\* Every step keeps the invariant.
LEMMA PromotionNextInv ==
  ASSUME PromotionInv, [PromotionNext]_promotionVars
  PROVE  PromotionInv'
<1>1. CASE UNCHANGED promotionVars
  <2>1. hour' \in Nat /\ UNCHANGED <<host, pilot, remote, canary>>
    BY <1>1 DEF promotionVars, PromotionInv, PromotionTypes
  <2> QED
    BY <2>1, ClockMoves
<1>2. CASE OperatorClears
  BY <1>2, OperatorClearsStep
<1>3. CASE HourPasses \/ ClockSetBack
  <2>1. hour \in Nat
    BY DEF PromotionInv, PromotionTypes
  <2>2. hour' \in Nat
    BY <1>3, <2>1 DEF HourPasses, ClockSetBack
  <2> QED
    BY <1>3, <2>2, ClockMoves DEF HourPasses, ClockSetBack
<1>4. ASSUME NEW p \in Pilots, PilotStep(p) PROVE PromotionInv'
  BY <1>4, PilotStartsStep, AsksHostStep, HearsStep, PilotFailsStep, RollsBackStep DEF PilotStep
<1>5. ASSUME NEW p \in Pilots, HostStep(p) \/ HostStops(p) PROVE PromotionInv'
  BY <1>5, HostStepKeeps, HostStopsStep
<1>6. ASSUME NEW t \in Ticks, CanaryStep(t) PROVE PromotionInv'
  BY <1>6, TickBeginsStep, TickObservesStep, TickAppendsStep, TickFinishesStep, TickFailsStep DEF CanaryStep
<1> QED
  BY <1>1, <1>2, <1>3, <1>4, <1>5, <1>6 DEF PromotionNext

\* Promotions are earned, evidence is of one run, contracts are not deployed again by who
\* could have seen the evidence, and what a pilot opened it closes: whoever runs pilots and ticks at the same time, whenever
\* a process is killed or the clock is set back.
THEOREM PromotionKeepsItsPromise == PromotionSpec => []PromotionPromise
BY PromotionInitInv, PromotionNextInv, PromotionInvImplies, PTL DEF PromotionSpec

---------------------------------------------------------------------------
(***************************************************************************)
(* Every part keeps the types of its state: beside the types that the      *)
(* promises rest on, the numbers stay within their bounds.                 *)
(***************************************************************************)

\* Rounds are those of the bound, and a preflight takes no sample too many.
RoundsBounded ==
  /\ epoch \in [now : 1 .. LastRound, finalized : 0 .. LastRound]
  /\ \A r \in Proving :
       /\ sampling[r] # None => Len(sampling[r].samples) <= SampleCount
       /\ sentTx[r] # None /\ sentTx[r].mined # "no" => sentTx[r].round \in 1 .. LastRound
       /\ votingRound[r] \in (1 .. LastRound) \cup {None}

\* A run that was signed or submitted has a transaction.
LEMMA OwnWhenSigned ==
  ASSUME AttestationInv, NEW r \in Proving, stage[r] \in {"signed", "submitted"}
  PROVE  sentTx[r] \in Txs /\ sentTx[r] # None
<1>1. sentTx[r] \in Txs
  BY DEF AttestationInv, EvidenceOf, OwnTransaction, Submitted, RunStages
<1>2. 0 .. MaxUpgrades \subseteq Nat /\ Fees \subseteq Nat
  BY AttestationAssumption
<1>3. sentTx[r] \in [to : Nat, value : Nat, own : BOOLEAN, named : Nat, on : BOOLEAN,
                     mined : {"no", "success", "reverted"}, round : Nat]
  BY <1>1, <1>2 DEF Txs
<1> QED
  BY <1>1, <1>3, AttestationAssumption

LEMMA RoundsBoundedStep ==
  ASSUME AttestationInv, RoundsBounded, [AttestationNext]_attestationVars
  PROVE  RoundsBounded'
<1> USE DEF RoundsBounded
<1>1. /\ sampling \in [Proving -> Samplings \cup {None}] /\ sentTx \in [Proving -> Txs \cup {None}]
      /\ votingRound \in [Proving -> Nat \cup {None}]
  BY DEF AttestationInv, EvidenceTypes
<1>2. SampleCount \in Nat /\ LastRound \in Nat
  BY AttestationAssumption
<1>3. CASE RegistryChanges \/ PolicyConfigured \/ UNCHANGED attestationVars
  BY <1>3 DEF RegistryChanges, PolicyConfigured, attestationVars
<1>4. CASE RoundPasses
  <2>1. epoch' \in [now : 1 .. LastRound, finalized : 0 .. LastRound]
    BY <1>2, <1>4 DEF RoundPasses
  <2> QED
    BY <1>4, <2>1 DEF RoundPasses
<1>5. ASSUME NEW r \in Proving, Mined(r) PROVE RoundsBounded'
  <2>1. PICK t \in Txs : t = sentTx[r]
    BY <1>1, <1>5 DEF Mined
  <2>2. PICK u : u = [[t EXCEPT !.mined = IF t.to = registry.version THEN "success" ELSE "reverted"] EXCEPT !.round = epoch.now]
    OBVIOUS
  <2>3. u.round = epoch.now
    BY <2>1, <2>2 DEF Txs
  <2>4. sentTx' = [sentTx EXCEPT ![r] = u]
    BY <1>1, <1>5, <2>1, <2>2 DEF Mined, Txs
  <2>5. \A q \in Proving : q # r => sentTx'[q] = sentTx[q]
    BY <1>1, <2>4
  <2>6. sentTx'[r].round \in 1 .. LastRound
    BY <1>1, <2>3, <2>4
  <2> QED
    BY <1>5, <2>5, <2>6 DEF Mined
<1>6. ASSUME NEW r \in Proving, PreflightBegins(r) \/ RelayerResolves(r) PROVE RoundsBounded'
  <2>1. PICK e : e = [pin |-> registry, samples |-> <<>>]
    OBVIOUS
  <2>2. sampling' = [sampling EXCEPT ![r] = e] /\ Len(e.samples) = 0
    BY <1>6, <2>1 DEF PreflightBegins, RelayerResolves
  <2>3. \A q \in Proving : sampling'[q] \in {sampling[q], e}
    BY <1>1, <2>2
  <2> QED
    BY <1>2, <1>6, <2>2, <2>3 DEF PreflightBegins, RelayerResolves
<1>7. ASSUME NEW r \in Proving, SampleTaken(r) PROVE RoundsBounded'
  <2>1. PICK e \in Samplings : e = sampling[r] /\ Len(e.samples) < SampleCount
    BY <1>1, <1>7 DEF SampleTaken, WantsSample
  <2>2. PICK s \in Samples : sampling' = [sampling EXCEPT ![r].samples = Append(@, s)]
    BY <1>7 DEF SampleTaken, Samples
  <2>3. PICK f : f = [e EXCEPT !.samples = Append(e.samples, s)]
    OBVIOUS
  <2>4. e.samples \in Seq(Samples) /\ Len(e.samples) \in Nat /\ f.samples = Append(e.samples, s)
    BY <2>1, <2>3 DEF Samplings
  <2>5. Len(f.samples) = Len(e.samples) + 1
    BY <2>4
  <2>6. Len(f.samples) <= SampleCount
    BY <1>2, <2>1, <2>4, <2>5
  <2>7. sampling' = [sampling EXCEPT ![r] = f]
    BY <1>1, <2>1, <2>2, <2>3
  <2>8. \A q \in Proving : sampling'[q] \in {sampling[q], f}
    BY <1>1, <2>7
  <2> QED
    BY <1>7, <2>6, <2>8 DEF SampleTaken
<1>8. ASSUME NEW r \in Proving, AttemptFails(r) \/ PreflightEnds(r) PROVE RoundsBounded'
  <2>1. sampling' = [sampling EXCEPT ![r] = None] /\ UNCHANGED <<epoch, sentTx, votingRound>>
    BY <1>8 DEF AttemptFails, PreflightEnds
  <2>2. \A q \in Proving : sampling'[q] \in {sampling[q], None}
    BY <1>1, <2>1
  <2> QED
    BY <2>1, <2>2
<1>9. ASSUME NEW r \in Proving, SignRelayerTransaction(r) \/ WalletSendsTx(r) PROVE RoundsBounded'
  <2>1. /\ \A q \in Proving : sentTx'[q] = sentTx[q] \/ sentTx'[q].mined = "no"
        /\ UNCHANGED <<epoch, votingRound>>
    BY <1>1, <1>9 DEF SignRelayerTransaction, WalletSendsTx
  <2>2. \A q \in Proving : sampling'[q] \in {sampling[q], None}
    BY <1>1, <1>9 DEF SignRelayerTransaction, WalletSendsTx
  <2> QED
    BY <2>1, <2>2
<1>10. ASSUME NEW r \in Proving, BroadcastSigned(r) \/ BroadcastUnanswered(r) PROVE RoundsBounded'
  <2>1. sentTx' = [sentTx EXCEPT ![r].on = TRUE] /\ UNCHANGED <<epoch, sampling, votingRound>>
    BY <1>10 DEF BroadcastSigned, BroadcastUnanswered
  <2>2. sentTx[r] \in Txs
    BY <1>10, OwnWhenSigned DEF BroadcastSigned, BroadcastUnanswered
  <2>3. PICK t \in Txs : t = sentTx[r]
    BY <2>2
  <2>4. PICK u : u = [t EXCEPT !.on = TRUE]
    OBVIOUS
  <2>5. u.mined = t.mined /\ u.round = t.round
    BY <2>3, <2>4 DEF Txs
  <2>6. sentTx' = [sentTx EXCEPT ![r] = u]
    BY <1>1, <2>1, <2>3, <2>4
  <2>7. \A q \in Proving : q # r => sentTx'[q] = sentTx[q]
    BY <1>1, <2>6
  <2>8. sentTx'[r] = u
    BY <1>1, <2>6
  <2>9. sentTx[r] # None
    BY <1>10, <2>2, OwnWhenSigned DEF BroadcastSigned, BroadcastUnanswered
  <2>10. u.mined # "no" => u.round \in 1 .. LastRound
    BY <2>3, <2>5, <2>9
  <2> QED
    BY <2>1, <2>7, <2>8, <2>10
<1>11. ASSUME NEW r \in Proving, GetReceipt(r) PROVE RoundsBounded'
  <2>1. UNCHANGED <<epoch, sampling, sentTx>>
    BY <1>11 DEF GetReceipt
  <2>2. CASE sentTx[r].mined = "success"
    <3>1. sentTx[r] \in Txs
      BY <1>11, OwnWhenSigned DEF GetReceipt
    <3>2. sentTx[r] # None
      BY <1>11, OwnWhenSigned DEF GetReceipt
    <3>3. sentTx[r].round \in 1 .. LastRound
      BY <2>2, <3>2
    <3>4. votingRound' = [votingRound EXCEPT ![r] = sentTx[r].round]
      BY <1>11, <2>2 DEF GetReceipt, RoundOf
    <3>5. \A q \in Proving : votingRound'[q] \in {votingRound[q], sentTx[r].round}
      BY <1>1, <3>4
    <3> QED
      BY <2>1, <3>3, <3>5
  <2>3. CASE sentTx[r].mined # "success"
    BY <1>11, <2>1, <2>3 DEF GetReceipt
  <2> QED
    BY <2>2, <2>3
<1>12. ASSUME NEW r \in Proving,
              \/ AttachObserved(r) \/ IsRelayFinalized(r) \/ FetchProof(r) \/ VerifyDaProof(r)
              \/ VerifyByConsumer(r) \/ GivesUp(r)
       PROVE  RoundsBounded'
  BY <1>12 DEF AttachObserved, IsRelayFinalized, FetchProof, VerifyDaProof, VerifyByConsumer, GivesUp
<1> QED
  BY <1>3, <1>4, <1>5, <1>6, <1>7, <1>8, <1>9, <1>10, <1>11, <1>12 DEF AttestationNext

\* The evidence of a run keeps its types; no preflight has more samples than it wants.
THEOREM AttestationTypesHold == AttestationSpec => []AttestationTypeOK
<1>1. AttestationInit => RoundsBounded
  BY AttestationAssumption DEF AttestationInit, RoundsBounded
<1>2. AttestationInv /\ RoundsBounded => AttestationTypeOK
  BY DEF AttestationInv, EvidenceTypes, RoundsBounded, AttestationTypeOK, Pins, Proofs
<1>3. AttestationInv /\ RoundsBounded /\ [AttestationNext]_attestationVars => RoundsBounded'
  BY RoundsBoundedStep
<1> QED
  BY <1>1, <1>2, <1>3, AttestationInitInv, AttestationNextInv, PTL DEF AttestationSpec

---------------------------------------------------------------------------

\* Releases are those of the bound, a body is read no further than its limit and its
\* deadline, and only what is a token is revoked.
ExchangeBounded(x, e) ==
  e.ask \in AsksOf[x] /\ e.age \in 0 .. Deadline /\ e.size \in 0 .. BodyLimit + 1

SurfaceBounded ==
  /\ serving \in (1 .. MaxReleases) \cup {None} /\ cached \in (1 .. MaxReleases) \cup {None}
  /\ gone \subseteq Holders \cup Links
  /\ \A x \in Exchanges : exchange[x] # None => ExchangeBounded(x, exchange[x])

LEMMA SurfaceNumbers ==
  /\ BodyLimit \in Nat /\ Deadline \in Nat /\ MaxReleases \in Nat
  /\ 0 \in 0 .. Deadline /\ 0 \in 0 .. BodyLimit + 1 /\ 1 \in 1 .. MaxReleases
  /\ \A n \in 0 .. Deadline : n < Deadline => n + 1 \in 0 .. Deadline
  /\ \A n \in 0 .. BodyLimit + 1 : n < BodyLimit => n + 1 \in 0 .. BodyLimit + 1
  BY HttpAssumption

\* One exchange goes on, is answered or is over.
LEMMA BoundedGoesOn ==
  ASSUME HttpInv, SurfaceBounded, NEW x \in Exchanges, NEW e,
         exchange' = [exchange EXCEPT ![x] = e], e # None => ExchangeBounded(x, e),
         serving' = serving, gone' = gone, cached' \in {cached, serving}
  PROVE  SurfaceBounded'
<1>1. exchange \in [Exchanges -> Exchanged \cup {None}]
  BY DEF HttpInv, SurfaceTypes
<1>2. ASSUME NEW y \in Exchanges, exchange'[y] # None PROVE ExchangeBounded(y, exchange'[y])
  <2>1. exchange'[y] = IF y = x THEN e ELSE exchange[y]
    BY <1>1
  <2> QED
    BY <1>2, <2>1 DEF SurfaceBounded
<1> QED
  BY <1>2 DEF SurfaceBounded

\* It keeps what it asks, or is none.
LEMMA BoundedStays ==
  ASSUME HttpInv, SurfaceBounded, NEW x \in Exchanges, exchange[x] # None,
         \/ Over(x) \/ \E s : Advance(x, s) \/ \E got : Answer(x, got)
         \/ \E auth : exchange' = [exchange EXCEPT ![x].at = "admitted", ![x].auth = auth],
         serving' = serving, gone' = gone, cached' \in {cached, serving}
  PROVE  SurfaceBounded'
<1>1. exchange \in [Exchanges -> Exchanged \cup {None}]
  BY DEF HttpInv, SurfaceTypes
<1>2. PICK f \in Exchanged : f = exchange[x] /\ ExchangeBounded(x, f)
  BY <1>1 DEF SurfaceBounded
<1>3. CASE Over(x)
  BY <1>3, BoundedGoesOn DEF Over
<1>4. ASSUME NEW s, Advance(x, s) PROVE SurfaceBounded'
  <2>1. PICK e : e = [f EXCEPT !.at = s]
    OBVIOUS
  <2>2. ExchangeBounded(x, e)
    BY <1>2, <2>1 DEF Exchanged, ExchangeBounded
  <2>3. exchange' = [exchange EXCEPT ![x] = e]
    BY <1>1, <1>2, <1>4, <2>1 DEF Advance
  <2> QED
    BY <2>2, <2>3, BoundedGoesOn
<1>5. ASSUME NEW got, Answer(x, got) PROVE SurfaceBounded'
  <2>1. PICK e : e = [[f EXCEPT !.at = "answered"] EXCEPT !.got = got]
    OBVIOUS
  <2>2. ExchangeBounded(x, e)
    BY <1>2, <2>1 DEF Exchanged, ExchangeBounded
  <2>3. exchange' = [exchange EXCEPT ![x] = e]
    BY <1>1, <1>2, <1>5, <2>1 DEF Answer, Exchanged
  <2> QED
    BY <2>2, <2>3, BoundedGoesOn
<1>6. ASSUME NEW auth, exchange' = [exchange EXCEPT ![x].at = "admitted", ![x].auth = auth] PROVE SurfaceBounded'
  <2>1. PICK e : e = [[f EXCEPT !.at = "admitted"] EXCEPT !.auth = auth]
    OBVIOUS
  <2>2. ExchangeBounded(x, e)
    BY <1>2, <2>1 DEF Exchanged, ExchangeBounded
  <2>3. exchange' = [exchange EXCEPT ![x] = e]
    BY <1>1, <1>2, <1>6, <2>1 DEF Exchanged
  <2> QED
    BY <2>2, <2>3, BoundedGoesOn
<1> QED
  BY <1>3, <1>4, <1>5, <1>6

LEMMA ProcessEndsBounded ==
  ASSUME HttpInv, SurfaceBounded, ProcessEnds
  PROVE  SurfaceBounded'
<1>1. \A x \in Exchanges : exchange'[x] \in {exchange[x], None}
  BY DEF ProcessEnds
<1> QED
  BY <1>1 DEF ProcessEnds, SurfaceBounded

LEMMA BodyBounded ==
  ASSUME HttpInv, SurfaceBounded, NEW x \in Exchanges, Arrive(x) \/ ReadChunk(x) \/ BodyEnds(x) \/ BodyAborts(x)
  PROVE  SurfaceBounded'
<1>1. exchange \in [Exchanges -> Exchanged \cup {None}]
  BY DEF HttpInv, SurfaceTypes
<1>2. CASE Arrive(x)
  <2>1. PICK ask \in AsksOf[x] :
          exchange' = [exchange EXCEPT
            ![x] = [at |-> "reading", ask |-> ask, size |-> 0, age |-> 0,
                    late |-> ask.who \in gone, auth |-> None, got |-> [told |-> "nothing"]]]
    BY <1>2 DEF Arrive
  <2>2. PICK e : e = [at |-> "reading", ask |-> ask, size |-> 0, age |-> 0,
                      late |-> ask.who \in gone, auth |-> None, got |-> [told |-> "nothing"]]
    OBVIOUS
  <2>3. ExchangeBounded(x, e)
    BY <2>2, SurfaceNumbers DEF ExchangeBounded
  <2> QED
    BY <1>2, <2>1, <2>2, <2>3, BoundedGoesOn DEF Arrive
<1>3. CASE ReadChunk(x) /\ ~Over(x)
  <2>1. PICK f \in Exchanged : f = exchange[x] /\ ExchangeBounded(x, f) /\ f.size < BodyLimit
    BY <1>1, <1>3 DEF ReadChunk, At, WithinLimit, SurfaceBounded
  <2>2. PICK n \in 0 .. BodyLimit + 1 : n = f.size + 1
    BY <2>1, SurfaceNumbers DEF ExchangeBounded
  <2>3. PICK e : e = [f EXCEPT !.size = n]
    OBVIOUS
  <2>4. ExchangeBounded(x, e)
    BY <2>1, <2>3 DEF ExchangeBounded, Exchanged
  <2>5. exchange' = [exchange EXCEPT ![x] = e]
    BY <1>1, <1>3, <2>1, <2>2, <2>3 DEF ReadChunk
  <2> QED
    BY <1>3, <2>4, <2>5, BoundedGoesOn DEF ReadChunk
<1>4. CASE ReadChunk(x) /\ Over(x)
  BY <1>4, BoundedStays DEF ReadChunk, At
<1>5. CASE BodyEnds(x)
  BY <1>5, BoundedStays DEF BodyEnds, At
<1>6. CASE BodyAborts(x)
  BY <1>6, BoundedStays, ProcessEndsBounded DEF BodyAborts, At
<1> QED
  BY <1>2, <1>3, <1>4, <1>5, <1>6

LEMMA TimeBounded ==
  ASSUME HttpInv, SurfaceBounded, TimePasses
  PROVE  SurfaceBounded'
<1>1. exchange \in [Exchanges -> Exchanged \cup {None}]
  BY DEF HttpInv, SurfaceTypes
<1>2. ASSUME NEW x \in Exchanges, exchange'[x] # None PROVE ExchangeBounded(x, exchange'[x])
  <2>1. CASE At(x, "reading") /\ IsPublicAuthPost(exchange[x].ask) /\ exchange[x].age < Deadline
    <3>1. PICK f \in Exchanged : f = exchange[x] /\ ExchangeBounded(x, f) /\ f.age < Deadline
      BY <1>1, <2>1 DEF At, SurfaceBounded
    <3>2. PICK n \in 0 .. Deadline : n = f.age + 1
      BY <3>1, SurfaceNumbers DEF ExchangeBounded
    <3>3. exchange'[x] = [f EXCEPT !.age = n]
      BY <2>1, <3>1, <3>2 DEF TimePasses
    <3> QED
      BY <3>1, <3>3 DEF ExchangeBounded, Exchanged
  <2>2. CASE ~(At(x, "reading") /\ IsPublicAuthPost(exchange[x].ask) /\ exchange[x].age < Deadline)
    <3>1. exchange'[x] = exchange[x]
      BY <2>2 DEF TimePasses
    <3> QED
      BY <1>2, <3>1 DEF SurfaceBounded
  <2> QED
    BY <2>1, <2>2
<1> QED
  BY <1>2 DEF TimePasses, SurfaceBounded

LEMMA RouterBounded ==
  ASSUME HttpInv, SurfaceBounded, NEW x \in Exchanges,
         \/ ServeLogin(x) \/ Authenticate(x) \/ AuthenticationThrows(x) \/ ServeTemplate(x)
         \/ ServeRead(x) \/ ServeElsewhere(x) \/ PersistIntent(x) \/ CreateShare(x)
         \/ OperationFails(x)
  PROVE  SurfaceBounded'
<1>1. CASE AuthenticationThrows(x)
  BY <1>1, ProcessEndsBounded DEF AuthenticationThrows
<1>2. CASE Authenticate(x)
  BY <1>2, BoundedStays DEF Authenticate, At
<1>3. CASE ServeTemplate(x)
  <2>1. cached' \in {cached, serving} /\ \E got : Answer(x, got)
    BY <1>3 DEF ServeTemplate
  <2> QED
    BY <1>3, <2>1, BoundedStays DEF ServeTemplate, At
<1>4. CASE ServeLogin(x) \/ ServeRead(x) \/ CreateShare(x)
  <2>1. exchange[x] # None /\ UNCHANGED <<serving, gone, cached>>
    BY <1>4 DEF ServeLogin, ServeRead, CreateShare, At
  <2>2. Over(x) \/ \E got : Answer(x, got)
    BY <1>4 DEF ServeLogin, ServeRead, CreateShare
  <2> QED
    BY <2>1, <2>2, BoundedStays
<1>5. CASE ServeElsewhere(x) \/ PersistIntent(x) \/ OperationFails(x)
  <2>1. exchange[x] # None /\ UNCHANGED <<serving, gone, cached>>
    BY <1>5 DEF ServeElsewhere, PersistIntent, OperationFails, At
  <2>2. Over(x) \/ \E s : Advance(x, s)
    BY <1>5 DEF ServeElsewhere, PersistIntent, OperationFails
  <2> QED
    BY <2>1, <2>2, BoundedStays
<1> QED
  BY <1>1, <1>2, <1>3, <1>4, <1>5

LEMMA SurfaceBoundedStep ==
  ASSUME HttpInv, SurfaceBounded, [HttpNext]_httpVars
  PROVE  SurfaceBounded'
<1>1. CASE Restart \/ UNCHANGED httpVars \/ \E r \in RunsKept : EvidenceChanges(r)
  BY <1>1 DEF Restart, httpVars, EvidenceChanges, SurfaceBounded
<1>2. ASSUME NEW t \in Holders \cup shares, Revoke(t) PROVE SurfaceBounded'
  BY <1>2 DEF Revoke, SurfaceBounded, HttpInv, SurfaceTypes
<1>3. CASE Crash
  BY <1>3, ProcessEndsBounded DEF Crash
<1> QED
  BY <1>1, <1>2, <1>3, TimeBounded, BodyBounded, RouterBounded DEF HttpNext

\* The surface keeps its types: no body is held beyond its limit, no request beyond its
\* deadline.
THEOREM HttpTypesHold == HttpSpec => []HttpTypeOK
<1>1. HttpInit => HttpInv /\ SurfaceBounded
  BY HttpInitInv, SurfaceNumbers DEF HttpInit, SurfaceBounded
<1>2. HttpInv /\ [HttpNext]_httpVars => HttpInv'
  BY HttpNextInv
<1>3. HttpInv /\ SurfaceBounded /\ [HttpNext]_httpVars => SurfaceBounded'
  BY SurfaceBoundedStep
<1>4. ASSUME HttpInv, SurfaceBounded PROVE HttpTypeOK
  <2>1. ASSUME NEW x \in Exchanges, exchange[x] # None
        PROVE  /\ exchange[x].at \in {"reading", "routed", "admitted", "intended", "repeated", "answered"}
               /\ exchange[x].ask \in AsksOf[x] /\ exchange[x].age \in 0 .. Deadline
               /\ exchange[x].size \in 0 .. BodyLimit + 1 /\ exchange[x].late \in BOOLEAN
               /\ exchange[x].auth # None => exchange[x].auth.kind \in {"browser", "cli", "share"}
    <3>1. exchange[x] \in Exchanged /\ ExchangeBounded(x, exchange[x])
      BY <1>4, <2>1 DEF HttpInv, SurfaceTypes, SurfaceBounded
    <3>2. Authorities \subseteq [kind : {"browser", "cli", "share"},
            project : {HolderOf[t].project : t \in Holders}, run : RunsKept \cup {None}]
      BY HttpAssumption DEF Authorities
    <3>3. PICK e \in Exchanged : e = exchange[x] /\ ExchangeBounded(x, e)
      BY <3>1
    <3>4. e.auth # None => e.auth.kind \in {"browser", "cli", "share"}
      BY <3>2 DEF Exchanged
    <3> QED
      BY <3>3, <3>4 DEF Exchanged, ExchangeBounded
  <2> QED
    BY <1>4, <2>1 DEF HttpInv, SurfaceTypes, SurfaceBounded, HttpTypeOK
<1> QED
  BY <1>1, <1>2, <1>3, <1>4, PTL DEF HttpSpec

\* An import is in one of its states, and what it verified names a release.
ImportOfRelease(i) ==
  /\ import[i].at \in {"idle", "inspected", "verified", "committed", "imported", "failed"}
  /\ import[i].at = "verified" => import[i].by \in Releases /\ import[i].bytes.commit \in Releases

\* What the file, the rows and the server name are releases.
OfReleases ==
  /\ made \in 0 .. MaxRecorded /\ deployed \in Releases
  /\ recorded # None => recorded.commit \in Releases
  /\ \A entry \in table : entry.by \in Releases /\ entry.recording.commit \in Releases
  /\ \A i \in Imports : ImportOfRelease(i)
  /\ demo.starts \in 0 .. MaxStartups /\ demo.release \in Releases \cup {0}

\* A step of one import leaves the others alone.
LEMMA ImportOfReleaseStep ==
  ASSUME OfReleases, NEW i \in Imports, UNCHANGED <<recorded, made, deployed, demo>>,
         \A entry \in table' : entry.by \in Releases /\ entry.recording.commit \in Releases,
         \A j \in Imports \ {i} : import'[j] = import[j], ImportOfRelease(i)'
  PROVE  OfReleases'
<1>1. ASSUME NEW j \in Imports PROVE ImportOfRelease(j)'
  BY DEF OfReleases, ImportOfRelease
<1> QED
  BY <1>1 DEF OfReleases

\* Every step of an import keeps them.
LEMMA OfReleasesImport ==
  ASSUME DemoInv, OfReleases, NEW i \in Imports, ImportStep(i)
  PROVE  OfReleases'
<1>1. PICK S : import \in [Imports -> Fields(S)]
  BY DEF DemoInv, Shaped
<1>2. PICK f \in Fields(S) : f = import[i]
  BY <1>1
<1>0. ImportOfRelease(i)
  BY DEF OfReleases
<1>3. CASE LooksAtFile(i)
  <2>1. PICK e : e = [[f EXCEPT !.at = "inspected"] EXCEPT !.expected = recorded]
    OBVIOUS
  <2>2. import' = [import EXCEPT ![i] = e] /\ e.at = "inspected"
    BY <1>1, <1>2, <1>3, <2>1 DEF LooksAtFile, Fields
  <2>3. /\ ImportOfRelease(i)'
        /\ \A j \in Imports \ {i} : import'[j] = import[j]
    BY <1>1, <2>2 DEF ImportOfRelease
  <2> QED
    BY <1>3, <2>3, ImportOfReleaseStep DEF LooksAtFile, OfReleases
<1>4. CASE ReadsFile(i)
  <2>1. PICK e : e = [[[f EXCEPT !.at = "verified"] EXCEPT !.bytes = recorded] EXCEPT !.by = deployed]
    OBVIOUS
  <2>2. /\ import' = [import EXCEPT ![i] = e]
        /\ e.at = "verified" /\ e.bytes = recorded /\ e.by = deployed
    BY <1>1, <1>2, <1>4, <2>1 DEF ReadsFile, Fields
  <2>3. /\ ImportOfRelease(i)'
        /\ \A j \in Imports \ {i} : import'[j] = import[j]
    BY <1>1, <1>4, <2>2 DEF ImportOfRelease, OfReleases, ReadsFile
  <2> QED
    BY <1>4, <2>3, ImportOfReleaseStep DEF ReadsFile, OfReleases
<1>5. CASE Inserts(i)
  <2>1. PICK e : e = [[f EXCEPT !.at = "committed"] EXCEPT !.reported = import[i].bytes]
    OBVIOUS
  <2>2. import' = [import EXCEPT ![i] = e] /\ e.at = "committed"
    BY <1>1, <1>2, <1>5, <2>1 DEF Inserts, Fields
  <2>3. /\ ImportOfRelease(i)'
        /\ \A j \in Imports \ {i} : import'[j] = import[j]
    BY <1>1, <2>2 DEF ImportOfRelease
  <2>4. ASSUME NEW entry \in table' PROVE entry.by \in Releases /\ entry.recording.commit \in Releases
    BY <1>0, <1>5 DEF Inserts, OfReleases, ImportOfRelease
  <2> QED
    BY <1>5, <2>3, <2>4, ImportOfReleaseStep DEF Inserts
<1>6. CASE ImportEnds(i)
  <2>1. PICK s : s \in {"imported", "failed"} /\ import' = [import EXCEPT ![i].at = s]
    BY <1>6 DEF ImportEnds
  <2>2. PICK e : e = [f EXCEPT !.at = s]
    OBVIOUS
  <2>3. import' = [import EXCEPT ![i] = e] /\ e.at = s
    BY <1>1, <1>2, <2>1, <2>2 DEF Fields
  <2>4. /\ ImportOfRelease(i)'
        /\ \A j \in Imports \ {i} : import'[j] = import[j]
    BY <1>1, <2>1, <2>3 DEF ImportOfRelease
  <2> QED
    BY <1>6, <2>4, ImportOfReleaseStep DEF ImportEnds, OfReleases
<1>7. CASE ImportFails(i)
  <2>1. PICK e : e = [f EXCEPT !.at = "failed"]
    OBVIOUS
  <2>2. import' = [import EXCEPT ![i] = e] /\ e.at = "failed"
    BY <1>1, <1>2, <1>7, <2>1 DEF ImportFails, Fields
  <2>3. /\ ImportOfRelease(i)'
        /\ \A j \in Imports \ {i} : import'[j] = import[j]
    BY <1>1, <2>2 DEF ImportOfRelease
  <2> QED
    BY <1>7, <2>3, ImportOfReleaseStep DEF ImportFails, OfReleases
<1> QED
  BY <1>3, <1>4, <1>5, <1>6, <1>7 DEF ImportStep

\* Every step of the demonstration keeps them.
LEMMA OfReleasesStep == DemoInv /\ OfReleases /\ [DemoNext]_demoVars => OfReleases'
<1> SUFFICES ASSUME DemoInv, OfReleases, [DemoNext]_demoVars PROVE OfReleases'
  OBVIOUS
<1>0. UNCHANGED import => \A i \in Imports : ImportOfRelease(i)'
  BY DEF OfReleases, ImportOfRelease
<1>1. CASE Records
  <2>1. recorded'.commit \in Releases
    BY <1>1 DEF Records, Built
  <2>2. made' \in 0 .. MaxRecorded
    BY <1>1, DemoAssumption DEF Records, OfReleases
  <2> QED
    BY <1>0, <1>1, <2>1, <2>2 DEF Records, OfReleases
<1>2. CASE FileIsLost
  BY <1>0, <1>2 DEF FileIsLost, OfReleases
<1>3. CASE DemoStarts
  <2>1. PICK v : demo' = [demo EXCEPT !.starts = @ + 1, !.release = deployed, !.served = v]
    BY <1>3 DEF DemoStarts
  <2>2. PICK a, b, c, d : demo = [selected |-> a, release |-> b, served |-> c, starts |-> d]
    BY DEF DemoInv, Shaped
  <2>3. demo' = [selected |-> a, release |-> deployed, served |-> v, starts |-> d + 1]
    BY <2>1, <2>2
  <2>4. demo'.starts \in 0 .. MaxStartups /\ demo'.release = deployed
    BY <1>3, <2>2, <2>3, DemoAssumption DEF DemoStarts, OfReleases
  <2> QED
    BY <1>0, <1>3, <2>4 DEF DemoStarts, OfReleases
<1>4. CASE Selects
  <2>1. PICK a, b, c, d : demo = [selected |-> a, release |-> b, served |-> c, starts |-> d]
    BY DEF DemoInv, Shaped
  <2>2. demo'.starts = demo.starts /\ demo'.release = demo.release
    BY <1>4, <2>1 DEF Selects
  <2> QED
    BY <1>0, <1>4, <2>2 DEF Selects, OfReleases
<1>5. CASE Deploys
  BY <1>0, <1>5 DEF Deploys, OfReleases
<1>6. CASE UNCHANGED demoVars
  BY <1>0, <1>6 DEF demoVars, OfReleases
<1> QED
  BY <1>1, <1>2, <1>3, <1>4, <1>5, <1>6, OfReleasesImport DEF DemoNext

\* The recording, its imports and the server keep their types: every row is of a release,
\* rebuilt by one.
THEOREM DemoTypesHold == DemoSpec => []DemoTypeOK
<1>1. DemoInit => DemoInv /\ OfReleases
  <2> SUFFICES ASSUME DemoInit PROVE OfReleases
    BY DemoInitInv
  <2>1. \A i \in Imports : ImportOfRelease(i)
    BY DEF DemoInit, ImportOfRelease
  <2> QED
    BY <2>1, DemoAssumption DEF DemoInit, OfReleases
<1>2. DemoInv /\ [DemoNext]_demoVars => DemoInv'
  BY DemoNextInv
<1>3. DemoInv /\ OfReleases /\ [DemoNext]_demoVars => OfReleases'
  BY OfReleasesStep
<1>4. OfReleases => DemoTypeOK
  BY DEF OfReleases, ImportOfRelease, DemoTypeOK
<1> QED
  BY <1>1, <1>2, <1>3, <1>4, PTL DEF DemoSpec

\* The roles, the lock and the servers are of their types, and no row is counted older
\* than one interval beyond what it is kept for.
LocksAndServers ==
  /\ roles \in BOOLEAN /\ lock \in Migrators \cup {None}
  /\ server \in [Servers -> {"down", "verified", "listening", "closed"}]

RowsBounded == \A w \in Workers : row[w] # None => row[w].age \in 0 .. KeepFor + 1

LEMMA LocksAndServersStep ==
  LocksAndServers /\ [DeploymentNext]_deploymentVars => LocksAndServers'
<1> SUFFICES ASSUME LocksAndServers, [DeploymentNext]_deploymentVars PROVE LocksAndServers'
  OBVIOUS
<1> USE DEF LocksAndServers
<1>1. CASE BootstrapRoles
  BY <1>1 DEF BootstrapRoles
<1>2. CASE IntervalPasses
  BY <1>2 DEF IntervalPasses
<1>3. ASSUME NEW m \in Migrators, MigratorStep(m) PROVE LocksAndServers'
  <2>1. roles' = roles /\ server' = server
    BY <1>3 DEF MigratorStep, MigratorStarts, MigratorLocks, ApplyMigration, MigratorCommits, MigratorFails
  <2>2. lock' \in {lock, m, None}
    <3>1. CASE MigratorStarts(m)
      BY <3>1 DEF MigratorStarts
    <3>2. CASE MigratorLocks(m)
      BY <3>2 DEF MigratorLocks
    <3>3. CASE ApplyMigration(m)
      BY <3>3 DEF ApplyMigration
    <3>4. CASE MigratorCommits(m)
      BY <3>4 DEF MigratorCommits
    <3>5. CASE MigratorFails(m)
      BY <3>5 DEF MigratorFails
    <3> QED
      BY <1>3, <3>1, <3>2, <3>3, <3>4, <3>5 DEF MigratorStep
  <2> QED
    BY <2>1, <2>2
<1>4. ASSUME NEW s \in Servers, ServerStarts(s) \/ ServerListens(s) PROVE LocksAndServers'
  <2>1. roles' = roles /\ lock' = lock
    BY <1>4 DEF ServerStarts, ServerListens
  <2>2. \E at \in {"verified", "closed", "listening"} : server' = [server EXCEPT ![s] = at]
    BY <1>4 DEF ServerStarts, ServerListens
  <2> QED
    BY <2>1, <2>2
<1>5. ASSUME NEW w \in Workers,
             WorkerStarts(w) \/ StopSignal(w) \/ TimerFires(w) \/ WorkerDies(w) \/ WorkerStep(w)
      PROVE  LocksAndServers'
  BY <1>5 DEF WorkerStarts, StopSignal, TimerFires, WorkerDies, WorkerStep, HeartbeatStarts,
     Refreshes, RefreshFails, Take, Processed, Wakes, LoopEnds, WorkerEnds
<1>6. CASE UNCHANGED deploymentVars
  BY <1>6 DEF deploymentVars
<1> QED
  BY <1>1, <1>2, <1>3, <1>4, <1>5, <1>6 DEF DeploymentNext

LEMMA RowsBoundedStep ==
  RowsInv /\ RowsBounded /\ [DeploymentNext]_deploymentVars => RowsBounded'
<1> SUFFICES ASSUME RowsInv, RowsBounded, [DeploymentNext]_deploymentVars PROVE RowsBounded'
  OBVIOUS
<1>0. row \in [Workers -> Rows \cup {None}]
  BY DEF RowsInv, WorkerTypes
<1>1. row' = row => RowsBounded'
  BY DEF RowsBounded
<1>2. ASSUME NEW w \in Workers, HeartbeatStarts(w) PROVE RowsBounded'
  BY <1>0, <1>2, DeploymentAssumption DEF HeartbeatStarts, RowsBounded
<1>3. ASSUME NEW w \in Workers, Refreshes(w) PROVE RowsBounded'
  <2>1. PICK f \in Rows : f = row[w]
    BY <1>0, <1>3 DEF Refreshes, Counted
  <2>2. PICK e : e = [f EXCEPT !.age = 0]
    OBVIOUS
  <2>3. e.age = 0
    BY <2>2 DEF Rows
  <2>4. row'[w] = e /\ \A o \in Workers \ {w} : row'[o] \in {None, row[o]}
    BY <1>3, <2>1, <2>2 DEF Refreshes
  <2>6. 0 \in 0 .. KeepFor + 1
    BY DeploymentAssumption
  <2>5. ASSUME NEW o \in Workers, row'[o] # None PROVE row'[o].age \in 0 .. KeepFor + 1
    <3>1. CASE o = w
      BY <2>3, <2>4, <2>6, <3>1
    <3>2. CASE o # w
      BY <2>4, <2>5, <3>2 DEF RowsBounded
    <3> QED
      BY <3>1, <3>2
  <2> QED
    BY <2>5 DEF RowsBounded
<1>4. ASSUME NEW w \in Workers, WorkerEnds(w) PROVE RowsBounded'
  <2>1. PICK marks \in {MarksStopped(w), FALSE} :
          row' = [row EXCEPT ![w] = IF marks /\ Counted(w) THEN [@ EXCEPT !.stopped = TRUE] ELSE @]
    BY <1>4 DEF WorkerEnds
  <2>2. CASE marks /\ Counted(w)
    <3>1. PICK f \in Rows : f = row[w]
      BY <1>0, <2>2 DEF Counted
    <3>2. PICK e : e = [f EXCEPT !.stopped = TRUE]
      OBVIOUS
    <3>3. e.age = row[w].age /\ row' = [row EXCEPT ![w] = e]
      BY <2>1, <2>2, <3>1, <3>2 DEF Rows
    <3> QED
      BY <1>0, <2>2, <3>3 DEF RowsBounded, Counted
  <2>3. CASE ~(marks /\ Counted(w))
    <3>1. row' = row
      BY <1>0, <2>1, <2>3
    <3> QED
      BY <1>1, <3>1
  <2> QED
    BY <2>2, <2>3
<1>5. CASE IntervalPasses
  <2>1. ASSUME NEW w \in Workers, row'[w] # None PROVE row'[w].age \in 0 .. KeepFor + 1
    <3>1. row[w] # None
      BY <1>5, <2>1 DEF IntervalPasses
    <3>2. PICK f \in Rows : f = row[w] /\ f.age \in 0 .. KeepFor + 1
      BY <1>0, <3>1 DEF RowsBounded
    <3>3. PICK n : n = IF f.age > KeepFor THEN f.age ELSE f.age + 1
      OBVIOUS
    <3>4. n \in 0 .. KeepFor + 1
      BY <3>2, <3>3, DeploymentAssumption
    <3>5. row'[w] = [f EXCEPT !.age = n]
      BY <1>5, <3>1, <3>2, <3>3 DEF IntervalPasses
    <3> QED
      BY <3>4, <3>5 DEF Rows
  <2> QED
    BY <2>1 DEF RowsBounded
<1>6. CASE BootstrapRoles \/ UNCHANGED deploymentVars
  BY <1>1, <1>6 DEF BootstrapRoles, deploymentVars
<1>7. ASSUME NEW m \in Migrators, MigratorStep(m) PROVE row' = row
  BY <1>7 DEF MigratorStep, MigratorStarts, MigratorLocks, ApplyMigration, MigratorCommits, MigratorFails
<1>8. ASSUME NEW s \in Servers, ServerStarts(s) \/ ServerListens(s) PROVE row' = row
  BY <1>8 DEF ServerStarts, ServerListens
<1>9. ASSUME NEW w \in Workers,
             \/ WorkerStarts(w) \/ StopSignal(w) \/ TimerFires(w) \/ WorkerDies(w)
             \/ RefreshFails(w) \/ Take(w) \/ Processed(w) \/ Wakes(w) \/ LoopEnds(w)
      PROVE  row' = row
  BY <1>9 DEF WorkerStarts, StopSignal, TimerFires, WorkerDies, RefreshFails, Take, Processed, Wakes, LoopEnds
<1> QED
  BY <1>1, <1>2, <1>3, <1>4, <1>5, <1>6, <1>7, <1>8, <1>9 DEF DeploymentNext, WorkerStep

\* A deployment keeps its types: histories are of digests of plans, a lock is held by a
\* runner or nobody, and a row ages no further than the age at which it is deleted.
THEOREM DeploymentTypesHold == DeploymentSpec => []DeploymentTypeOK
<1>1. DeploymentInit => DeploymentInv /\ LocksAndServers /\ RowsBounded
  <2> SUFFICES ASSUME DeploymentInit PROVE LocksAndServers /\ RowsBounded
    BY DeploymentInitInv
  <2>1. LocksAndServers
    BY DEF DeploymentInit, LocksAndServers
  <2>2. KeepFor \in 0 .. KeepFor + 1
    BY DeploymentAssumption
  <2>4. PICK r : r = [age |-> KeepFor, stopped |-> FALSE]
    OBVIOUS
  <2>5. \A w \in Workers : row[w] \in {r, None}
    BY <2>4 DEF DeploymentInit
  <2>6. r.age = KeepFor
    BY <2>4
  <2>3. RowsBounded
    BY <2>2, <2>5, <2>6 DEF RowsBounded
  <2> QED
    BY <2>1, <2>3
<1>2. DeploymentInv /\ [DeploymentNext]_deploymentVars => DeploymentInv'
  BY DeploymentNextInv
<1>3. LocksAndServers /\ [DeploymentNext]_deploymentVars => LocksAndServers'
  BY LocksAndServersStep
<1>4. DeploymentInv /\ RowsBounded /\ [DeploymentNext]_deploymentVars => RowsBounded'
  BY RowsBoundedStep DEF DeploymentInv
<1>5. ASSUME DeploymentInv, LocksAndServers, RowsBounded PROVE DeploymentTypeOK
  <2>1. /\ schema.tables \in {"none", "no ledger", "both"} /\ schema.applied \in Histories
        /\ \A m \in Migrators :
             /\ migrator[m].at \in {"down", "waiting", "applying", "done", "refused", "failed", "conflict"}
             /\ migrator[m].work \in Histories
    BY <1>5 DEF DeploymentInv, SchemaInv, MigrationTypes, Migrations
  <2>2. \A w \in Workers : row[w] # None => row[w].stopped \in BOOLEAN
    BY <1>5 DEF DeploymentInv, RowsInv, WorkerTypes, Rows
  <2>3. worker \in [Workers -> Works]
    BY <1>5 DEF DeploymentInv, RowsInv, WorkerTypes
  <2> QED
    BY <1>5, <2>1, <2>2, <2>3 DEF LocksAndServers, RowsBounded, DeploymentTypeOK, Works
<1> QED
  BY <1>1, <1>2, <1>3, <1>4, <1>5, PTL DEF DeploymentSpec

\* The log is as long as its bound, archived up to the open segment, and what was taken
\* or is being taken lies in it.
LogBounded ==
  /\ wal.open \in 1 .. LastSegment /\ wal.archived \in 0 .. wal.open - 1
  /\ \A b \in store.taken : b.id <= b.stop /\ b.stop < wal.open
  /\ pushing # None => pushing.id <= wal.open

\* What retention leaves is never nothing.
SomeKept == store.taken # {} => store.kept # {}

\* Evidence, choice and volume name segments.
ShelfBounded ==
  /\ shelf.notes \subseteq 1 .. LastSegment /\ shelf.anew \in 0 .. MaxAnew
  /\ shelf.selected \in (0 .. LastSegment) \cup {None}
  /\ volume \in (0 .. LastSegment) \cup {None}

\* So does a job, and one that pushed a backup finds one listed.
JobBounded(e) ==
  /\ e.id \in 0 .. LastSegment /\ e.switched \in 0 .. LastSegment
  /\ e.noted \in 0 .. LastSegment /\ e.bound \in 0 .. LastSegment
  /\ e.at = "pushed" => store.taken # {}

BackupsBounded ==
  /\ LogBounded /\ SomeKept /\ ShelfBounded
  /\ \A j \in Jobs : JobBounded(job[j])

LEMMA SegmentNumbers ==
  /\ LastSegment \in Nat /\ LastSegment > 0 /\ MaxAnew \in Nat /\ Retain \in Nat /\ Retain > 0
  /\ 0 \in 0 .. LastSegment /\ 1 \in 1 .. LastSegment
  /\ \A n \in 1 .. LastSegment : n \in 0 .. LastSegment /\ n \in Nat
  /\ \A n \in 0 .. LastSegment : n \in Nat
  BY BackupsAssumption

\* A set of numbers up to a bound has a greatest.
LEMMA Greatest ==
  ASSUME NEW N \in Nat, NEW K, K \subseteq 0 .. N, K # {}
  PROVE  \E x \in K : \A y \in K : x >= y
<1>1. PICK R : R = {p \in Nat \X Nat : p[1] < p[2]}
  OBVIOUS
<1>2. IsWellFoundedOn(R, Nat)
  BY <1>1, NatLessThanWellFounded DEF OpToRel
<1>3. PICK T : T = {N - k : k \in K}
  OBVIOUS
<1>4. T \subseteq Nat /\ T # {}
  <2>1. \A k \in K : N - k \in T
    BY <1>3
  <2>2. \A k \in K : N - k \in Nat
    OBVIOUS
  <2>3. T \subseteq Nat
    BY <1>3, <2>2
  <2> QED
    BY <2>1, <2>3
<1>5. PICK t \in T : \A u \in T : <<u, t>> \notin R
  BY <1>2, <1>4, WFMin
<1>6. PICK x \in K : t = N - x
  BY <1>3
<1>7. ASSUME NEW y \in K PROVE x >= y
  <2>1. N - y \in T /\ N - y \in Nat
    BY <1>3, <1>4
  <2>2. ~(N - y < t)
    BY <1>1, <1>4, <1>5, <2>1
  <2> QED
    BY <1>6, <2>2
<1> QED
  BY <1>7

\* The backups that are kept are numbers below the open segment.
LEMMA KeptInLog ==
  ASSUME BackupTypes, LogBounded
  PROVE  store.kept \subseteq 0 .. LastSegment
<1> SUFFICES ASSUME NEW n \in store.kept PROVE n \in 0 .. LastSegment
  OBVIOUS
<1>1. PICK b \in store.taken : b.id = n /\ b \in [id : Nat \ {0}, stop : Nat]
  BY DEF BackupTypes
<1>2. n \in Nat /\ b.stop \in Nat
  BY <1>1
<1> QED
  BY <1>1, <1>2, SegmentNumbers DEF LogBounded

\* The last of the list is one of it.
LEMMA LastIsKept ==
  ASSUME BackupTypes, LogBounded, store.kept # {}
  PROVE  Max(store.kept) \in store.kept
<1>1. \E x \in store.kept : \A y \in store.kept : x >= y
  BY KeptInLog, SegmentNumbers, Greatest
<1> QED
  BY <1>1 DEF Max

\* Retention keeps the last one.
LEMMA LastIsRetained ==
  ASSUME BackupTypes, LogBounded, store.kept # {}
  PROVE  Newest # {}
<1>1. PICK x \in store.kept : \A y \in store.kept : x >= y
  BY KeptInLog, SegmentNumbers, Greatest
<1>2. \A y \in store.kept : x \in Nat /\ y \in Nat
  BY KeptInLog, SegmentNumbers
<1>3. {k \in store.kept : k > x} = {}
  BY <1>1, <1>2
<1>4. Cardinality({}) = 0
  BY FS_EmptySet
<1>5. Cardinality({k \in store.kept : k > x}) < Retain
  BY <1>3, <1>4, SegmentNumbers
<1> QED
  BY <1>5 DEF Newest

\* The log, and what lies in it.
LEMMA LogBoundedStep ==
  BackupsInv /\ LogBounded /\ [BackupsNext]_backupsVars => LogBounded'
<1> SUFFICES ASSUME BackupsInv, LogBounded, [BackupsNext]_backupsVars PROVE LogBounded'
  OBVIOUS
<1>0. /\ wal \in [open : Nat, archived : Nat]
      /\ store.taken \subseteq [id : Nat \ {0}, stop : Nat]
      /\ store = [taken |-> store.taken, kept |-> store.kept]
      /\ pushing # None => pushing.id \in Nat \ {0}
  BY DEF BackupsInv, BackupTypes
<1>1. PICK o \in Nat, a \in Nat : wal = [open |-> o, archived |-> a]
  BY <1>0
<1>2. o \in 1 .. LastSegment /\ a \in 0 .. o - 1 /\ LastSegment \in Nat
  BY <1>1, SegmentNumbers DEF LogBounded
<1>3. ASSUME NEW w, wal' = [open |-> w, archived |-> a], w \in {o, o + 1}, w <= LastSegment,
             store'.taken = store.taken, pushing' # None => pushing'.id <= w
      PROVE  LogBounded'
  <2>1. wal'.open = w /\ wal'.archived = a
    BY <1>3
  <2>2. w \in 1 .. LastSegment /\ a \in 0 .. w - 1
    BY <1>2, <1>3
  <2>3. ASSUME NEW b \in store.taken PROVE b.id <= b.stop /\ b.stop < w
    <3>1. b.stop \in Nat /\ b.id <= b.stop /\ b.stop < o
      BY <1>0, <1>1 DEF LogBounded
    <3> QED
      BY <1>3, <3>1
  <2> QED
    BY <1>3, <2>1, <2>2, <2>3 DEF LogBounded
<1>4. pushing # None => pushing.id <= o /\ pushing.id <= o + 1
  BY <1>0, <1>1 DEF LogBounded
<1>5. CASE SegmentFills
  <2>1. wal' = [open |-> o + 1, archived |-> a] /\ o < LastSegment
    BY <1>1, <1>5 DEF SegmentFills
  <2>2. o + 1 <= LastSegment
    BY <1>2, <2>1
  <2>3. store' = store /\ pushing' = pushing
    BY <1>5 DEF SegmentFills
  <2> QED
    BY <1>3, <1>4, <2>1, <2>2, <2>3
<1>6. CASE Archives
  <2>1. wal' = [open |-> o, archived |-> a + 1] /\ a + 1 < o
    BY <1>1, <1>6 DEF Archives
  <2>2. wal'.open = o /\ wal'.archived = a + 1 /\ a + 1 \in 0 .. o - 1
    BY <1>2, <2>1
  <2> QED
    BY <1>1, <1>6, <2>2 DEF Archives, LogBounded
<1>7. ASSUME NEW j \in Jobs, Pushes(j) PROVE LogBounded'
  <2>1. wal' = [open |-> o + 1, archived |-> a] /\ o < LastSegment
    BY <1>1, <1>7 DEF Pushes
  <2>2. pushing'.id = o + 1 /\ store' = store
    BY <1>1, <1>7 DEF Pushes
  <2> QED
    BY <1>2, <1>3, <2>1, <2>2
<1>8. CASE PushEnds
  <2>1. pushing' = None
    BY <1>8 DEF PushEnds
  <2>2. CASE wal' = wal /\ store' = store
    BY <1>1, <1>2, <1>3, <2>1, <2>2
  <2>3. CASE ~(wal' = wal /\ store' = store)
    <3>1. /\ o < LastSegment /\ wal' = [open |-> o + 1, archived |-> a]
          /\ store'.taken = store.taken \cup {[id |-> pushing.id, stop |-> o]}
      BY <1>1, <1>8, <2>3 DEF PushEnds
    <3>2. wal'.open = o + 1 /\ wal'.archived = a
      BY <3>1
    <3>3. o + 1 \in 1 .. LastSegment /\ a \in 0 .. o + 1 - 1
      BY <1>2, <3>1
    <3>4. ASSUME NEW b \in store'.taken PROVE b.id <= b.stop /\ b.stop < o + 1
      <4>1. CASE b \in store.taken
        <5>1. b.stop \in Nat /\ b.id <= b.stop /\ b.stop < o
          BY <1>0, <1>1, <4>1 DEF LogBounded
        <5> QED
          BY <5>1
      <4>2. CASE b = [id |-> pushing.id, stop |-> o]
        BY <1>4, <1>8, <4>2 DEF PushEnds
      <4> QED
        BY <3>1, <4>1, <4>2
    <3> QED
      BY <2>1, <3>2, <3>3, <3>4 DEF LogBounded
  <2> QED
    BY <2>2, <2>3
<1>9. ASSUME NEW j \in Jobs, SwitchesWal(j) PROVE LogBounded'
  <2>1. wal' = [open |-> o + 1, archived |-> a] /\ o < LastSegment
    BY <1>1, <1>9 DEF SwitchesWal
  <2>2. o + 1 <= LastSegment
    BY <1>2, <2>1
  <2>3. store' = store /\ pushing' = pushing
    BY <1>9 DEF SwitchesWal
  <2> QED
    BY <1>3, <1>4, <2>1, <2>2, <2>3
<1>10. ASSUME NEW j \in Jobs, Retains(j) PROVE LogBounded'
  <2>1. store'.taken = store.taken
    BY <1>0, <1>10 DEF Retains
  <2> QED
    BY <1>10, <2>1 DEF Retains, LogBounded
<1>11. ASSUME UNCHANGED <<store, pushing, wal>> PROVE LogBounded'
  BY <1>11 DEF LogBounded
<1>12. CASE HostAnew \/ UNCHANGED backupsVars
  BY <1>11, <1>12 DEF HostAnew, backupsVars
<1>13. ASSUME NEW j \in Jobs,
              \/ NamesLast(j) \/ ObservesArchived(j) \/ ListsInventory(j) \/ WritesEvidence(j)
              \/ PublishesSelected(j) \/ ObservesSealed(j) \/ InspectsVolume(j) \/ CreatesVolume(j)
              \/ Restores(j) \/ Verifies(j) \/ JobFails(j) \/ JobDies(j)
       PROVE  UNCHANGED <<store, pushing, wal>>
  BY <1>13 DEF NamesLast, ObservesArchived, ListsInventory, WritesEvidence, PublishesSelected,
     ObservesSealed, InspectsVolume, CreatesVolume, Restores, Verifies, JobFails, JobDies
<1> QED
  BY <1>5, <1>6, <1>7, <1>8, <1>9, <1>10, <1>11, <1>12, <1>13 DEF BackupsNext, BackupStep

\* Only a push takes a backup, and only retention deletes one.
LEMMA SomeKeptStep ==
  /\ BackupsInv /\ LogBounded /\ SomeKept /\ [BackupsNext]_backupsVars
  => SomeKept' /\ store.taken \subseteq store'.taken
<1> SUFFICES ASSUME BackupsInv, LogBounded, SomeKept, [BackupsNext]_backupsVars
             PROVE  SomeKept' /\ store.taken \subseteq store'.taken
  OBVIOUS
<1>0. /\ store = [taken |-> store.taken, kept |-> store.kept] /\ BackupTypes
      /\ store.kept # {} => store.taken # {}
  BY DEF BackupsInv, BackupTypes
<1>1. CASE PushEnds
  <2>1. \/ store' = store
        \/ store'.taken = store.taken \cup {[id |-> pushing.id, stop |-> wal.open]} /\ store'.kept # {}
    BY <1>1 DEF PushEnds
  <2> QED
    BY <2>1 DEF SomeKept
<1>2. ASSUME NEW j \in Jobs, Retains(j) PROVE SomeKept' /\ store.taken \subseteq store'.taken
  <2>1. store'.taken = store.taken /\ store'.kept = Newest
    BY <1>0, <1>2 DEF Retains
  <2> QED
    BY <1>0, <2>1, LastIsRetained DEF SomeKept
<1>3. ASSUME store' = store PROVE SomeKept' /\ store.taken \subseteq store'.taken
  BY <1>3 DEF SomeKept
<1>4. CASE SegmentFills \/ Archives \/ HostAnew \/ UNCHANGED backupsVars
  BY <1>3, <1>4 DEF SegmentFills, Archives, HostAnew, backupsVars
<1>5. ASSUME NEW j \in Jobs,
             \/ Pushes(j) \/ SwitchesWal(j)
             \/ NamesLast(j) \/ ObservesArchived(j) \/ ListsInventory(j) \/ WritesEvidence(j)
             \/ PublishesSelected(j) \/ ObservesSealed(j) \/ InspectsVolume(j) \/ CreatesVolume(j)
             \/ Restores(j) \/ Verifies(j) \/ JobFails(j) \/ JobDies(j)
      PROVE  store' = store
  BY <1>5 DEF NamesLast, ObservesArchived, ListsInventory, WritesEvidence, PublishesSelected,
     ObservesSealed, InspectsVolume, CreatesVolume, Restores, Verifies, JobFails, JobDies,
     Pushes, SwitchesWal
<1> QED
  BY <1>1, <1>2, <1>3, <1>4, <1>5 DEF BackupsNext, BackupStep

\* Evidence, the choice and the volume take what a job bears.
LEMMA ShelfBoundedStep ==
  /\ BackupsInv /\ ShelfBounded /\ \A j \in Jobs : JobBounded(job[j])
  /\ [BackupsNext]_backupsVars
  => ShelfBounded'
<1> SUFFICES ASSUME BackupsInv, ShelfBounded, \A j \in Jobs : JobBounded(job[j]),
                    [BackupsNext]_backupsVars
             PROVE  ShelfBounded'
  OBVIOUS
<1>0. shelf = [notes |-> shelf.notes, selected |-> shelf.selected, anew |-> shelf.anew]
  BY DEF BackupsInv, BackupTypes
<1>1. PICK n, s, a : shelf = [notes |-> n, selected |-> s, anew |-> a]
  BY <1>0
<1>2. /\ n \subseteq 1 .. LastSegment /\ s \in (0 .. LastSegment) \cup {None} /\ a \in 0 .. MaxAnew
  BY <1>1 DEF ShelfBounded
<1>3. ASSUME UNCHANGED <<shelf, volume>> PROVE ShelfBounded'
  BY <1>3 DEF ShelfBounded
<1>4. ASSUME UNCHANGED shelf, volume' \in (0 .. LastSegment) \cup {None} PROVE ShelfBounded'
  BY <1>4 DEF ShelfBounded
<1>5. CASE HostAnew
  <2>1. shelf'.notes = {} /\ shelf'.selected = None /\ shelf'.anew = a + 1 /\ a < MaxAnew
    BY <1>1, <1>5 DEF HostAnew
  <2>2. a + 1 \in 0 .. MaxAnew
    BY <1>2, <2>1, SegmentNumbers
  <2> QED
    BY <1>5, <2>1, <2>2 DEF HostAnew, ShelfBounded
<1>6. ASSUME NEW j \in Jobs, WritesEvidence(j) PROVE ShelfBounded'
  <2>1. /\ shelf' = [shelf EXCEPT !.notes = @ \cup {job[j].id}] /\ volume' = volume
        /\ job[j].at = "listed"
    BY <1>6 DEF WritesEvidence
  <2>2. shelf' = [notes |-> n \cup {job[j].id}, selected |-> s, anew |-> a]
    BY <1>1, <2>1
  <2>3. PICK b \in store.taken : b.id = job[j].id
    BY <2>1 DEF BackupsInv, JobKeeps
  <2>4. job[j].id \in Nat \ {0} /\ job[j].id \in 0 .. LastSegment
    BY <2>3 DEF BackupsInv, BackupTypes, JobBounded
  <2>5. job[j].id \in 1 .. LastSegment
    BY <2>4, SegmentNumbers
  <2>6. shelf'.notes = n \cup {job[j].id} /\ shelf'.selected = s /\ shelf'.anew = a
    BY <2>2
  <2> QED
    BY <1>2, <2>1, <2>5, <2>6 DEF ShelfBounded
<1>7. ASSUME NEW j \in Jobs, PublishesSelected(j) PROVE ShelfBounded'
  <2>1. shelf' = [shelf EXCEPT !.selected = job[j].noted] /\ volume' = volume
    BY <1>7 DEF PublishesSelected
  <2>2. shelf' = [notes |-> n, selected |-> job[j].noted, anew |-> a]
    BY <1>1, <2>1
  <2>3. job[j].noted \in 0 .. LastSegment
    BY DEF JobBounded
  <2>4. shelf'.notes = n /\ shelf'.selected = job[j].noted /\ shelf'.anew = a
    BY <2>2
  <2> QED
    BY <1>2, <2>1, <2>3, <2>4 DEF ShelfBounded
<1>8. ASSUME NEW j \in Jobs, CreatesVolume(j) PROVE ShelfBounded'
  BY <1>4, <1>8, SegmentNumbers DEF CreatesVolume, ShelfBounded
<1>9. ASSUME NEW j \in Jobs, Restores(j) PROVE ShelfBounded'
  BY <1>4, <1>9 DEF Restores, JobBounded
<1>10. ASSUME NEW j \in Jobs, Verifies(j) PROVE ShelfBounded'
  BY <1>4, <1>10 DEF Verifies
<1>11. ASSUME NEW j \in Jobs, JobFails(j) PROVE ShelfBounded'
  BY <1>4, <1>11 DEF JobFails, ShelfBounded
<1>12. CASE SegmentFills \/ Archives \/ PushEnds \/ UNCHANGED backupsVars
  BY <1>3, <1>12 DEF SegmentFills, Archives, PushEnds, backupsVars
<1>13. ASSUME NEW j \in Jobs,
              \/ Pushes(j) \/ NamesLast(j) \/ SwitchesWal(j) \/ ObservesArchived(j) \/ ListsInventory(j)
              \/ ObservesSealed(j) \/ InspectsVolume(j) \/ Retains(j) \/ JobDies(j)
       PROVE  UNCHANGED <<shelf, volume>>
  BY <1>13 DEF Pushes, NamesLast, SwitchesWal, ObservesArchived, ListsInventory, ObservesSealed,
     InspectsVolume, Retains, JobDies
<1> QED
  BY <1>3, <1>5, <1>6, <1>7, <1>8, <1>9, <1>10, <1>11, <1>12, <1>13 DEF BackupsNext, BackupStep

\* A job that moves on with the same names.
LEMMA BoundedOn ==
  ASSUME BackupTypes, NEW j \in Jobs, JobBounded(job[j]), NEW to,
         job' = [job EXCEPT ![j].at = to], to = "pushed" => store'.taken # {},
         store.taken \subseteq store'.taken
  PROVE  \E e : job' = [job EXCEPT ![j] = e] /\ JobBounded(e)'
<1>1. PICK S : job[j] \in JobRecords(S)
  BY JobTyped
<1>2. PICK f : f = job[j]
  OBVIOUS
<1>3. PICK e : e = [f EXCEPT !.at = to]
  OBVIOUS
<1>4. /\ e.at = to /\ e.id = f.id /\ e.switched = f.switched /\ e.noted = f.noted /\ e.bound = f.bound
  BY <1>1, <1>2, <1>3 DEF JobRecords
<1>5. JobBounded(e)'
  BY <1>2, <1>4 DEF JobBounded
<1> QED
  BY <1>2, <1>3, <1>5

\* One that ends as it began, but for what it noted.
LEMMA BoundedAnew ==
  ASSUME NEW n \in 0 .. LastSegment, NEW at, at # "pushed"
  PROVE  JobBounded([[Fresh EXCEPT !.at = at] EXCEPT !.noted = n])'
<1>1. PICK e : e = [[Fresh EXCEPT !.at = at] EXCEPT !.noted = n]
  OBVIOUS
<1>2. e.at = at /\ e.id = 0 /\ e.switched = 0 /\ e.noted = n /\ e.bound = 0
  BY <1>1 DEF Fresh
<1> QED
  BY <1>1, <1>2, SegmentNumbers DEF JobBounded

\* The move of a job leaves the others alone.
LEMMA BoundedMove ==
  ASSUME BackupTypes, \A j \in Jobs : JobBounded(job[j]), NEW j \in Jobs, NEW e,
         job' = [job EXCEPT ![j] = e], JobBounded(e)', store.taken \subseteq store'.taken
  PROVE  \A i \in Jobs : JobBounded(job[i])'
<1> SUFFICES ASSUME NEW i \in Jobs PROVE JobBounded(job[i])'
  OBVIOUS
<1>1. CASE i = j
  <2>1. job'[i] = e
    BY <1>1 DEF BackupTypes
  <2> QED
    BY <2>1 DEF JobBounded
<1>2. CASE i # j
  <2>1. job'[i] = job[i]
    BY <1>2 DEF BackupTypes
  <2> QED
    BY <2>1 DEF JobBounded
<1> QED
  BY <1>1, <1>2

\* Whatever a job does it bears segments.
LEMMA JobsBoundedStep ==
  ASSUME BackupsInv, BackupsBounded, [BackupsNext]_backupsVars,
         store.taken \subseteq store'.taken
  PROVE  \A j \in Jobs : JobBounded(job[j])'
<1>0. BackupTypes /\ (\A j \in Jobs : JobBounded(job[j])) /\ LogBounded /\ SomeKept /\ ShelfBounded
  BY DEF BackupsInv, BackupsBounded
<1> DEFINE Good == \A j \in Jobs : JobBounded(job[j])'
<1>1. ASSUME job' = job PROVE Good
  BY <1>0, <1>1 DEF JobBounded
<1>2. ASSUME NEW j \in Jobs, NEW to, to # "pushed" \/ store'.taken # {},
             job' = [job EXCEPT ![j].at = to]
      PROVE  Good
  <2>1. PICK e : job' = [job EXCEPT ![j] = e] /\ JobBounded(e)'
    BY <1>0, <1>2, BoundedOn
  <2> QED
    BY <1>0, <2>1, BoundedMove
<1>3. ASSUME NEW j \in Jobs, NEW e, job' = [job EXCEPT ![j] = e], JobBounded(e)' PROVE Good
  BY <1>0, <1>3, BoundedMove
<1> HIDE DEF Good
<1>4. ASSUME PushEnds PROVE Good
  <2>1. PICK p : p = pushing.by
    OBVIOUS
  <2>2. p \in Jobs
    BY <1>0, <1>4, <2>1 DEF PushEnds, BackupTypes
  <2>3. \/ job' = job
        \/ job' = [job EXCEPT ![p].at = "pushed"] /\ store'.taken # {}
        \/ job' = [job EXCEPT ![p].at = "failed"]
    <3>1. CASE job[p].at = "pushing"
      <4>0. PICK new : new = [taken |-> store.taken \cup {[id |-> pushing.id, stop |-> wal.open]},
                              kept |-> store.kept \cup {pushing.id}]
        OBVIOUS
      <4>1. new.taken # {}
        BY <4>0
      <4>2. \/ store' = new /\ job' = [job EXCEPT ![p].at = "pushed"]
            \/ job' = [job EXCEPT ![p].at = "failed"]
        BY <1>4, <2>1, <3>1, <4>0 DEF PushEnds
      <4> QED
        BY <4>1, <4>2
    <3>2. CASE job[p].at # "pushing"
      BY <1>4, <2>1, <3>2 DEF PushEnds
    <3> QED
      BY <3>1, <3>2
  <2>4. CASE job' = job
    BY <1>1, <2>4
  <2>5. CASE job' = [job EXCEPT ![p].at = "pushed"] /\ store'.taken # {}
    BY <1>2, <2>2, <2>5
  <2>6. CASE job' = [job EXCEPT ![p].at = "failed"]
    <3>1. PICK to : to = "failed"
      OBVIOUS
    <3> QED
      BY <1>2, <2>2, <2>6, <3>1
  <2> QED
    BY <2>3, <2>4, <2>5, <2>6
<1>5. ASSUME NEW j \in Jobs, NamesLast(j) PROVE Good
  <2>1. PICK S : job[j] \in JobRecords(S)
    BY <1>0, JobTyped
  <2>2. PICK f : f = job[j]
    OBVIOUS
  <2>3. PICK m : m = Max(store.kept)
    OBVIOUS
  <2>4. m \in 0 .. LastSegment
    <3>1. store.kept # {}
      BY <1>0, <1>5 DEF NamesLast, JobBounded, SomeKept
    <3> QED
      BY <1>0, <2>3, <3>1, LastIsKept, KeptInLog
  <2>5. PICK e : e = [[f EXCEPT !.at = "named"] EXCEPT !.id = m]
    OBVIOUS
  <2>6. /\ e.at = "named" /\ e.id = m /\ e.switched = f.switched /\ e.noted = f.noted
        /\ e.bound = f.bound
    BY <2>1, <2>2, <2>5 DEF JobRecords
  <2>7. job' = [job EXCEPT ![j] = e]
    BY <1>5, <2>1, <2>2, <2>3, <2>5 DEF NamesLast, JobRecords
  <2>8. JobBounded(e)'
    BY <1>0, <2>2, <2>4, <2>6 DEF JobBounded
  <2> QED
    BY <1>3, <2>7, <2>8
<1>6. ASSUME NEW j \in Jobs, SwitchesWal(j) PROVE Good
  <2>1. PICK S : job[j] \in JobRecords(S)
    BY <1>0, JobTyped
  <2>2. PICK f : f = job[j]
    OBVIOUS
  <2>3. PICK m : m = wal.open
    OBVIOUS
  <2>4. m \in 0 .. LastSegment
    BY <1>0, <2>3, SegmentNumbers DEF LogBounded
  <2>5. PICK e : e = [[f EXCEPT !.at = "switched"] EXCEPT !.switched = m]
    OBVIOUS
  <2>6. /\ e.at = "switched" /\ e.id = f.id /\ e.switched = m /\ e.noted = f.noted
        /\ e.bound = f.bound
    BY <2>1, <2>2, <2>5 DEF JobRecords
  <2>7. job' = [job EXCEPT ![j] = e]
    BY <1>6, <2>1, <2>2, <2>3, <2>5 DEF SwitchesWal, JobRecords
  <2>8. JobBounded(e)'
    BY <1>0, <2>2, <2>4, <2>6 DEF JobBounded
  <2> QED
    BY <1>3, <2>7, <2>8
<1>7. ASSUME NEW j \in Jobs, ListsInventory(j) PROVE Good
  <2>1. PICK S : job[j] \in JobRecords(S)
    BY <1>0, JobTyped
  <2>2. PICK f : f = job[j]
    OBVIOUS
  <2>5. PICK e : e = [[f EXCEPT !.at = "listed"] EXCEPT !.listed = store.kept]
    OBVIOUS
  <2>6. /\ e.at = "listed" /\ e.id = f.id /\ e.switched = f.switched /\ e.noted = f.noted
        /\ e.bound = f.bound
    BY <2>1, <2>2, <2>5 DEF JobRecords
  <2>7. job' = [job EXCEPT ![j] = e]
    BY <1>7, <2>1, <2>2, <2>5 DEF ListsInventory, JobRecords
  <2>8. JobBounded(e)'
    BY <1>0, <2>2, <2>6 DEF JobBounded
  <2> QED
    BY <1>3, <2>7, <2>8
<1>8. ASSUME NEW j \in Jobs, WritesEvidence(j) PROVE Good
  <2>1. PICK n : n = job[j].id
    OBVIOUS
  <2>2. n \in 0 .. LastSegment
    BY <1>0, <2>1 DEF JobBounded
  <2>3. PICK e : e = [[Fresh EXCEPT !.at = "noted"] EXCEPT !.noted = n]
    OBVIOUS
  <2>4. JobBounded(e)'
    BY <2>2, <2>3, BoundedAnew
  <2>5. job' = [job EXCEPT ![j] = e]
    BY <1>8, <2>1, <2>3 DEF WritesEvidence, Fresh
  <2> QED
    BY <1>3, <2>4, <2>5
<1>9. ASSUME NEW j \in Jobs, InspectsVolume(j) PROVE Good
  <2>1. PICK S : job[j] \in JobRecords(S)
    BY <1>0, JobTyped
  <2>2. PICK f : f = job[j]
    OBVIOUS
  <2>3. PICK m : m = shelf.selected
    OBVIOUS
  <2>4. m \in 0 .. LastSegment
    BY <1>0, <1>9, <2>3 DEF InspectsVolume, SelectedIsIts, JobBounded
  <2>5. PICK e : e = [[f EXCEPT !.at = "absent"] EXCEPT !.bound = m]
    OBVIOUS
  <2>6. /\ e.at = "absent" /\ e.id = f.id /\ e.switched = f.switched /\ e.noted = f.noted
        /\ e.bound = m
    BY <2>1, <2>2, <2>5 DEF JobRecords
  <2>7. job' = [job EXCEPT ![j] = e]
    BY <1>9, <2>1, <2>2, <2>3, <2>5 DEF InspectsVolume, JobRecords
  <2>8. JobBounded(e)'
    BY <1>0, <2>2, <2>4, <2>6 DEF JobBounded
  <2> QED
    BY <1>3, <2>7, <2>8
<1>10. ASSUME NEW j \in Jobs, Verifies(j) PROVE Good
  <2>1. PICK S : job[j] \in JobRecords(S)
    BY <1>0, JobTyped
  <2>2. PICK f : f = job[j]
    OBVIOUS
  <2>5. PICK e : e = [[f EXCEPT !.at = "verified"] EXCEPT !.seen = volume]
    OBVIOUS
  <2>6. /\ e.at = "verified" /\ e.id = f.id /\ e.switched = f.switched /\ e.noted = f.noted
        /\ e.bound = f.bound
    BY <2>1, <2>2, <2>5 DEF JobRecords
  <2>7. job' = [job EXCEPT ![j] = e]
    BY <1>10, <2>1, <2>2, <2>5 DEF Verifies, JobRecords
  <2>8. JobBounded(e)'
    BY <1>0, <2>2, <2>6 DEF JobBounded
  <2> QED
    BY <1>3, <2>7, <2>8
<1>11. ASSUME NEW j \in Jobs, JobFails(j) \/ JobDies(j) PROVE Good
  <2>1. PICK n : n = job[j].noted
    OBVIOUS
  <2>2. n \in 0 .. LastSegment
    BY <1>0, <2>1 DEF JobBounded
  <2>3. PICK at \in {"failed", "killed"} : job' = [job EXCEPT ![j] = [Fresh EXCEPT !.at = at, !.noted = n]]
    BY <1>11, <2>1 DEF JobFails, JobDies
  <2>4. PICK e : e = [[Fresh EXCEPT !.at = at] EXCEPT !.noted = n]
    OBVIOUS
  <2>5. JobBounded(e)'
    BY <2>2, <2>4, BoundedAnew
  <2>6. job' = [job EXCEPT ![j] = e]
    BY <2>3, <2>4 DEF Fresh
  <2> QED
    BY <1>3, <2>5, <2>6
<1>12. ASSUME SegmentFills \/ Archives \/ HostAnew \/ UNCHANGED backupsVars PROVE Good
  BY <1>1, <1>12 DEF SegmentFills, Archives, HostAnew, backupsVars
<1>13. ASSUME NEW j \in Jobs,
              \/ Pushes(j) \/ ObservesArchived(j) \/ PublishesSelected(j) \/ ObservesSealed(j)
              \/ CreatesVolume(j) \/ Restores(j) \/ Retains(j)
       PROVE  \E to : to # "pushed" /\ job' = [job EXCEPT ![j].at = to]
  <2>1. CASE Pushes(j) \/ ObservesArchived(j) \/ PublishesSelected(j)
    BY <2>1 DEF Pushes, ObservesArchived, PublishesSelected, Goes
  <2>2. CASE ObservesSealed(j) \/ CreatesVolume(j) \/ Restores(j)
    BY <2>2 DEF ObservesSealed, CreatesVolume, Restores, Goes
  <2>3. CASE Retains(j)
    BY <2>3 DEF Retains
  <2> QED
    BY <1>13, <2>1, <2>2, <2>3
<1>14. Good
  BY <1>1, <1>2, <1>4, <1>5, <1>6, <1>7, <1>8, <1>9, <1>10, <1>11, <1>12, <1>13
     DEF BackupsNext, BackupStep
<1> QED
  BY <1>14 DEF Good

LEMMA BackupsBoundedStep ==
  BackupsInv /\ BackupsBounded /\ [BackupsNext]_backupsVars => BackupsBounded'
<1> SUFFICES ASSUME BackupsInv, BackupsBounded, [BackupsNext]_backupsVars PROVE BackupsBounded'
  OBVIOUS
<1>1. LogBounded' /\ SomeKept' /\ store.taken \subseteq store'.taken
  BY LogBoundedStep, SomeKeptStep DEF BackupsBounded
<1>2. ShelfBounded'
  BY ShelfBoundedStep DEF BackupsBounded
<1>3. \A j \in Jobs : JobBounded(job[j])'
  BY <1>1, JobsBoundedStep
<1> QED
  BY <1>1, <1>2, <1>3 DEF BackupsBounded

LEMMA BackupsInitBounded == BackupsInit => BackupsBounded
<1> SUFFICES ASSUME BackupsInit PROVE BackupsBounded
  OBVIOUS
<1>1. wal.open = 1 /\ wal.archived = 0 /\ store.taken = {} /\ store.kept = {} /\ pushing = None
  BY DEF BackupsInit
<1>2. LogBounded /\ SomeKept
  BY <1>1, SegmentNumbers DEF LogBounded, SomeKept
<1>3. ShelfBounded
  BY SegmentNumbers DEF BackupsInit, ShelfBounded
<1>4. JobBounded(Fresh)
  BY SegmentNumbers DEF Fresh, JobBounded
<1>5. \A j \in Jobs : JobBounded(job[j])
  BY <1>4 DEF BackupsInit
<1> QED
  BY <1>2, <1>3, <1>5 DEF BackupsBounded

\* The backups keep their types: whatever is kept was taken, every backup ends in a closed
\* segment, and the archive is behind the open one.
THEOREM BackupsTypesHold == BackupsSpec => []BackupsTypeOK
<1>1. BackupsInit => BackupsInv /\ BackupsBounded
  BY BackupsInitInv, BackupsInitBounded
<1>2. BackupsInv /\ [BackupsNext]_backupsVars => BackupsInv'
  BY BackupsNextInv
<1>3. BackupsInv /\ BackupsBounded /\ [BackupsNext]_backupsVars => BackupsBounded'
  BY BackupsBoundedStep
<1>4. ASSUME BackupsInv, BackupsBounded PROVE BackupsTypeOK
  <2>1. \A j \in Jobs : {job[j].id, job[j].switched, job[j].noted} \subseteq 0 .. LastSegment
    BY <1>4 DEF BackupsBounded, JobBounded
  <2>2. store.kept \subseteq {b.id : b \in store.taken}
    BY <1>4 DEF BackupsInv, BackupTypes
  <2> QED
    BY <1>4, <2>1, <2>2 DEF BackupsBounded, LogBounded, ShelfBounded, BackupsTypeOK
<1> QED
  BY <1>1, <1>2, <1>3, <1>4, PTL DEF BackupsSpec

\* The clock stays within its bound, and nothing was activated beyond it.
HourBounded ==
  /\ hour \in 0 .. LastHour
  /\ host.ingress # None => host.ingress.at \in 0 .. LastHour

\* A pair changes the file that it is of, and nothing of what is served.
LEMMA PairKeepsIngress ==
  ASSUME PromotionTypes, NEW p \in Pilots, NEW f \in Pairs, PairBegins(p, f) \/ PairEnds(p, f)
  PROVE  host'.ingress = host.ingress
<1>1. host \in HostRecords /\ f # "ingress"
  BY DEF PromotionTypes, Pairs
<1>2. CASE PairBegins(p, f)
  BY <1>1, <1>2 DEF PairBegins, HostRecords, Pairs
<1>3. CASE PairEnds(p, f)
  BY <1>1, <1>3 DEF PairEnds, HostRecords, Pairs
<1> QED
  BY <1>2, <1>3

\* Only an activation changes what is served.
LEMMA HostStepKeepsIngress ==
  ASSUME PromotionTypes, NEW p \in Pilots, HostStep(p), ~Activates(p)
  PROVE  host'.ingress = host.ingress
<1>0. host \in HostRecords
  BY DEF PromotionTypes
<1>1. CASE StartsServices(p) \/ ObservesCutover(p)
  BY <1>1 DEF StartsServices, ObservesCutover
<1>2. CASE DeploysConsumers(p)
  BY <1>0, <1>2, PairKeepsIngress DEF DeploysConsumers, HostRecords, Pairs
<1>3. CASE HandsOff(p)
  BY <1>0, <1>3, PairKeepsIngress DEF HandsOff, HostRecords, Pairs
<1>4. CASE BacksUp(p)
  BY <1>0, <1>4 DEF BacksUp, HostRecords
<1>5. CASE BootstrapsReplay(p)
  BY <1>0, <1>5, PairKeepsIngress DEF BootstrapsReplay, HostRecords, Pairs
<1>6. CASE AppendsCutover(p)
  BY <1>0, <1>6 DEF AppendsCutover, HostRecords
<1>7. CASE AppendsPair(p)
  BY <1>0, <1>7, PairKeepsIngress DEF AppendsPair, Pairs
<1> QED
  BY <1>1, <1>2, <1>3, <1>4, <1>5, <1>6, <1>7 DEF HostStep

LEMMA HourBoundedStep ==
  PromotionInv /\ HourBounded /\ [PromotionNext]_promotionVars => HourBounded'
<1> SUFFICES ASSUME PromotionInv, HourBounded, [PromotionNext]_promotionVars PROVE HourBounded'
  OBVIOUS
<1>0. host \in HostRecords /\ LastHour \in Nat /\ hour \in Nat /\ PromotionTypes
  BY PromotionAssumption DEF PromotionInv, PromotionTypes
<1>1. ASSUME hour' = hour, host'.ingress = host.ingress PROVE HourBounded'
  BY <1>1 DEF HourBounded
<1>2. CASE HourPasses
  BY <1>0, <1>2 DEF HourPasses, HourBounded
<1>3. CASE ClockSetBack
  <2>1. host'.ingress = host.ingress /\ hour' = hour - 1 /\ hour > 0
    BY <1>0, <1>3 DEF ClockSetBack, HostRecords
  <2> QED
    BY <1>0, <2>1 DEF HourBounded
<1>4. CASE OperatorClears
  <2>1. host'.ingress = host.ingress
    BY <1>0, <1>4 DEF OperatorClears, EmptyHost, HostRecords
  <2> QED
    BY <1>1, <1>4, <2>1 DEF OperatorClears
<1>5. ASSUME NEW p \in Pilots, PilotStep(p) PROVE HourBounded'
  <2>1. CASE RollsBack(p)
    <3>1. host'.ingress \in {None, host.ingress} /\ hour' = hour
      BY <1>0, <2>1 DEF RollsBack, HostRecords
    <3> QED
      BY <3>1 DEF HourBounded
  <2>2. CASE ~RollsBack(p)
    BY <1>1, <1>5, <2>2 DEF PilotStep, PilotStarts, AsksHost, Hears, PilotFails, PilotDies
  <2> QED
    BY <2>1, <2>2
<1>6. ASSUME NEW p \in Pilots, HostStep(p) PROVE HourBounded'
  <2>1. hour' = hour
    BY <1>6 DEF HostStep
  <2>2. CASE Activates(p)
    <3>1. CASE UNCHANGED host
      BY <1>1, <2>1, <3>1
    <3>2. CASE host' = [host EXCEPT !.ingress = [by |-> p, at |-> hour]]
      <4>1. PICK i : i = [by |-> p, at |-> hour]
        OBVIOUS
      <4>2. host'.ingress = i /\ i.at = hour
        BY <1>0, <3>2, <4>1 DEF HostRecords
      <4> QED
        BY <2>1, <4>2 DEF HourBounded
    <3> QED
      BY <2>2, <3>1, <3>2 DEF Activates
  <2>3. CASE ~Activates(p)
    BY <1>0, <1>1, <1>6, <2>1, <2>3, HostStepKeepsIngress
  <2> QED
    BY <2>2, <2>3
<1>7. ASSUME NEW p \in Pilots, HostStops(p) PROVE HourBounded'
  BY <1>1, <1>7 DEF HostStops
<1>8. ASSUME NEW t \in Ticks, CanaryStep(t) PROVE HourBounded'
  <2>1. CASE TickAppends(t)
    BY <1>0, <1>1, <2>1 DEF TickAppends, HostRecords
  <2>2. CASE TickFinishes(t)
    BY <1>0, <1>1, <2>2 DEF TickFinishes, HostRecords
  <2>3. CASE TickBegins(t) \/ TickObserves(t) \/ TickFails(t)
    BY <1>1, <2>3 DEF TickBegins, TickObserves, TickFails
  <2> QED
    BY <1>8, <2>1, <2>2, <2>3 DEF CanaryStep
<1>9. CASE UNCHANGED promotionVars
  BY <1>1, <1>9 DEF promotionVars
<1> QED
  BY <1>2, <1>3, <1>4, <1>5, <1>6, <1>7, <1>8, <1>9 DEF PromotionNext

\* A promotion keeps its types: evidence, contracts and what is served are of pilots, and
\* nothing was activated later than the clock ever stood.
THEOREM PromotionTypesHold == PromotionSpec => []PromotionTypeOK
<1>1. PromotionInit => PromotionInv /\ HourBounded
  <2> SUFFICES ASSUME PromotionInit PROVE HourBounded
    BY PromotionInitInv
  <2>1. hour = 0 /\ host.ingress = None
    BY DEF PromotionInit, EmptyHost
  <2> QED
    BY <2>1, PromotionAssumption DEF HourBounded
<1>2. PromotionInv /\ [PromotionNext]_promotionVars => PromotionInv'
  BY PromotionNextInv
<1>3. PromotionInv /\ HourBounded /\ [PromotionNext]_promotionVars => HourBounded'
  BY HourBoundedStep
<1>4. ASSUME PromotionInv, HourBounded PROVE PromotionTypeOK
  <2>0. PromotionTypes /\ LastHour \in Nat
    BY <1>4, PromotionAssumption DEF PromotionInv
  <2>1. \A f \in Pairs : host[f] \in PairFiles \cup {None}
    BY <2>0 DEF PromotionTypes, HostRecords, Pairs
  <2>2. /\ host.ingress # None => host.ingress \in Ingresses
        /\ host.contracts \subseteq Pilots
    BY <2>0 DEF PromotionTypes, HostRecords
  <2>3. /\ host.ingress # None => host.ingress.at <= LastHour
        /\ hour \in 0 .. LastHour
    BY <1>4, <2>0 DEF HourBounded
  <2>4. \A p \in Pilots :
          /\ pilot[p].at \in 0 .. 12 /\ remote[p].part \in 0 .. 4
          /\ pilot[p].end \in Ends \cup {None}
    BY <2>0 DEF PromotionTypes, PilotRecords, RemoteRecords
  <2>5. \A t \in Ticks : canary[t].at \in {"idle", "observing", "appending", "finishing"}
    BY <2>0 DEF PromotionTypes, TickRecords
  <2> QED
    BY <2>1, <2>2, <2>3, <2>4, <2>5 DEF PromotionTypeOK
<1> QED
  BY <1>1, <1>2, <1>3, <1>4, PTL DEF PromotionSpec
=============================================================================
