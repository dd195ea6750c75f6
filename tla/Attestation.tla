---------------------------- MODULE Attestation -----------------------------
(***************************************************************************)
(* The evidence of live runs, from the five samples of the preflight to    *)
(* the consumer's verdict, as the ports of the worker gather it from a     *)
(* world that moves: the source answers differently, the registry names    *)
(* new contracts, the fee changes, the relayer's policy is configured      *)
(* anew, transactions are mined late or revert, the proof service answers  *)
(* with another proof.  Every step may fail and be tried again from what   *)
(* the journal holds.                                                      *)
(***************************************************************************)
EXTENDS Nothing, Naturals, Sequences, FiniteSets

CONSTANTS
  Proving,      \* runs
  HowSubmitted, \* "wallet" or "relayer", for each run
  FeeCap,       \* submission.feeCapWei of each run's manifest
  Fees,         \* fees the registry's configuration may ask
  SampleCount,  \* five in the code
  LastRound,    \* bound: voting rounds
  MaxUpgrades   \* bound: changes of the registry

ASSUME AttestationAssumption ==
  /\ HowSubmitted \in [Proving -> {"wallet", "relayer"}] /\ FeeCap \in [Proving -> Nat]
  /\ Fees \subseteq Nat /\ {SampleCount, LastRound, MaxUpgrades} \subseteq Nat /\ LastRound > 0
  /\ None # "passed"
  /\ None \notin [to : Nat, value : Nat, own : BOOLEAN, named : Nat, on : BOOLEAN,
                  mined : {"no", "success", "reverted"}, round : Nat]

VARIABLES
  registry,   \* [version, fee]: the contracts now, and what a request costs
  globalCap,  \* the worker's fee cap over all projects
  epoch,      \* [now, finalized]: the voting round now, the rounds the Relay has
  stage,      \* how far the journal of a run is
  sampling,   \* the preflight or the signing in hand: None or [pin, samples], where pin
              \* is the registry as it was resolved
  evidence,   \* the preflight-evidence artifact: [pin, cap, stable], or None
  sentTx,     \* the transaction of a run: [to, value, own, named, on, mined, round], or None;
              \* named is the hub that the registry had when it was read for it
  votingRound,\* the round of the receipt-evidence artifact, or None
  proof,      \* the proof-evidence artifact: [of, included], or None
  verdict     \* the consumer's: None, "passed" or "refused"

attestationVars ==
  <<registry, globalCap, epoch, stage, sampling, evidence, sentTx, votingRound, proof, verdict>>

AttestationInit ==
  /\ \E fee \in Fees : registry = [version |-> 0, fee |-> fee]
  /\ globalCap \in Fees
  /\ epoch = [now |-> 1, finalized |-> 0]
  /\ stage = [r \in Proving |-> "created"]
  /\ sampling = [r \in Proving |-> None]
  /\ evidence = [r \in Proving |-> None]
  /\ sentTx = [r \in Proving |-> None]
  /\ votingRound = [r \in Proving |-> None]
  /\ proof = [r \in Proving |-> None]
  /\ verdict = [r \in Proving |-> None]

Reaches(r, s) == stage' = [stage EXCEPT ![r] = s]

(***************************************************************************)
(* The world.                                                              *)
(***************************************************************************)

RegistryChanges ==
  /\ registry.version < MaxUpgrades
  /\ \E fee \in Fees : registry' = [version |-> registry.version + 1, fee |-> fee]
  /\ UNCHANGED <<globalCap, epoch, stage, sampling, evidence, sentTx, votingRound, proof, verdict>>

\* A round ends, or the Relay gets the root of the next one.
RoundPasses ==
  /\ \/ epoch.now < LastRound /\ epoch' = [epoch EXCEPT !.now = @ + 1]
     \/ epoch.finalized < epoch.now - 1 /\ epoch' = [epoch EXCEPT !.finalized = @ + 1]
  /\ UNCHANGED <<registry, globalCap, stage, sampling, evidence, sentTx, votingRound, proof, verdict>>

\* The worker restarts with another policy.
PolicyConfigured ==
  /\ globalCap' \in Fees \ {globalCap}
  /\ \A r \in Proving : sampling[r] = None
  /\ UNCHANGED <<registry, epoch, stage, sampling, evidence, sentTx, votingRound, proof, verdict>>

\* A transaction is mined: the hub takes a request only under its own address.
Mined(r) ==
  /\ sentTx[r] # None /\ sentTx[r].mined = "no" /\ sentTx[r].on
  /\ sentTx' = [sentTx EXCEPT
       ![r].mined = IF sentTx[r].to = registry.version THEN "success" ELSE "reverted",
       ![r].round = epoch.now]
  /\ UNCHANGED <<registry, globalCap, epoch, stage, sampling, evidence, votingRound, proof, verdict>>

(***************************************************************************)
(* The preflight: every read of the chain is made at one block.            *)
(***************************************************************************)

PreflightBegins(r) ==
  /\ stage[r] = "created" /\ sampling[r] = None
  /\ sampling' = [sampling EXCEPT ![r] = [pin |-> registry, samples |-> <<>>]]
  /\ UNCHANGED <<registry, globalCap, epoch, stage, evidence, sentTx, votingRound, proof, verdict>>

\* Fault: one sample too many.
OneSampleOver(r) == Len(sampling[r].samples) <= SampleCount

\* The loop over the samples the preflight requires.
WantsSample(r) == Len(sampling[r].samples) < SampleCount

\* The source answers through the safe fetcher, is transformed and encoded.
SampleTaken(r) ==
  /\ stage[r] = "created" /\ sampling[r] # None /\ WantsSample(r)
  /\ \E s \in {"usual", "other", "not encodable"} :
       sampling' = [sampling EXCEPT ![r].samples = Append(@, s)]
  /\ UNCHANGED <<registry, globalCap, epoch, stage, evidence, sentTx, votingRound, proof, verdict>>

\* The source, the verifier or the node fails, or the worker does, in a preflight or
\* a signing: nothing is kept.
AttemptFails(r) ==
  /\ sampling[r] # None
  /\ sampling' = [sampling EXCEPT ![r] = None]
  /\ UNCHANGED <<registry, globalCap, epoch, stage, evidence, sentTx, votingRound, proof, verdict>>

SampleSet(r) == {sampling[r].samples[i] : i \in 1 .. Len(sampling[r].samples)}

\* Fault: only the last sample is encoded.
BlockedUnlessLastFits(r) ==
  {b \in {"nondeterministic", "abi", "fee"} :
     CASE b = "nondeterministic" -> Cardinality(SampleSet(r)) # 1
       [] b = "abi" -> sampling[r].samples[SampleCount] = "not encodable"
       [] b = "fee" -> FALSE}

\* The report's blockers; the trust of the manifest is settled before it is created.
Blockers(r) ==
  {b \in {"nondeterministic", "abi", "fee"} :
     CASE b = "nondeterministic" -> Cardinality(SampleSet(r)) # 1
       [] b = "abi" -> "not encodable" \in SampleSet(r)
       [] b = "fee" -> sampling[r].pin.fee > FeeCap[r]}

\* The outcome, checked against the manifest, goes into the journal in one commit
\* with the evidence and the relayer's policy.
PreflightEnds(r) ==
  /\ stage[r] = "created" /\ sampling[r] # None
  /\ Len(sampling[r].samples) = SampleCount
  /\ IF Blockers(r) = {}
     THEN /\ evidence' = [evidence EXCEPT
                 ![r] = [pin |-> sampling[r].pin, cap |-> globalCap,
                         stable |-> SampleSet(r) \in {{"usual"}, {"other"}}]]
          /\ Reaches(r, "accepted")
     ELSE Reaches(r, "failed") /\ UNCHANGED evidence
  /\ sampling' = [sampling EXCEPT ![r] = None]
  /\ UNCHANGED <<registry, globalCap, epoch, sentTx, votingRound, proof, verdict>>

(***************************************************************************)
(* The request.                                                            *)
(***************************************************************************)

\* Fault: the hub of the evidence is not compared with the registry's.
PolicyHolds(r) == evidence[r].cap = globalCap /\ evidence[r].pin.fee <= globalCap

\* The policy is the worker's, the value below both caps, the hub the one resolved.
MaySign(r) ==
  /\ evidence[r].cap = globalCap
  /\ evidence[r].pin.fee <= FeeCap[r] /\ evidence[r].pin.fee <= globalCap
  /\ evidence[r].pin.version = sampling[r].pin.version

\* The registry is read first; balance, nonce and gas are awaited before the signature,
\* and it may change meanwhile.
RelayerResolves(r) ==
  /\ stage[r] = "accepted" /\ HowSubmitted[r] = "relayer" /\ sampling[r] = None
  /\ sampling' = [sampling EXCEPT ![r] = [pin |-> registry, samples |-> <<>>]]
  /\ UNCHANGED <<registry, globalCap, epoch, stage, evidence, sentTx, votingRound, proof, verdict>>

\* The relayer signs what the evidence says and the record of it is kept; where a
\* check fails the run fails.
SignRelayerTransaction(r) ==
  /\ stage[r] = "accepted" /\ sampling[r] # None
  /\ IF MaySign(r)
     THEN /\ sentTx' = [sentTx EXCEPT
                 ![r] = [to |-> evidence[r].pin.version, value |-> evidence[r].pin.fee, own |-> TRUE,
                         named |-> sampling[r].pin.version, on |-> FALSE, mined |-> "no", round |-> 0]]
          /\ Reaches(r, "signed")
     ELSE Reaches(r, "failed") /\ UNCHANGED sentTx
  /\ sampling' = [sampling EXCEPT ![r] = None]
  /\ UNCHANGED <<registry, globalCap, epoch, evidence, votingRound, proof, verdict>>

\* It is broadcast, or found on the chain by a later attempt.
BroadcastSigned(r) ==
  /\ stage[r] = "signed"
  /\ sentTx' = [sentTx EXCEPT ![r].on = TRUE]
  /\ Reaches(r, "submitted")
  /\ UNCHANGED <<registry, globalCap, epoch, sampling, evidence, votingRound, proof, verdict>>

\* The node takes it but the answer is lost.
BroadcastUnanswered(r) ==
  /\ stage[r] = "signed" /\ ~sentTx[r].on
  /\ sentTx' = [sentTx EXCEPT ![r].on = TRUE]
  /\ UNCHANGED <<registry, globalCap, epoch, stage, sampling, evidence, votingRound, proof, verdict>>

\* The user's wallet sends a transaction, of the prepared intent or another, and its
\* hash is attached to the run.
WalletSendsTx(r) ==
  /\ stage[r] = "accepted" /\ HowSubmitted[r] = "wallet" /\ sentTx[r] = None
  /\ \E to \in 0 .. MaxUpgrades, value \in Fees, own \in BOOLEAN :
       sentTx' = [sentTx EXCEPT
         ![r] = [to |-> to, value |-> value, own |-> own, named |-> registry.version,
                 on |-> TRUE, mined |-> "no", round |-> 0]]
  /\ UNCHANGED <<registry, globalCap, epoch, stage, sampling, evidence, votingRound, proof, verdict>>

\* Fault: the value is not compared.
ToTheHub(r) == sentTx[r].to = evidence[r].pin.version /\ sentTx[r].own

MatchesIntent(r) ==
  /\ sentTx[r].to = evidence[r].pin.version /\ sentTx[r].own
  /\ sentTx[r].value = evidence[r].pin.fee

AttachObserved(r) ==
  /\ stage[r] = "accepted" /\ HowSubmitted[r] = "wallet" /\ sentTx[r] # None
  /\ Reaches(r, IF MatchesIntent(r) THEN "submitted" ELSE "failed")
  /\ UNCHANGED <<registry, globalCap, epoch, sampling, evidence, sentTx, votingRound, proof, verdict>>

(***************************************************************************)
(* Round, proof and verdict.                                               *)
(***************************************************************************)

\* Fault: the round that runs while the receipt is looked at.
RoundNow(r) == epoch.now

\* calculateVotingRoundId of the block's timestamp.
RoundOf(r) == sentTx[r].round

GetReceipt(r) ==
  /\ stage[r] = "submitted" /\ sentTx[r].mined # "no"
  /\ IF sentTx[r].mined = "success"
     THEN Reaches(r, "receipted") /\ votingRound' = [votingRound EXCEPT ![r] = RoundOf(r)]
     ELSE Reaches(r, "failed") /\ UNCHANGED votingRound
  /\ UNCHANGED <<registry, globalCap, epoch, sampling, evidence, sentTx, proof, verdict>>

IsRelayFinalized(r) ==
  /\ stage[r] = "receipted" /\ votingRound[r] <= epoch.finalized
  /\ Reaches(r, "finalized")
  /\ UNCHANGED <<registry, globalCap, epoch, sampling, evidence, sentTx, votingRound, proof, verdict>>

\* The service answers with the run's proof, or with that of another request of the
\* round, for the same source or not; included: the leaf is under the Relay's root.
FetchProof(r) ==
  /\ stage[r] = "finalized"
  /\ \E of \in {"own", "alike", "foreign"}, included \in BOOLEAN :
       /\ included /\ of = "own" => sentTx[r].round = votingRound[r]
       /\ proof' = [proof EXCEPT ![r] = [of |-> of, included |-> included]]
  /\ Reaches(r, "available")
  /\ UNCHANGED <<registry, globalCap, epoch, sampling, evidence, sentTx, votingRound, verdict>>

\* Fault: a proof that hashes to another root goes on to the contract's answer.
RootMayDiffer(r) == TRUE

RootAgrees(r) == proof[r].included

VerifyDaProof(r) ==
  /\ stage[r] = "available"
  /\ Reaches(r, IF RootAgrees(r) THEN "verified" ELSE "failed")
  /\ UNCHANGED <<registry, globalCap, epoch, sampling, evidence, sentTx, votingRound, proof, verdict>>

\* Fault: the request of the proof is not compared with the manifest.
NoDiagnostics(r) == TRUE

\* diagnoseConsumerRequest finds nothing when the proof's request has the scheme,
\* host, path and query the manifest trusts.
Trusted(r) == proof[r].of # "foreign"

VerifyByConsumer(r) ==
  /\ stage[r] = "verified"
  /\ \E safe \in BOOLEAN :
       verdict' = [verdict EXCEPT ![r] = IF safe /\ Trusted(r) THEN "passed" ELSE "refused"]
  /\ Reaches(r, "concluded")
  /\ UNCHANGED <<registry, globalCap, epoch, sampling, evidence, sentTx, votingRound, proof>>

\* The command of a stage gives up after its last attempt; a transaction signed or
\* sent stays what it is.
GivesUp(r) ==
  /\ stage[r] \notin {"concluded", "failed"}
  /\ sampling[r] = None
  /\ Reaches(r, "failed")
  /\ UNCHANGED <<registry, globalCap, epoch, sampling, evidence, sentTx, votingRound, proof, verdict>>

AttestationNext ==
  \/ RegistryChanges \/ RoundPasses \/ PolicyConfigured
  \/ \E r \in Proving :
       \/ Mined(r) \/ PreflightBegins(r) \/ SampleTaken(r) \/ AttemptFails(r) \/ PreflightEnds(r)
       \/ RelayerResolves(r) \/ SignRelayerTransaction(r) \/ BroadcastSigned(r)
       \/ BroadcastUnanswered(r) \/ WalletSendsTx(r) \/ AttachObserved(r) \/ GetReceipt(r)
       \/ IsRelayFinalized(r) \/ FetchProof(r) \/ VerifyDaProof(r) \/ VerifyByConsumer(r) \/ GivesUp(r)

AttestationSpec == AttestationInit /\ [][AttestationNext]_attestationVars

(***************************************************************************)
(* What the evidence of a run promises.                                    *)
(***************************************************************************)

RunStages ==
  {"created", "accepted", "signed", "submitted", "receipted", "finalized", "available",
   "verified", "concluded", "failed"}

\* Types of the state (live-runtime.ts, worker.ts).
AttestationTypeOK ==
  /\ registry \in [version : 0 .. MaxUpgrades, fee : Fees] /\ globalCap \in Fees
  /\ epoch \in [now : 1 .. LastRound, finalized : 0 .. LastRound]
  /\ stage \in [Proving -> RunStages]
  /\ \A r \in Proving :
       /\ sampling[r] # None => Len(sampling[r].samples) <= SampleCount
       /\ votingRound[r] \in (1 .. LastRound) \cup {None}
       /\ proof[r] # None => proof[r] \in [of : {"own", "alike", "foreign"}, included : BOOLEAN]
       /\ verdict[r] \in {None, "passed", "refused"}

\* What the relayer signs costs no more than the project's cap and the cap in force when
\* both were decided, and goes to the hub that the registry named at the preflight and
\* again when it was resolved for the signature, though nothing holds the registry until
\* the signature itself (live-runtime.ts:540-594).
RelayerSpendsAsQuoted ==
  \A r \in Proving : HowSubmitted[r] = "relayer" /\ sentTx[r] # None =>
    /\ sentTx[r].value <= FeeCap[r] /\ sentTx[r].value <= evidence[r].cap
    /\ sentTx[r].to = sentTx[r].named /\ sentTx[r].to = evidence[r].pin.version

\* A run that was submitted rests on a preflight whose samples agreed, and on a
\* transaction with its request at the quoted price (worker.ts:740-923, 1785-1795).
SubmittedAsPrepared ==
  \A r \in Proving : stage[r] \in RunStages \ {"created", "accepted", "signed", "failed"} =>
    /\ evidence[r].stable /\ evidence[r].pin.fee <= FeeCap[r]
    /\ sentTx[r].own /\ sentTx[r].value = evidence[r].pin.fee

\* The round in the journal is the one the transaction was mined in, whenever its
\* receipt was read (coston2.ts:74-89, worker.ts:1819-1866).
RoundOfTheBlock ==
  \A r \in Proving : votingRound[r] # None =>
    sentTx[r].mined = "success" /\ votingRound[r] = sentTx[r].round

\* A verified proof is under the root of its round; a consumer passes only a proof
\* of a source its manifest trusts, whatever the service answered (live-runtime.ts:766-828).
PassedIsTrusted ==
  \A r \in Proving :
    /\ stage[r] \in {"verified", "concluded"} => proof[r].included
    /\ verdict[r] = "passed" => proof[r].of # "foreign"

\* The evidence of a run: its cost, its request, its round and its proof belong together.
AttestationPromise ==
  RelayerSpendsAsQuoted /\ SubmittedAsPrepared /\ RoundOfTheBlock /\ PassedIsTrusted
=============================================================================
