---------------------------- MODULE RunLifecycle ----------------------------
(***************************************************************************)
(* What a run promises its readers, whatever queue, worker or failure is   *)
(* behind it: it moves through the lifecycle positions 1..7 in order, one  *)
(* at a time (a replay moves from the accepted preflight to the verdict in *)
(* one transaction), it ends once, with a verdict or a failure, and it     *)
(* never moves again.                                                      *)
(***************************************************************************)
EXTENDS Naturals

CONSTANT Runs

VARIABLES phase,    \* lifecycle position a run has reached
          outcome   \* "open" until the run ends

vars == <<phase, outcome>>

Outcome == {"open", "passed", "rejected", "failed"}

TypeOK == phase \in [Runs -> 1..7] /\ outcome \in [Runs -> Outcome]

Init == phase = [r \in Runs |-> 1] /\ outcome = [r \in Runs |-> "open"]

Open(r) == outcome[r] = "open"

\* One stage is completed.
Advance(r) ==
  /\ Open(r) /\ phase[r] < 6
  /\ phase' = [phase EXCEPT ![r] = @ + 1]
  /\ UNCHANGED outcome

\* The consumer is verified: from the verified proof, or at once by a replay.
Conclude(r) ==
  /\ Open(r) /\ phase[r] \in {2, 6}
  /\ phase' = [phase EXCEPT ![r] = 7]
  /\ \E v \in {"passed", "rejected"} : outcome' = [outcome EXCEPT ![r] = v]

\* The run fails where it stands.
Fail(r) ==
  /\ Open(r)
  /\ outcome' = [outcome EXCEPT ![r] = "failed"]
  /\ UNCHANGED phase

Next == \E r \in Runs : Advance(r) \/ Conclude(r) \/ Fail(r)

Spec == Init /\ [][Next]_vars
=============================================================================
