---------------------------- MODULE MCRunListing ----------------------------
(***************************************************************************)
(* RunListing for TLC.                                                     *)
(***************************************************************************)
EXTENDS RunListing

CONSTANTS p1, p2, s1, s2

MCProjectOf == [r \in Runs |-> IF r = 9 THEN p2 ELSE p1]

MCSessionOf == [s \in Sessions |-> IF s = s1 THEN p1 ELSE p2]
=============================================================================
