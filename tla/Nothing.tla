------------------------------ MODULE Nothing -------------------------------
(***************************************************************************)
(* The value of a field that holds no token, no run, no account.           *)
(***************************************************************************)
CONSTANT None
=============================================================================
