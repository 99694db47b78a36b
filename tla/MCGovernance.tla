---------------------------- MODULE MCGovernance ----------------------------
(***************************************************************************)
(* Governance with one proposal, two masternodes and no failures: two      *)
(* votes are enough for a masternode to change its mind.                   *)
(***************************************************************************)
EXTENDS Governance, TLC

MCWeight == "v1" :> 1 @@ "v2" :> 4

MCWindows == { [start |-> 0, end |-> 4, count |-> 2], [start |-> 2, end |-> 6, count |-> 0] }
=============================================================================
