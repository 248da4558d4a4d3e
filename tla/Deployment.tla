----------------------------- MODULE Deployment -----------------------------
(***************************************************************************)
(* What the components beside syncs and organizations share: the broker,   *)
(* and the value of a column that is NULL or of a row that does not exist. *)
(***************************************************************************)
EXTENDS Naturals

CONSTANTS
  MaxMsgs,   \* bound: messages of one task and one subject in the broker
  None

ASSUME DeploymentAssumption == MaxMsgs \in Nat
=============================================================================
