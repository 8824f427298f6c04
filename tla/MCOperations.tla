---------------------------- MODULE MCOperations ----------------------------
(***************************************************************************)
(* The jobs and alerts of Operations on a small instance.                  *)
(***************************************************************************)
EXTENDS Operations

IncidentIds == 1..4
=============================================================================
