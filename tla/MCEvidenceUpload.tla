-------------------------- MODULE MCEvidenceUpload --------------------------
(***************************************************************************)
(* Small instances of EvidenceUpload for TLC.                              *)
(***************************************************************************)
EXTENDS EvidenceUpload, TLC

Symmetry == Permutations(Intents) \cup Permutations(Workers)
=============================================================================
