---------------------------- MODULE MCOrchestrator ----------------------------
(***************************************************************************)
(* Three bounties at once: enough for a poster to be taken for a spammer,   *)
(* and for two runs to change what the gate of a third one sees.            *)
(***************************************************************************)
EXTENDS Orchestrator, TLC

Symmetry == Permutations(Bounties) \cup Permutations(Workers \ Posters)
=============================================================================
