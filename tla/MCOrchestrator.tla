--------------------------- MODULE MCOrchestrator ---------------------------
(* Instances of Orchestrator for TLC: symmetric sets of model values. *)
EXTENDS Orchestrator, TLC

Symmetry ==
    Permutations(TaskId) \cup Permutations(Workers) \cup Permutations(Clients)
        \cup Permutations(Requirement)
=============================================================================
