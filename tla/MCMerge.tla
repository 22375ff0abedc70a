------------------------------- MODULE MCMerge -------------------------------
(* Two managed tasks of one repository and what happens around their merges. *)
EXTENDS Merge, MergeScenarios
=============================================================================
