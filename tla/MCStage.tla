------------------------------- MODULE MCStage -------------------------------
(* Small instances of StagePipeline.                                        *)
EXTENDS StagePipeline, TLC

WorkerSymmetry == Permutations(Workers)
============================================================================
