-------------------------- MODULE MCSandboxWorkspace --------------------------
(* SandboxWorkspace for TLC. *)
EXTENDS SandboxWorkspace, TLC

\* The workers are interchangeable.
WorkerSymmetry == Permutations(Workers)
=============================================================================
