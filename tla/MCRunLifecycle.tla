---- MODULE MCRunLifecycle ----
(* The instances of RunLifecycle that TLC checks. *)
EXTENDS RunLifecycle, TLC

WorkerSymmetry == Permutations(Workers)
====
