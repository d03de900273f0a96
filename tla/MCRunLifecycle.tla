--------------------------- MODULE MCRunLifecycle ---------------------------
(* RunLifecycle for TLC: the runs of the session are interchangeable. *)
EXTENDS RunLifecycle, TLC

Symmetry == Permutations(Runs)
=============================================================================
