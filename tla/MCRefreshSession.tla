-------------------------- MODULE MCRefreshSession --------------------------
(* Instances of RefreshSession for TLC. *)
EXTENDS RefreshSession, TLC

\* Rotations, devices and tokens are interchangeable.
Symmetry == Permutations(Procs) \cup Permutations(Devices) \cup Permutations(Tokens)
=============================================================================
