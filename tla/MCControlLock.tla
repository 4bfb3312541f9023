----------------------------- MODULE MCControlLock -----------------------------
(* Instances of ControlLock for TLC. *)
EXTENDS ControlLock, TLC

Symmetry == Permutations(Supervisors \ Recycled)

=============================================================================
