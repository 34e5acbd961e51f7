--------------------------- MODULE MCExternalStore ---------------------------
(* ExternalStore for TLC. *)
EXTENDS ExternalStore

Symmetry == Permutations(Procs) \cup Permutations(Ids)
=============================================================================
