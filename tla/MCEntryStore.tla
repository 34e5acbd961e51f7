---------------------------- MODULE MCEntryStore -----------------------------
(* EntryStore for TLC. *)
EXTENDS EntryStore, TLC

Symmetry == Permutations(Procs) \cup Permutations(Ids)
=============================================================================
