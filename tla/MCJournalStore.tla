--------------------------- MODULE MCJournalStore ----------------------------
(* JournalStore for TLC. *)
EXTENDS JournalStore

Symmetry == Permutations(Procs) \cup Permutations(Ids)
=============================================================================
