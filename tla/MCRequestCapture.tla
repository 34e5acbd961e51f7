-------------------------- MODULE MCRequestCapture ---------------------------
(* RequestCapture for TLC. *)
EXTENDS RequestCapture

\* Without a limit, and with one that the requests compete for.
Limits == {-1, 1}
=============================================================================
