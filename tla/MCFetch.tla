------------------------------- MODULE MCFetch -------------------------------
(* A fetch with a signal and one without, for a single slot. *)
EXTENDS Fetch
=============================================================================
