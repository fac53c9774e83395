-------------------------- MODULE MCSessionLifecycle --------------------------
(* Three threads call run_turn directly, one of them under a deadline, while *)
(* others cancel, drain, look at the phase and close.                        *)
EXTENDS SessionLifecycle, TLC

CONSTANTS c1, c2, c3

MCCallers == {c1, c2, c3}
MCTimedTurns == {c1, c2}
=============================================================================
