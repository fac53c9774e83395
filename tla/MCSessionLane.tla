---------------------------- MODULE MCSessionLane ----------------------------
(* Two callers, one of which starts a host operation, a delivering thread and *)
(* a closing thread on a lane that lets one caller wait and try again once.   *)
EXTENDS SessionLane

CONSTANTS c1, c2, d1, cl, nobody

MCCallers == {c1, c2}
MCStarters == {c2}
MCDeliverers == {d1}
MCTimedTurns == {c1}
=============================================================================
