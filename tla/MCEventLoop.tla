----------------------------- MODULE MCEventLoop -----------------------------
(* A session with its timer globals: delays 0 and 1, a clock that stops at 2, *)
(* two handles with one hint between them, and two host operations.           *)
EXTENDS TimerGlobals

MCDelays == {0, 1}
MCHints == {1, 2}
=============================================================================
