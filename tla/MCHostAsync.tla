----------------------------- MODULE MCHostAsync -----------------------------
(* Two operations and two workers besides the owner: two ports raced by     *)
(* three threads, sweeps, drains, a close and an interrupt.                 *)
EXTENDS HostAsync

CONSTANTS w1, w2, own, none

MCOneWorker == {w1}
MCWorkers == {w1, w2}
=============================================================================
