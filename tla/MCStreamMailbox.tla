-------------------------- MODULE MCStreamMailbox ---------------------------
(* Bounds for StreamMailbox: the owner's mailbox holds two frames while two *)
(* producers have two frames each, so both block and both overtake.         *)
EXTENDS StreamMailbox

CONSTANTS p1, p2

MCProducers == {p1, p2}
MCCapacity == 2
MCFrameCount == 2

=============================================================================
