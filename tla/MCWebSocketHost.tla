--------------------------- MODULE MCWebSocketHost ---------------------------
(* One connection with two sends, a frame of the peer and queues of two. *)
EXTENDS WebSocketHost
=============================================================================
