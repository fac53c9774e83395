---------------------------- MODULE MCHttpServer ----------------------------
(* A listener and two connections, one of which may be upgraded. *)
EXTENDS HttpServer
=============================================================================
