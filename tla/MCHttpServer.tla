---------------------------- MODULE MCHttpServer ----------------------------
(* The web server on a small instance: two addresses, two connections.       *)
EXTENDS HttpServer
=============================================================================
