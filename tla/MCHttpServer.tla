------------------------------ MODULE MCHttpServer ------------------------------
(* Three clients for two connections, of which one may be a stream.          *)
EXTENDS HttpServer, TLC
=============================================================================
