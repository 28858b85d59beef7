---------------------------- MODULE MCHttpServer ----------------------------
(***************************************************************************)
(* Four connections: two pages, a "quit" and a silent one.                 *)
(***************************************************************************)
EXTENDS HttpServer

AllPages == {"status", "index", "quit", "silent"}
QuitPages == {"quit"}
SilentPages == {"silent"}
=============================================================================
