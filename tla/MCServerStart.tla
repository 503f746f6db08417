---------------------------- MODULE MCServerStart ----------------------------
(* Three clients, which are enough for one to hold a lock on a file whose   *)
(* name is gone while another waits and the third starts a server.          *)
EXTENDS ServerStart

CONSTANTS a, b, c

MCClient == {a, b, c}
MCServer == 1 .. 3
==============================================================================
