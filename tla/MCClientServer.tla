--------------------------- MODULE MCClientServer ---------------------------
(* One connection, of a client of either kind. *)
EXTENDS ClientServer

MCControls == BOOLEAN
=============================================================================
