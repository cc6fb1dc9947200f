------------------------- MODULE MCServerAdmission -------------------------
(* A synchronous run_once, an event stream and a serving loop on one Server. *)
EXTENDS ServerAdmission

CONSTANTS once, live, loop
=============================================================================
