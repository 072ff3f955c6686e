------------------------- MODULE MCSynchronousPair -------------------------
(* Constants for the run of SynchronousPair.                               *)
EXTENDS SynchronousPair

CONSTANTS client, server

MCNode == {client, server}
=============================================================================
