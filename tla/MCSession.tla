----------------------------- MODULE MCSession -----------------------------
(* Constants for the runs of Session.                                      *)
EXTENDS Session

CONSTANTS client, server
=============================================================================
