------------------------- MODULE MCKeepAliveManager -------------------------
(* Constants for the runs of KeepAliveManager.                              *)
EXTENDS KeepAliveManager

MCPeriods == {2, 3}
OnePeriod == {2}
=============================================================================
