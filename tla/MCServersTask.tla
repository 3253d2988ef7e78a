---------------------------- MODULE MCServersTask ----------------------------
(* The instance of ServersTask that TLC checks; the values are in the cfg file. *)
EXTENDS ServersTask
=============================================================================
