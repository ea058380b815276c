---------------------------- MODULE MCEventStore ----------------------------
(* Model-checking instance of EventStore; its constants are in the cfg file. *)
EXTENDS EventStore
=============================================================================
