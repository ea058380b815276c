---------------------------- MODULE MCMpscQueue ----------------------------
(* Model-checking instance of MpscQueue; its constants are in the cfg files. *)
EXTENDS MpscQueue
=============================================================================
