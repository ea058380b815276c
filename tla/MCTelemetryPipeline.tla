----------------------- MODULE MCTelemetryPipeline ------------------------
(* Model-checking instance of TelemetryPipeline. *)
EXTENDS TelemetryPipeline

TwoLanes == <<"proc", "net">>

(* two process events do not fit into one slot, and with the connection *)
(* an exec fills a batch                                                *)
MCPerRing == [r \in Rings |-> IF r = "proc" THEN 2 ELSE 1]

(* the first process event is a fork, the second the exec after it *)
MCTransient == {<<"proc", 1>>}
=============================================================================
