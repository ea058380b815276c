------------------------ MODULE MCRingBackpressure -------------------------
(* Model-checking instance of RingBackpressure.  The thresholds are scaled *)
(* to a ring of a few records so that every level is a number of records.  *)
EXTENDS RingBackpressure

(* a rule that blocks and is shed first, one shed later, one never shed *)
MCTargets == {[sev |-> LOW, block |-> TRUE], [sev |-> MEDIUM, block |-> TRUE],
              [sev |-> CRITICAL, block |-> FALSE]}
=============================================================================
