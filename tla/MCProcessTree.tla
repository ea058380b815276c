--------------------------- MODULE MCProcessTree ---------------------------
(* Model-checking instance of ProcessTree: pid 1 and two pids that can be   *)
(* reused, one of them running before the monitor starts.                   *)
EXTENDS ProcessTree

MCAtStart == {{1, 2}}
=============================================================================
