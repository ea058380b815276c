---------------------------- MODULE MCFileRules ----------------------------
(* Model-checking instance of FileRules: one file with three rules of which *)
(* the kernel keeps two, and two of which share an id and so a whitelist,   *)
(* and one file that is only in the baseline.                               *)
EXTENDS FileRules

Rule(id, mask, block, severity, wl) ==
  [id |-> id, ino |-> "conf", mask |-> mask, block |-> block,
   severity |-> severity, whitelist |-> wl]

MCRulesIn ==
  [boot  |-> <<Rule("r1", {"read", "write"}, FALSE, 3, {"tee"}),
               Rule("r2", {"write"}, TRUE, 1, {}),
               Rule("r1", {"read"}, TRUE, 2, {})>>,
   moved |-> <<Rule("r1", {"read", "write"}, FALSE, 3, {}),
               Rule("r2", {"write"}, TRUE, 1, {"dd"})>>,
   torn  |-> <<>>]

(* two processes that have one pid, one after the other *)
OnePid == [p \in Procs |-> 7]

(* The first process runs what only the second configuration whitelists; or *)
(* what only the first one does.                                            *)
MCExe0 == [p \in Procs |-> "dd"]
TrustedAtFirst == [p \in Procs |-> "tee"]
=============================================================================
