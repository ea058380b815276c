-------------------------- MODULE MCBaselineStore --------------------------
(* Two files and a kernel parameter, two processes at a time. *)
EXTENDS BaselineStore, TLC

CONSTANTS f1, f2, k1, v1, v2, p1, p2

MCDisk0 == [f \in Paths |-> IF f = f1 THEN v1 ELSE Absent]
MCLegacy0 == [f \in Paths |-> IF f = f2 THEN v1 ELSE Absent]

Command(kind, paths, named, prefix, glob) ==
  [kind |-> kind, paths |-> paths, named |-> named, prefix |-> prefix, glob |-> glob]

MCOps ==
  {Command("snapshot", {f1, f2}, {}, {}, {}),
   Command("snapshot", {f1, f2}, {}, {f1}, {f2}),
   Command("snapshot", {f2}, {f2}, {}, {}),
   Command("delete", {f1, f2}, {}, {}, {}),
   Command("clean", {}, {}, {}, {}),
   Command("check", {f1, k1}, {}, {}, {}),
   Command("rulecheck", {f2, k1}, {}, {}, {})}
Symmetry == Permutations(Procs)
=============================================================================
