------------------------- MODULE ProcessTree_proofs -------------------------
(***************************************************************************)
(* Proofs about ProcessTree for every number of pids, every size of the    *)
(* tree and every bound.                                                   *)
(*   - Identity (IInv): a node carries an exact start time only when the   *)
(*     data in it came with that time, since /proc gives ticks, which no   *)
(*     event carries; so a file event is reported under the uid of the     *)
(*     instance that raised it.                                            *)
(*   - Whose exe (ExeInv): what is read from /proc late is of the instance *)
(*     that has the pid then, so never of one before that of the event.    *)
(*   - The LRU list and the container marks (LruInv): the list holds the   *)
(*     pids of the tree once each.                                         *)
(*   - The kernel's tasks against the events still queued (EventInv): a    *)
(*     node may differ from its task only while the event that will mend   *)
(*     it waits, so with an empty queue the tree mirrors the kernel.       *)
(*   - Kinship (KinInv): a node's parent was created before it, which      *)
(*     bounds every walk towards the root.                                 *)
(***************************************************************************)
EXTENDS ProcessTree, FiniteSetTheorems, WellFoundedInduction, TLAPS

(* A node whose start time is that of generation g describes generation g. *)
Dated(n) == \A g \in Nat : n.start = Exact(g) => n.of = g

TaskType == task \in [Pids -> [gen : Nat, alive : BOOLEAN, forker : 0..N,
                               parent : 0..N]]

(* The inductive invariant.                                                *)
IInv ==
  /\ TaskType
  /\ queue \in Seq(Events)
  /\ nodes \in [Pids -> Nodes \cup {NoNode}]
  /\ \A p \in Pids : Dated(nodes[p])

(* What the steps that leave the kernel alone do to the tree.              *)
TreeOK(f) == f \in [Pids -> Nodes \cup {NoNode}] /\ \A p \in Pids : Dated(f[p])

(* A start time of /proc is never that of an event.                        *)
LEMMA TickIsNotExact == \A g, h \in Nat : Tick(g) # Exact(h) /\ Exact(h) # 0
  BY DEF Tick, Exact

LEMMA ExactIsInjective == \A g, h \in Nat : Exact(g) = Exact(h) => g = h
  BY DEF Exact

(* The pids and their bounds are natural numbers.                          *)
LEMMA PidType == N \in Nat /\ Pids \subseteq 0..N /\ Root \in Pids /\ 0 \in 0..N
  BY ProcessTreeAssumption DEF Pids, Root

LEMMA NoNodeDated == Dated(NoNode)
  BY TickIsNotExact DEF Dated, NoNode, Tick, Exact

(* A live node with a tick, or with the exact time of its own data.        *)
LEMMA LiveNodeOK ==
  ASSUME NEW ppid \in 0..N, NEW of \in Nat,
         NEW start \in {0, Tick(of), Exact(of)}, NEW exe \in Nat
  PROVE  /\ LiveNode(ppid, start, of, exe) \in Nodes
         /\ Dated(LiveNode(ppid, start, of, exe))
<1>1. start \in Nat
  BY DEF Tick, Exact
<1>2. LiveNode(ppid, start, of, exe) \in Nodes
  BY <1>1 DEF LiveNode, Nodes
<1>3. ASSUME NEW g \in Nat, start = Exact(g) PROVE of = g
  BY <1>3, TickIsNotExact, ExactIsInjective
<1> QED
  BY <1>2, <1>3 DEF Dated, LiveNode

LEMMA TickNodeOK ==
  ASSUME NEW ppid \in 0..N, NEW of \in Nat, NEW g \in Nat,
         NEW start \in {0, Tick(g)}, NEW exe \in Nat
  PROVE  /\ LiveNode(ppid, start, of, exe) \in Nodes
         /\ Dated(LiveNode(ppid, start, of, exe))
<1>1. start \in Nat
  BY DEF Tick
<1>2. LiveNode(ppid, start, of, exe) \in Nodes
  BY <1>1 DEF LiveNode, Nodes
<1>3. \A h \in Nat : start # Exact(h)
  BY TickIsNotExact
<1> QED
  BY <1>2, <1>3 DEF Dated, LiveNode

(* Whoever's executable is read, it is one of a generation.                *)
LEMMA ExeType ==
  ASSUME TaskType, NEW e \in Events, NEW old \in Nat
  PROVE  exe_path_of(e.pid) \in Nat /\ ExecExe(e, old) \in Nat
<1>1. e.pid \in Pids /\ e.gen \in Nat
  BY DEF Events
<1>2. task[e.pid].gen \in Nat
  BY <1>1 DEF TaskType
<1> QED
  BY <1>1, <1>2 DEF exe_path_of, ExecExe

(* Inserting or replacing a sound node keeps the tree sound, whichever     *)
(* node makes room for it.                                                 *)
LEMMA UpsertOK ==
  ASSUME TreeOK(nodes), NEW p \in Pids, NEW node \in Nodes, Dated(node),
         upsert(p, node)
  PROVE  TreeOK(nodes')
<1>1. NoNode \in Nodes \cup {NoNode} /\ Dated(NoNode)
  BY NoNodeDated
<1>2. CASE nodes' = [nodes EXCEPT ![p] = node]
  BY <1>2 DEF TreeOK
<1>3. ASSUME NEW v, nodes' = [nodes EXCEPT ![v] = NoNode, ![p] = node]
      PROVE  TreeOK(nodes')
  BY <1>1, <1>3 DEF TreeOK
<1> QED
  BY <1>2, <1>3 DEF upsert

LEMMA ApplyOK ==
  ASSUME TaskType, TreeOK(nodes), NEW e \in Events, apply(e)
  PROVE  TreeOK(nodes')
<1> DEFINE exact(x) == LiveNode(e.ppid, Exact(e.gen), e.gen, x)
           gone == [exact(0) EXCEPT !.st = "exited"]
<1>1. e.pid \in Pids /\ e.ppid \in 0..N /\ e.gen \in Nat
  BY DEF Events
<1>2. \A x \in Nat : exact(x) \in Nodes /\ Dated(exact(x))
  BY <1>1, LiveNodeOK
<1>x. /\ exe_path_of(e.pid) \in Nat /\ ExecExe(e, 0) \in Nat
      /\ \A x \in Nat : ExecExe(e, x) \in Nat
  BY ExeType
<1>3. gone \in Nodes /\ Dated(gone)
  BY <1>2 DEF Nodes, Dated, LiveNode
<1>4. CASE ApplyFork(e)
  <2>1. ProcStart(e.pid) \in {0, Tick(task[e.pid].gen)} /\ task[e.pid].gen \in Nat
    BY <1>1 DEF ProcStart, TaskType
  <2>2. LiveNode(e.ppid, ProcStart(e.pid), e.gen, exe_path_of(e.pid)) \in Nodes
        /\ Dated(LiveNode(e.ppid, ProcStart(e.pid), e.gen, exe_path_of(e.pid)))
    BY <2>1, <1>1, <1>x, TickNodeOK
  <2> QED
    BY <1>4, <2>2, <1>1, UpsertOK DEF ApplyFork
<1>5. CASE ApplyExec(e)
  <2>1. CASE ~InTree(e.pid)
    BY <1>5, <2>1, <1>1, <1>2, <1>x, UpsertOK DEF ApplyExec
  <2>2. CASE InTree(e.pid)
    <3> DEFINE kept == LiveNode(nodes[e.pid].ppid, Exact(e.gen), e.gen,
                            ExecExe(e, nodes[e.pid].exe))
    <3>0. nodes[e.pid] \in Nodes
      BY <1>1, <2>2 DEF TreeOK, InTree, NoNode
    <3>1. nodes[e.pid].ppid \in 0..N /\ nodes[e.pid].exe \in Nat
      BY <3>0 DEF Nodes
    <3>2. kept \in Nodes /\ Dated(kept)
      BY <3>1, <1>1, <1>x, LiveNodeOK
    <3>3. nodes' = [nodes EXCEPT ![e.pid] = kept]
      BY <1>5, <2>2 DEF ApplyExec
    <3> HIDE DEF kept
    <3> QED
      BY <3>2, <3>3, <1>1 DEF TreeOK
  <2> QED
    BY <2>1, <2>2
<1>6. CASE ApplyExit(e)
  <2>1. CASE ~InTree(e.pid)
    BY <1>6, <2>1, <1>1, <1>3, UpsertOK DEF ApplyExit
  <2>2. CASE InTree(e.pid)
    <3> DEFINE old == nodes[e.pid]
               dead == [[old EXCEPT !.st = "exited"] EXCEPT !.ripe = FALSE]
    <3>1. old \in Nodes /\ Dated(old)
      BY <2>2, <1>1 DEF TreeOK, InTree, NoNode
    <3>2. dead \in Nodes /\ dead.start = old.start /\ dead.of = old.of
      BY <3>1 DEF Nodes
    <3>3. nodes' = [nodes EXCEPT ![e.pid] = dead]
      BY <1>6, <2>2, <1>1 DEF ApplyExit, TreeOK
    <3>4. Dated(dead)
      BY <3>1, <3>2 DEF Dated
    <3> HIDE DEF dead, old
    <3> QED
      BY <3>2, <3>3, <3>4, <1>1 DEF TreeOK
  <2> QED
    BY <2>1, <2>2
<1> QED
  BY <1>4, <1>5, <1>6 DEF apply

(* An event the kernel emits is of the type of the queue.                  *)
LEMMA EmitOK ==
  ASSUME queue \in Seq(Events), NEW kind \in {"fork", "exec", "exit"},
         NEW p \in Pids, NEW ppid \in 0..N, NEW gen \in Nat, NEW named \in BOOLEAN,
         Emit(kind, p, ppid, gen, named)
  PROVE  queue' \in Seq(Events)
<1> DEFINE ev == [kind |-> kind, pid |-> p, ppid |-> ppid, gen |-> gen,
                  named |-> named]
<1>1. ev \in Events
  BY DEF Events
<1>2. UNCHANGED queue \/ queue' = Append(queue, ev)
  BY DEF Emit
<1> HIDE DEF ev
<1> QED
  BY <1>1, <1>2

LEMMA InitIInv == Init => IInv
<1> SUFFICES ASSUME Init PROVE IInv
  OBVIOUS
<1>1. TaskType
  BY PidType DEF Init, TaskType
<1>2. queue \in Seq(Events) /\ nodes \in [Pids -> Nodes \cup {NoNode}]
  BY DEF Init
<1>3. \A p \in Pids : Dated(nodes[p])
  BY NoNodeDated DEF Init
<1> QED
  BY <1>1, <1>2, <1>3 DEF IInv

(* The steps of the kernel.                                                *)
LEMMA KernelIInv ==
  ASSUME IInv, (\E p, c \in Pids : Fork(p, c)) \/ (\E p \in Pids : Exec(p) \/ Exit(p))
  PROVE  IInv'
<1>0. \A p \in Pids : /\ task[p] \in [gen : Nat, alive : BOOLEAN, forker : 0..N,
                                      parent : 0..N]
                      /\ p \in 0..N
  BY PidType DEF IInv, TaskType
<1>1. UNCHANGED nodes
  BY DEF Fork, Exec, Exit, tree
<1>2. ASSUME NEW p \in Pids, NEW c \in Pids, Fork(p, c)
      PROVE  TaskType' /\ queue' \in Seq(Events)
  <2>1. task[c].gen + 1 \in Nat
    BY <1>0
  <2>2. TaskType'
    BY <1>0, <1>2, <2>1 DEF Fork, IInv, TaskType
  <2>3. queue' \in Seq(Events)
    BY <1>0, <1>2, <2>1, EmitOK DEF Fork, IInv
  <2> QED
    BY <2>2, <2>3
<1>3. ASSUME NEW p \in Pids, Exec(p)
      PROVE  TaskType' /\ queue' \in Seq(Events)
  BY <1>0, <1>3, EmitOK DEF Exec, IInv, TaskType
<1>4. ASSUME NEW p \in Pids, Exit(p)
      PROVE  TaskType' /\ queue' \in Seq(Events)
  <2>1. Root \in 0..N
    BY PidType
  <2>2. TaskType'
    BY <1>0, <1>4, <2>1 DEF Exit, TaskType
  <2>3. queue' \in Seq(Events)
    BY <1>0, <1>4, EmitOK DEF Exit, IInv
  <2> QED
    BY <2>2, <2>3
<1> QED
  BY <1>1, <1>2, <1>3, <1>4 DEF IInv

(* The steps of the consumer that change the tree.                         *)
LEMMA TreeIInv ==
  ASSUME IInv, bootstrap \/ Consume \/ Ripen \/ sweep_tombstones
  PROVE  IInv'
<1>0. TaskType /\ queue \in Seq(Events) /\ TreeOK(nodes)
  BY DEF IInv, TreeOK
<1>1. CASE bootstrap
  <2>0. UNCHANGED <<task, queue>> /\ scan \in Pids
    BY <1>1 DEF bootstrap, kernel
  <2>1. task[scan].gen \in Nat /\ task[scan].parent \in 0..N /\ exe_path_of(scan) \in Nat
    BY <1>0, <2>0 DEF TaskType, exe_path_of
  <2>2. LiveNode(task[scan].parent, Tick(task[scan].gen), task[scan].gen,
                    exe_path_of(scan)) \in Nodes
        /\ Dated(LiveNode(task[scan].parent, Tick(task[scan].gen), task[scan].gen,
                    exe_path_of(scan)))
    BY <2>1, LiveNodeOK
  <2>3. LiveNode(0, 0, 0, 0) \in Nodes /\ Dated(LiveNode(0, 0, 0, 0))
    BY PidType, LiveNodeOK
  <2>4. TreeOK(nodes')
    <3>1. CASE UNCHANGED tree
      BY <3>1, <1>0 DEF tree, TreeOK
    <3>2. CASE upsert(scan, LiveNode(task[scan].parent, Tick(task[scan].gen),
                                     task[scan].gen, exe_path_of(scan)))
      BY <3>2, <1>0, <2>0, <2>2, UpsertOK
    <3>3. CASE upsert(scan, LiveNode(0, 0, 0, 0))
      BY <3>3, <1>0, <2>0, <2>3, UpsertOK
    <3> QED
      BY <1>1, <3>1, <3>2, <3>3 DEF bootstrap
  <2> QED
    BY <1>0, <2>0, <2>4 DEF IInv, TreeOK, TaskType
<1>2. CASE Consume
  <2>1. Head(queue) \in Events /\ Tail(queue) \in Seq(Events)
    BY <1>0, <1>2 DEF Consume
  <2>2. TreeOK(nodes')
    BY <1>0, <1>2, <2>1, ApplyOK DEF Consume
  <2> QED
    BY <1>0, <1>2, <2>1, <2>2 DEF Consume, IInv, TreeOK, TaskType
<1>3. CASE Ripen
  <2>1. ASSUME NEW p \in Pids
        PROVE  nodes'[p] \in Nodes \cup {NoNode} /\ Dated(nodes'[p])
    <3>1. nodes[p] \in Nodes \cup {NoNode} /\ Dated(nodes[p])
      BY <1>0 DEF TreeOK
    <3>2. CASE nodes[p].st = "exited"
      <4>1. nodes[p] \in Nodes
        BY <3>1, <3>2 DEF NoNode
      <4>2. nodes'[p] = [nodes[p] EXCEPT !.ripe = TRUE]
        BY <1>3, <3>2 DEF Ripen
      <4>3. nodes'[p] \in Nodes /\ nodes'[p].start = nodes[p].start
            /\ nodes'[p].of = nodes[p].of
        BY <4>1, <4>2 DEF Nodes
      <4> QED
        BY <3>1, <4>3 DEF Dated
    <3>3. CASE nodes[p].st # "exited"
      BY <1>3, <3>1, <3>3 DEF Ripen
    <3> QED
      BY <3>2, <3>3
  <2>2. nodes' = [p \in Pids |-> nodes'[p]]
    BY <1>3 DEF Ripen
  <2>3. TreeOK(nodes')
    BY <2>1, <2>2 DEF TreeOK
  <2> QED
    BY <1>0, <1>3, <2>3 DEF Ripen, kernel, IInv, TreeOK, TaskType
<1>4. CASE sweep_tombstones
  <2>1. TreeOK(nodes')
    BY <1>0, <1>4, NoNodeDated DEF sweep_tombstones, TreeOK
  <2> QED
    BY <1>0, <1>4, <2>1 DEF sweep_tombstones, kernel, IInv, TreeOK, TaskType
<1> QED
  BY <1>1, <1>2, <1>3, <1>4

LEMMA OthersIInv ==
  ASSUME IInv, (\E f \in FileEvents : ConsumeFile(f)) \/ UNCHANGED vars
  PROVE  IInv'
<1>1. UNCHANGED <<task, queue, nodes>>
  BY DEF ConsumeFile, kernel, tree, vars
<1> QED
  BY <1>1 DEF IInv, TaskType, Dated

THEOREM StepIInv == IInv /\ [Next]_vars => IInv'
  BY KernelIInv, TreeIInv, OthersIInv DEF Next

-----------------------------------------------------------------------------
(* Induction: the library's theorems take the statement as an operator; as *)
(* a set of numbers it can be proved once and cited.                       *)

LEMMA LeastNat ==
  ASSUME NEW T \in SUBSET Nat, T # {}
  PROVE  \E n \in T : \A m \in T : n <= m
<1> DEFINE R == OpToRel(<, Nat)
<1>1. IsWellFoundedOn(R, Nat)
  BY NatLessThanWellFounded, Zenon
<1>2. PICK n \in T : \A m \in T : <<m, n>> \notin R
  <2> HIDE DEF R
  <2> QED
    BY <1>1, WFMin, Zenon
<1>3. \A m \in T : ~(m < n)
  BY <1>2 DEF OpToRel
<1> QED
  BY <1>3

LEMMA Induct ==
  ASSUME NEW T, 0 \in T, \A n \in Nat : n \in T => n + 1 \in T
  PROVE  Nat \subseteq T
<1> SUFFICES ASSUME Nat \ T # {} PROVE FALSE
  OBVIOUS
<1>1. PICK n \in Nat \ T : \A m \in Nat \ T : n <= m
  BY LeastNat
<1>2. n - 1 \in Nat /\ n - 1 \in T /\ n = (n - 1) + 1
  BY <1>1
<1> QED
  BY <1>2

(* A function may be defined by its first value and a step.                *)
IsRecursive(g, b, st, n) ==
  g = [i \in 0..n |-> IF i = 0 THEN b ELSE st[i][g[i - 1]]]

LEMMA Recursion ==
  ASSUME NEW D, NEW b \in D, NEW st \in [Nat -> [D -> D]], NEW n \in Nat
  PROVE  \E g \in [0..n -> D] : IsRecursive(g, b, st, n)
<1> DEFINE Def(g, m) == IsRecursive(g, b, st, m)
           T == {m \in Nat : \E g \in [0..m -> D] : Def(g, m)}
<1>1. 0 \in T
  <2> DEFINE g == [i \in 0..0 |-> b]
  <2>1. g \in [0..0 -> D] /\ Def(g, 0)
    BY DEF IsRecursive
  <2> QED
    BY <2>1
<1>2. ASSUME NEW m \in Nat, m \in T PROVE m + 1 \in T
  <2>1. PICK g \in [0..m -> D] : Def(g, m)
    BY <1>2
  <2> DEFINE h == [i \in 0..(m + 1) |-> IF i = m + 1 THEN st[m + 1][g[m]] ELSE g[i]]
  <2>2. h \in [0..(m + 1) -> D]
    BY <1>2
  <2>3. ASSUME NEW i \in 0..(m + 1)
        PROVE  h[i] = IF i = 0 THEN b ELSE st[i][h[i - 1]]
    <3>1. CASE i = m + 1
      <4>1. h[m] = g[m] /\ m + 1 # 0 /\ (m + 1) - 1 = m
        BY <1>2
      <4> QED
        BY <3>1, <4>1
    <3>2. CASE i \in 0..m
      <4>1. i # m + 1 /\ h[i] = g[i] /\ (i # 0 => i - 1 \in 0..m /\ i - 1 # m + 1)
        BY <1>2, <3>2
      <4>2. g[i] = IF i = 0 THEN b ELSE st[i][g[i - 1]]
        BY <2>1, <3>2 DEF IsRecursive
      <4>3. i # 0 => h[i - 1] = g[i - 1]
        BY <4>1
      <4> QED
        BY <4>1, <4>2, <4>3
    <3> QED
      BY <3>1, <3>2
  <2>4. Def(h, m + 1)
    BY <2>2, <2>3 DEF IsRecursive
  <2>5. m + 1 \in Nat
    OBVIOUS
  <2> HIDE DEF h, Def
  <2> QED
    BY <2>2, <2>4, <2>5
<1> HIDE DEF T
<1>3. n \in T
  BY <1>1, <1>2, Induct
<1> QED
  BY <1>3 DEF T

-----------------------------------------------------------------------------
(* The list of the tree. *)

Elems(s)  == {s[i] : i \in 1..Len(s)}
Simple(s) == \A i, j \in 1..Len(s) : s[i] = s[j] => i = j

LEMMA ElemsCardinality ==
  ASSUME NEW D, NEW s \in Seq(D), Simple(s)
  PROVE  IsFiniteSet(Elems(s)) /\ Cardinality(Elems(s)) = Len(s)
<1>1. /\ Len(s) \in Nat /\ s \in [1..Len(s) -> Elems(s)]
      /\ \A i, j \in 1..Len(s) : s[i] = s[j] => i = j
      /\ \A e \in Elems(s) : \E i \in 1..Len(s) : s[i] = e
  BY DEF Elems, Simple
<1>2. s \in Bijection(1..Len(s), Elems(s))
  BY <1>1 DEF Bijection, Injection, Surjection, IsInjective
<1>3. ExistsBijection(1..Len(s), Elems(s))
  BY <1>2 DEF ExistsBijection
<1> QED
  BY <1>1, <1>3, FS_NatBijection, FS_CountingElements

LEMMA AppendElems ==
  ASSUME NEW D, NEW s \in Seq(D), NEW e \in D
  PROVE  /\ Append(s, e) \in Seq(D) /\ Len(Append(s, e)) = Len(s) + 1
         /\ Elems(Append(s, e)) = Elems(s) \cup {e}
         /\ (Simple(s) /\ e \notin Elems(s)) => Simple(Append(s, e))
<1> DEFINE t == Append(s, e)
<1>1. /\ t \in Seq(D) /\ Len(t) = Len(s) + 1 /\ Len(s) \in Nat
      /\ \A i \in 1..Len(s) : t[i] = s[i]
      /\ t[Len(s) + 1] = e
  OBVIOUS
<1> HIDE DEF t
<1>2. Elems(t) = Elems(s) \cup {e}
  BY <1>1 DEF Elems
<1>3. ASSUME Simple(s), e \notin Elems(s), NEW i \in 1..Len(t), NEW j \in 1..Len(t),
             t[i] = t[j]
      PROVE  i = j
  <2>1. CASE i \in 1..Len(s) /\ j \in 1..Len(s)
    BY <1>1, <1>3, <2>1 DEF Simple
  <2>2. CASE i = Len(s) + 1 \/ j = Len(s) + 1
    BY <1>1, <1>3, <2>2 DEF Elems
  <2> QED
    BY <1>1, <2>1, <2>2
<1>4. (Simple(s) /\ e \notin Elems(s)) => Simple(t)
  BY <1>3 DEF Simple
<1> QED
  BY <1>1, <1>2, <1>4 DEF t

LEMMA PushFront ==
  ASSUME NEW D, NEW s \in Seq(D), Simple(s), NEW e \in D, e \notin Elems(s)
  PROVE  /\ <<e>> \o s \in Seq(D) /\ Len(<<e>> \o s) = Len(s) + 1
         /\ Elems(<<e>> \o s) = Elems(s) \cup {e} /\ Simple(<<e>> \o s)
<1> DEFINE t == <<e>> \o s
<1>1. /\ t \in Seq(D) /\ Len(t) = Len(s) + 1 /\ Len(s) \in Nat
      /\ \A i \in 1..Len(s) : t[i + 1] = s[i]
      /\ t[1] = e
  OBVIOUS
<1> HIDE DEF t
<1>2. \A i \in 1..Len(t) : i = 1 \/ (i - 1 \in 1..Len(s) /\ t[i] = s[i - 1])
  <2> SUFFICES ASSUME NEW i \in 1..Len(t), i # 1
               PROVE  i - 1 \in 1..Len(s) /\ t[i] = s[i - 1]
    OBVIOUS
  <2>1. i - 1 \in 1..Len(s) /\ (i - 1) + 1 = i
    BY <1>1
  <2> QED
    BY <1>1, <2>1
<1>3. Elems(t) \subseteq Elems(s) \cup {e}
  BY <1>1, <1>2 DEF Elems
<1>4. Elems(s) \cup {e} \subseteq Elems(t)
  <2>1. 1 \in 1..Len(t) /\ \A i \in 1..Len(s) : i + 1 \in 1..Len(t)
    BY <1>1
  <2> QED
    BY <1>1, <2>1 DEF Elems
<1>5. ASSUME NEW i \in 1..Len(t), NEW j \in 1..Len(t), t[i] = t[j]
      PROVE  i = j
  <2>1. CASE i # 1 /\ j # 1
    <3>1. i - 1 = j - 1
      BY <1>2, <1>5, <2>1 DEF Simple
    <3> QED
      BY <3>1
  <2>2. CASE i = 1 \/ j = 1
    BY <1>1, <1>2, <1>5, <2>2 DEF Elems
  <2> QED
    BY <2>1, <2>2
<1> QED
  BY <1>1, <1>3, <1>4, <1>5 DEF t, Simple

LEMMA DropLast ==
  ASSUME NEW D, NEW s \in Seq(D), Simple(s), s # <<>>
  PROVE  LET t == SubSeq(s, 1, Len(s) - 1)
         IN  /\ t \in Seq(D) /\ Len(t) = Len(s) - 1 /\ Simple(t)
             /\ Elems(t) = Elems(s) \ {s[Len(s)]} /\ s[Len(s)] \in Elems(s)
<1> DEFINE t == SubSeq(s, 1, Len(s) - 1)
<1>1. ASSUME NEW k \in 0..Len(s)
      PROVE  /\ SubSeq(s, 1, k) \in Seq(D) /\ Len(SubSeq(s, 1, k)) = k
             /\ \A i \in 1..k : SubSeq(s, 1, k)[i] = s[i]
  OBVIOUS
<1>2. Len(s) \in Nat /\ Len(s) > 0 /\ Len(s) - 1 \in 0..Len(s)
  OBVIOUS
<1>3. /\ Len(s) \in Nat /\ Len(s) > 0
      /\ t \in Seq(D) /\ Len(t) = Len(s) - 1
      /\ \A i \in 1..(Len(s) - 1) : t[i] = s[i]
  BY <1>1, <1>2
<1> HIDE DEF t
<1>4. Simple(t)
  BY <1>3 DEF Simple
<1>5. Elems(t) = Elems(s) \ {s[Len(s)]}
  <2>1. Elems(t) \subseteq Elems(s) \ {s[Len(s)]}
    BY <1>3 DEF Elems, Simple
  <2>2. \A i \in 1..Len(s) : i = Len(s) \/ i \in 1..Len(t)
    BY <1>3
  <2>3. Elems(s) \ {s[Len(s)]} \subseteq Elems(t)
    BY <1>3, <2>2 DEF Elems
  <2> QED
    BY <2>1, <2>3
<1>6. s[Len(s)] \in Elems(s)
  <2>1. Len(s) \in 1..Len(s)
    BY <1>3
  <2> QED
    BY <2>1 DEF Elems
<1>7. /\ t \in Seq(D) /\ Len(t) = Len(s) - 1 /\ Simple(t)
      /\ Elems(t) = Elems(s) \ {s[Len(s)]} /\ s[Len(s)] \in Elems(s)
  BY <1>3, <1>4, <1>5, <1>6
<1> QED
  BY <1>7 DEF t

(* What is left of a list is what was not to be erased, once each.         *)
LEMMA WithoutFacts ==
  ASSUME NEW D, NEW s \in Seq(D), NEW S, Simple(s)
  PROVE  /\ Without(s, S) \in Seq(D) /\ Simple(Without(s, S))
         /\ Elems(Without(s, S)) = Elems(s) \ S
<1> DEFINE Def(g) == g = [i \in 0..Len(s) |->
                            IF i = 0 THEN <<>>
                            ELSE IF s[i] \in S THEN g[i - 1] ELSE Append(g[i - 1], s[i])]
           st == [i \in Nat |-> [w \in Seq(D) |->
                    IF i \in 1..Len(s) /\ s[i] \notin S THEN Append(w, s[i]) ELSE w]]
<1>0. Len(s) \in Nat
  OBVIOUS
<1>1. \E g : Def(g)
  <2>1. st \in [Nat -> [Seq(D) -> Seq(D)]]
    OBVIOUS
  <2>2. <<>> \in Seq(D)
    OBVIOUS
  <2> HIDE DEF st
  <2>3. PICK g \in [0..Len(s) -> Seq(D)] : IsRecursive(g, <<>>, st, Len(s))
    BY <1>0, <2>1, <2>2, Recursion
  <2>4. ASSUME NEW i \in 0..Len(s)
        PROVE  g[i] = IF i = 0 THEN <<>>
                      ELSE IF s[i] \in S THEN g[i - 1] ELSE Append(g[i - 1], s[i])
    <3>1. CASE i = 0
      BY <2>3, <3>1 DEF IsRecursive
    <3>2. CASE i # 0
      <4>1. i \in Nat /\ i \in 1..Len(s) /\ i - 1 \in 0..Len(s)
        BY <1>0, <3>2
      <4>2. g[i] = st[i][g[i - 1]] /\ g[i - 1] \in Seq(D)
        BY <2>3, <3>2, <4>1 DEF IsRecursive
      <4>3. st[i][g[i - 1]] = IF s[i] \notin S THEN Append(g[i - 1], s[i]) ELSE g[i - 1]
        BY <4>1, <4>2 DEF st
      <4> QED
        BY <3>2, <4>2, <4>3
    <3> QED
      BY <3>1, <3>2
  <2>5. Def(g)
    BY <2>3, <2>4 DEF IsRecursive
  <2> QED
    BY <2>5
<1> DEFINE keep == CHOOSE g : Def(g)
<1>2. Without(s, S) = keep[Len(s)]
  BY DEF Without
<1>3. Def(keep)
  BY <1>1
<1> HIDE DEF keep
<1>4. /\ keep[0] = <<>>
      /\ \A i \in 1..Len(s) :
           keep[i] = IF s[i] \in S THEN keep[i - 1] ELSE Append(keep[i - 1], s[i])
  <2>1. ASSUME NEW i \in 0..Len(s)
        PROVE  keep[i] = IF i = 0 THEN <<>>
                         ELSE IF s[i] \in S THEN keep[i - 1]
                         ELSE Append(keep[i - 1], s[i])
    BY <1>3
  <2> HIDE DEF Def
  <2>2. 0 \in 0..Len(s) /\ \A i \in 1..Len(s) : i \in 0..Len(s) /\ i # 0
    BY <1>0
  <2> QED
    BY <2>1, <2>2
<1> HIDE DEF Def
<1> DEFINE T == {n \in Nat : n <= Len(s) =>
                    /\ keep[n] \in Seq(D) /\ Simple(keep[n])
                    /\ Elems(keep[n]) = {s[i] : i \in 1..n} \ S}
<1>5. 0 \in T
  <2>1. 1..0 = {} /\ Len(<<>>) = 0 /\ <<>> \in Seq(D)
    OBVIOUS
  <2>2. Elems(<<>>) = {} /\ Simple(<<>>) /\ {s[i] : i \in 1..0} = {}
    BY <2>1 DEF Elems, Simple
  <2> QED
    BY <1>4, <2>1, <2>2
<1>6. ASSUME NEW n \in Nat, n \in T PROVE n + 1 \in T
  <2> SUFFICES ASSUME n + 1 <= Len(s)
               PROVE  /\ keep[n + 1] \in Seq(D) /\ Simple(keep[n + 1])
                      /\ Elems(keep[n + 1]) = {s[i] : i \in 1..(n + 1)} \ S
    OBVIOUS
  <2>1. n + 1 \in 1..Len(s) /\ (n + 1) - 1 = n /\ n <= Len(s)
    BY <1>0
  <2>2. /\ keep[n] \in Seq(D) /\ Simple(keep[n])
        /\ Elems(keep[n]) = {s[i] : i \in 1..n} \ S
    BY <1>6, <2>1
  <2>3. keep[n + 1] = IF s[n + 1] \in S THEN keep[n] ELSE Append(keep[n], s[n + 1])
    BY <1>4, <2>1
  <2>4. s[n + 1] \in D /\ s[n + 1] \notin {s[i] : i \in 1..n}
    BY <2>1 DEF Simple
  <2>5. {s[i] : i \in 1..(n + 1)} = {s[i] : i \in 1..n} \cup {s[n + 1]}
    <3>1. \A i : i \in 1..(n + 1) <=> i \in 1..n \/ i = n + 1
      OBVIOUS
    <3> QED
      BY <3>1
  <2>6. CASE s[n + 1] \in S
    BY <2>2, <2>3, <2>5, <2>6
  <2>7. CASE s[n + 1] \notin S
    <3>1. s[n + 1] \notin Elems(keep[n])
      BY <2>2, <2>4
    <3>2. /\ keep[n + 1] \in Seq(D) /\ Simple(keep[n + 1])
          /\ Elems(keep[n + 1]) = Elems(keep[n]) \cup {s[n + 1]}
      BY <2>2, <2>3, <2>4, <2>7, <3>1, AppendElems
    <3> QED
      BY <2>2, <2>5, <2>7, <3>2
  <2> QED
    BY <2>6, <2>7
<1>7. Len(s) \in T
  <2> HIDE DEF T
  <2> QED
    BY <1>0, <1>5, <1>6, Induct
<1> QED
  BY <1>0, <1>2, <1>7 DEF Elems

-----------------------------------------------------------------------------
(* The containers of the tree. *)

TreeSet == {p \in Pids : InTree(p)}

(* The list names every node once and nothing else.                        *)
LruInv ==
  /\ kMaxNodes \in Sizes
  /\ lru \in Seq(Pids) /\ Simple(lru)
  /\ Elems(lru) = TreeSet
  /\ Len(lru) <= kMaxNodes

LEMMA LruCounts ==
  ASSUME LruInv
  PROVE  /\ IsFiniteSet(TreeSet) /\ Cardinality(TreeSet) = Len(lru)
         /\ Len(lru) \in Nat /\ kMaxNodes \in Nat /\ kMaxNodes > 0
  BY ElemsCardinality, ProcessTreeAssumption DEF LruInv

(* Putting a pid in front of the list without it.                          *)
LEMMA Fronted ==
  ASSUME LruInv, NEW p \in Pids, touch_lru(p)
  PROVE  /\ lru' \in Seq(Pids) /\ Simple(lru') /\ Elems(lru') = TreeSet \cup {p}
         /\ IsFiniteSet(TreeSet \cup {p}) /\ Len(lru') = Cardinality(TreeSet \cup {p})
<1>1. /\ Others(p) \in Seq(Pids) /\ Simple(Others(p))
      /\ Elems(Others(p)) = TreeSet \ {p}
  BY WithoutFacts DEF LruInv, Others
<1>2. /\ lru' \in Seq(Pids) /\ Simple(lru') /\ Elems(lru') = TreeSet \cup {p}
  BY <1>1, PushFront DEF touch_lru
<1> QED
  BY <1>2, ElemsCardinality

(* A node that is used again keeps the containers as they were.            *)
LEMMA TouchLru ==
  ASSUME LruInv, NEW p \in Pids, InTree(p), touch_lru(p),
         UNCHANGED kMaxNodes, TreeSet' = TreeSet
  PROVE  LruInv'
<1>1. TreeSet \cup {p} = TreeSet
  BY DEF TreeSet
<1> QED
  BY <1>1, Fronted, LruCounts DEF LruInv

(* The nodes an insertion leaves.                                          *)
LEMMA UpsertSet ==
  ASSUME nodes \in [Pids -> Nodes \cup {NoNode}], NEW p \in Pids, NEW node \in Nodes
  PROVE  /\ nodes' = [nodes EXCEPT ![p] = node] => TreeSet' = TreeSet \cup {p}
         /\ \A v \in Pids \ {p} :
              nodes' = [nodes EXCEPT ![v] = NoNode, ![p] = node]
                => TreeSet' = (TreeSet \ {v}) \cup {p}
<1>1. node.st # "none" /\ NoNode.st = "none"
  BY DEF Nodes, NoNode
<1>2. ASSUME nodes' = [nodes EXCEPT ![p] = node] PROVE TreeSet' = TreeSet \cup {p}
  BY <1>1, <1>2 DEF TreeSet, InTree
<1>3. ASSUME NEW v \in Pids \ {p}, nodes' = [nodes EXCEPT ![v] = NoNode, ![p] = node]
      PROVE  TreeSet' = (TreeSet \ {v}) \cup {p}
  BY <1>1, <1>3 DEF TreeSet, InTree
<1> QED
  BY <1>2, <1>3

LEMMA UpsertLru ==
  ASSUME LruInv, nodes \in [Pids -> Nodes \cup {NoNode}],
         NEW p \in Pids, NEW node \in Nodes, upsert(p, node), UNCHANGED kMaxNodes
  PROVE  LruInv'
<1> DEFINE size == Cardinality({q \in Pids : InTree(q)})
           victim == lru[Len(lru)]
<1>1. size = Len(lru) /\ Len(lru) <= kMaxNodes
  BY LruCounts DEF LruInv, TreeSet
<1>2. CASE InTree(p) \/ size < kMaxNodes
  <2>1. nodes' = [nodes EXCEPT ![p] = node] /\ touch_lru(p)
    BY <1>2 DEF upsert
  <2>2. TreeSet' = TreeSet \cup {p}
    BY <2>1, UpsertSet
  <2>3. Len(lru') <= kMaxNodes
    <3>1. CASE InTree(p)
      <4>1. TreeSet \cup {p} = TreeSet
        BY <3>1 DEF TreeSet
      <4> QED
        BY <1>1, <2>1, <4>1, Fronted, LruCounts
    <3>2. CASE ~InTree(p)
      <4>1. p \notin TreeSet
        BY <3>2 DEF TreeSet
      <4>2. Cardinality(TreeSet \cup {p}) = Cardinality(TreeSet) + 1
        BY <4>1, LruCounts, FS_AddElement
      <4>3. Len(lru) < kMaxNodes
        BY <1>1, <1>2, <3>2
      <4>4. Len(lru') = Cardinality(TreeSet \cup {p})
        BY <2>1, Fronted
      <4>5. Cardinality(TreeSet) = Len(lru) /\ Len(lru) \in Nat /\ kMaxNodes \in Nat
        BY LruCounts
      <4> QED
        BY <4>2, <4>3, <4>4, <4>5
    <3> QED
      BY <3>1, <3>2
  <2> QED
    BY <2>1, <2>2, <2>3, Fronted DEF LruInv
<1>3. CASE ~(InTree(p) \/ size < kMaxNodes)
  <2>1. /\ nodes' = [nodes EXCEPT ![victim] = NoNode, ![p] = node]
        /\ lru' = <<p>> \o SubSeq(lru, 1, Len(lru) - 1)
    BY <1>3 DEF upsert
  <2>2. lru # <<>> /\ Len(lru) = kMaxNodes
    BY <1>1, <1>3, LruCounts
  <2> DEFINE rest == SubSeq(lru, 1, Len(lru) - 1)
  <2>3. /\ rest \in Seq(Pids) /\ Simple(rest)
        /\ Elems(rest) = TreeSet \ {victim} /\ Len(rest) = Len(lru) - 1
        /\ victim \in TreeSet
    BY <2>2, DropLast DEF LruInv
  <2>4. p \notin TreeSet /\ victim \in Pids \ {p}
    BY <1>3, <2>3 DEF TreeSet
  <2>5. TreeSet' = (TreeSet \ {victim}) \cup {p}
    BY <2>1, <2>4, UpsertSet
  <2>6. /\ lru' \in Seq(Pids) /\ Simple(lru')
        /\ Elems(lru') = (TreeSet \ {victim}) \cup {p}
        /\ Len(lru') = Len(rest) + 1
    <3>1. p \notin Elems(rest) /\ lru' = <<p>> \o rest
      BY <2>1, <2>3, <2>4
    <3> HIDE DEF rest
    <3> QED
      BY <2>3, <3>1, PushFront
  <2>7. Len(lru') <= kMaxNodes
    BY <2>2, <2>3, <2>6, LruCounts
  <2> QED
    BY <2>5, <2>6, <2>7 DEF LruInv
<1> QED
  BY <1>2, <1>3

LEMMA ApplyLru ==
  ASSUME IInv, LruInv, NEW e \in Events, apply(e)
  PROVE  LruInv'
<1> DEFINE exact(x) == LiveNode(e.ppid, Exact(e.gen), e.gen, x)
           gone == [exact(0) EXCEPT !.st = "exited"]
<1>1. /\ e.pid \in Pids /\ e.ppid \in 0..N /\ e.gen \in Nat /\ UNCHANGED kMaxNodes
      /\ nodes \in [Pids -> Nodes \cup {NoNode}]
  BY DEF Events, apply, IInv
<1>x. exe_path_of(e.pid) \in Nat /\ ExecExe(e, 0) \in Nat
  BY ExeType DEF IInv
<1>2. exact(ExecExe(e, 0)) \in Nodes /\ gone \in Nodes
  <2>1. \A x \in Nat : exact(x) \in Nodes
    BY <1>1, LiveNodeOK
  <2> QED
    BY <1>x, <2>1 DEF Nodes
<1>3. CASE ApplyFork(e)
  <2>1. ProcStart(e.pid) \in {0, Tick(task[e.pid].gen)} /\ task[e.pid].gen \in Nat
    BY <1>1 DEF ProcStart, IInv, TaskType
  <2>2. LiveNode(e.ppid, ProcStart(e.pid), e.gen, exe_path_of(e.pid)) \in Nodes
    BY <2>1, <1>1, <1>x, TickNodeOK
  <2> QED
    BY <1>1, <1>3, <2>2, UpsertLru DEF ApplyFork
<1>4. CASE ApplyExec(e)
  <2>1. CASE ~InTree(e.pid)
    BY <1>1, <1>2, <1>4, <2>1, UpsertLru DEF ApplyExec
  <2>2. CASE InTree(e.pid)
    <3> DEFINE kept == LiveNode(nodes[e.pid].ppid, Exact(e.gen), e.gen,
                            ExecExe(e, nodes[e.pid].exe))
    <3>1. nodes' = [nodes EXCEPT ![e.pid] = kept] /\ touch_lru(e.pid)
      BY <1>4, <2>2 DEF ApplyExec
    <3>2. kept.st = "live"
      BY DEF LiveNode
    <3> HIDE DEF kept
    <3>3. TreeSet' = TreeSet
      BY <1>1, <2>2, <3>1, <3>2 DEF TreeSet, InTree
    <3> QED
      BY <1>1, <2>2, <3>1, <3>3, TouchLru
  <2> QED
    BY <2>1, <2>2
<1>5. CASE ApplyExit(e)
  <2>1. CASE ~InTree(e.pid)
    BY <1>1, <1>2, <1>5, <2>1, UpsertLru DEF ApplyExit
  <2>2. CASE InTree(e.pid)
    <3> DEFINE dead == [[nodes[e.pid] EXCEPT !.st = "exited"] EXCEPT !.ripe = FALSE]
    <3>1. nodes' = [nodes EXCEPT ![e.pid] = dead] /\ touch_lru(e.pid)
      BY <1>1, <1>5, <2>2 DEF ApplyExit
    <3>2. dead.st = "exited"
      BY <1>1, <2>2 DEF Nodes, InTree, NoNode
    <3> HIDE DEF dead
    <3>3. TreeSet' = TreeSet
      BY <1>1, <2>2, <3>1, <3>2 DEF TreeSet, InTree
    <3> QED
      BY <1>1, <2>2, <3>1, <3>3, TouchLru
  <2> QED
    BY <2>1, <2>2
<1> QED
  BY <1>3, <1>4, <1>5 DEF apply

LEMMA StepLru == IInv /\ LruInv /\ [Next]_vars => LruInv'
<1> SUFFICES ASSUME IInv, LruInv, [Next]_vars PROVE LruInv'
  OBVIOUS
<1>1. CASE UNCHANGED <<kMaxNodes, nodes, lru>>
  BY <1>1 DEF LruInv, TreeSet, InTree
<1>2. CASE bootstrap
  <2>1. /\ scan \in Pids /\ UNCHANGED kMaxNodes
        /\ task[scan].gen \in Nat /\ task[scan].parent \in 0..N
        /\ exe_path_of(scan) \in Nat
    BY <1>2 DEF bootstrap, IInv, TaskType, exe_path_of
  <2>2. /\ LiveNode(task[scan].parent, Tick(task[scan].gen), task[scan].gen,
                    exe_path_of(scan)) \in Nodes
        /\ LiveNode(0, 0, 0, 0) \in Nodes
    BY <2>1, LiveNodeOK, PidType
  <2> QED
    BY <1>1, <1>2, <2>1, <2>2, UpsertLru DEF bootstrap, IInv, tree
<1>3. CASE Consume
  <2>1. Head(queue) \in Events
    BY <1>3 DEF Consume, IInv
  <2> QED
    BY <1>3, <2>1, ApplyLru DEF Consume
<1>4. CASE Ripen
  <2>1. TreeSet' = TreeSet
    <3>1. \A p \in Pids : nodes[p].st = "exited" =>
             [nodes[p] EXCEPT !.ripe = TRUE].st = "exited"
      BY DEF IInv, Nodes, NoNode
    <3>2. \A p \in Pids : nodes'[p] = IF nodes[p].st = "exited"
                                       THEN [nodes[p] EXCEPT !.ripe = TRUE] ELSE nodes[p]
      BY <1>4 DEF Ripen
    <3>3. \A p \in Pids : InTree(p)' <=> InTree(p)
      BY <3>1, <3>2 DEF InTree
    <3> QED
      BY <3>3 DEF TreeSet
  <2> QED
    BY <1>4, <2>1 DEF Ripen, LruInv
<1>5. CASE sweep_tombstones
  <2>1. /\ lru' \in Seq(Pids) /\ Simple(lru') /\ Elems(lru') = TreeSet \ Ripe
    BY <1>5, WithoutFacts DEF sweep_tombstones, LruInv
  <2>2. TreeSet' = TreeSet \ Ripe
    <3>1. \A p \in Pids : nodes'[p] = IF p \in Ripe THEN NoNode ELSE nodes[p]
      BY <1>5 DEF sweep_tombstones
    <3> QED
      BY <3>1 DEF TreeSet, InTree, NoNode
  <2>3. Len(lru') <= kMaxNodes
    <3>1. Cardinality(TreeSet \ Ripe) <= Cardinality(TreeSet)
      BY LruCounts, FS_Subset
    <3>2. Len(lru') = Cardinality(TreeSet \ Ripe)
      BY <2>1, ElemsCardinality
    <3> QED
      BY <3>1, <3>2, LruCounts DEF LruInv
  <2> QED
    BY <1>5, <2>1, <2>2, <2>3 DEF sweep_tombstones, LruInv
<1>6. CASE \/ \E p, c \in Pids : Fork(p, c)
           \/ \E p \in Pids : Exec(p) \/ Exit(p)
           \/ \E f \in FileEvents : ConsumeFile(f)
           \/ UNCHANGED vars
  BY <1>1, <1>6 DEF Fork, Exec, Exit, ConsumeFile, tree, vars
<1> QED
  BY <1>2, <1>3, <1>4, <1>5, <1>6 DEF Next

-----------------------------------------------------------------------------
(* The events on their way. *)

(* The parents the running instance of a pid has had.                      *)
Had(p) == {task[p].forker, task[p].parent}

(* The i-th event is of the running instance of its pid.                   *)
Current(i) == queue[i].gen = task[queue[i].pid].gen

(* An event of the running instance waits behind the first i.              *)
After(i, kind, p) ==
  \E j \in 1..Len(queue) :
    j > i /\ queue[j].kind = kind /\ queue[j].pid = p /\ Current(j)

Waits(kind, p) == After(0, kind, p)

(* Nothing is younger than the kernel's own state.                         *)
KernelInv ==
  /\ \A p \in Pids : task[p].parent \in {task[p].forker, Root}
  /\ \A i \in 1..Len(queue) :
       /\ queue[i].gen <= task[queue[i].pid].gen
       /\ Current(i) /\ queue[i].kind = "exit" => ~task[queue[i].pid].alive
  /\ \A p \in Pids : \A g \in Nat : nodes[p].start = Exact(g) => g <= task[p].gen

(* Where none was lost, the events of a pid are in the order of its lives: *)
(* behind those of an earlier one comes the fork of the running one.       *)
OrderInv ==
  ~lost => \A i \in 1..Len(queue) :
    /\ ~Current(i) => After(i, "fork", queue[i].pid)
    /\ Current(i) => queue[i].ppid \in Had(queue[i].pid)
    /\ Current(i) /\ queue[i].kind # "fork" => ~After(i, "fork", queue[i].pid)
    /\ ~task[queue[i].pid].alive /\ queue[i].kind # "exit"
         => After(i, "exit", queue[i].pid)

(* While the fork of a pid's running instance waits, its node is not dated *)
(* to it; afterwards it has a parent of this instance.                     *)
ParentInv ==
  ~lost => \A p \in Pids :
    /\ Waits("fork", p) => nodes[p].start # Exact(task[p].gen)
    /\ ~Waits("fork", p) /\ InTree(p) => nodes[p].ppid \in {0} \cup Had(p)

(* What the tree has of a pid that was scanned and has no event under way. *)
MirrorInv ==
  /\ scan \in 1..(N + 1)
  /\ scan <= N => \A p \in scan..N : ~InTree(p)
  /\ (~lost /\ scan <= N) =>
       \A p \in Pids : ~task[p].alive /\ task[p].gen > 0 => Waits("exit", p)
  /\ (~lost /\ ~evicted) => \A p \in Pids : p < scan =>
       /\ task[p].alive /\ ~Waits("fork", p) =>
            /\ nodes[p].st = "live"
            /\ nodes[p].of = task[p].gen /\ nodes[p].exe = task[p].gen
            /\ nodes[p].ppid \in Had(p)
       /\ ~task[p].alive /\ ~Waits("exit", p) => nodes[p].st # "live"

EventInv == KernelInv /\ OrderInv /\ ParentInv /\ MirrorInv

LEMMA KernelTypes ==
  ASSUME IInv
  PROVE  /\ \A p \in Pids : task[p].gen \in Nat /\ task[p].alive \in BOOLEAN
         /\ Len(queue) \in Nat
         /\ \A i \in 1..Len(queue) :
              /\ queue[i] \in Events /\ queue[i].pid \in Pids /\ queue[i].gen \in Nat
              /\ queue[i].ppid \in 0..N /\ queue[i].kind \in {"fork", "exec", "exit"}
         /\ \A p \in Pids : nodes[p] \in Nodes \cup {NoNode}
<1>1. \A p \in Pids : task[p].gen \in Nat /\ task[p].alive \in BOOLEAN
  BY DEF IInv, TaskType
<1>2. Len(queue) \in Nat /\ \A i \in 1..Len(queue) : queue[i] \in Events
  BY DEF IInv
<1>3. \A e \in Events : /\ e.pid \in Pids /\ e.gen \in Nat /\ e.ppid \in 0..N
                        /\ e.kind \in {"fork", "exec", "exit"}
  BY DEF Events
<1> QED
  BY <1>1, <1>2, <1>3 DEF IInv

(* What Emit does when the event is not lost.                              *)
LEMMA Emitted ==
  ASSUME queue \in Seq(Events), NEW kind \in {"fork", "exec", "exit"},
         NEW p \in Pids, NEW ppid \in 0..N, NEW gen \in Nat, NEW named \in BOOLEAN,
         Emit(kind, p, ppid, gen, named)
  PROVE  LET e == queue'[Len(queue) + 1]
         IN  \/ lost' /\ UNCHANGED queue
             \/ /\ lost' = lost /\ Len(queue') = Len(queue) + 1
                /\ \A i \in 1..Len(queue) : queue'[i] = queue[i]
                /\ e.kind = kind /\ e.pid = p /\ e.ppid = ppid /\ e.gen = gen
                /\ e.named = named
<1> DEFINE ev == [kind |-> kind, pid |-> p, ppid |-> ppid, gen |-> gen,
                  named |-> named]
<1>1. /\ ev \in Events /\ ev.kind = kind /\ ev.pid = p /\ ev.ppid = ppid
      /\ ev.gen = gen /\ ev.named = named
  BY DEF Events
<1>2. \/ lost' = TRUE /\ UNCHANGED queue
      \/ lost' = lost /\ queue' = Append(queue, ev)
  BY DEF Emit
<1> HIDE DEF ev
<1>3. queue' = Append(queue, ev) =>
        /\ Len(queue') = Len(queue) + 1 /\ queue'[Len(queue) + 1] = ev
        /\ \A i \in 1..Len(queue) : queue'[i] = queue[i]
  BY <1>1
<1> QED
  BY <1>1, <1>2, <1>3

(* The kernel's events as the queue gets them.                             *)
LEMMA ForkEvents ==
  ASSUME IInv, EventInv, NEW p \in Pids, NEW c \in Pids, Fork(p, c)
  PROVE  EventInv'
<1>1. /\ task'[c].gen = task[c].gen + 1 /\ task'[c].alive
      /\ task'[c].forker = p /\ task'[c].parent = p
      /\ \A q \in Pids \ {c} : task'[q] = task[q]
      /\ UNCHANGED <<nodes, scan, evicted>> /\ ~task[c].alive
  BY DEF Fork, IInv, TaskType, tree
<1>2. task[c].gen + 1 \in Nat /\ p \in 0..N
  BY PidType DEF IInv, TaskType
<1> DEFINE e == queue'[Len(queue) + 1]
<1>3. \/ lost' /\ UNCHANGED queue
      \/ /\ lost' = lost /\ Len(queue') = Len(queue) + 1
         /\ \A i \in 1..Len(queue) : queue'[i] = queue[i]
         /\ e.kind = "fork" /\ e.pid = c /\ e.ppid = p /\ e.gen = task[c].gen + 1
  BY <1>2, Emitted DEF Fork, IInv
<1> HIDE DEF e
<1>4. KernelInv'
  <2>1. \A q \in Pids : task'[q].parent \in {task'[q].forker, Root}
    BY <1>1 DEF EventInv, KernelInv
  <2>2. \A q \in Pids : \A g \in Nat : nodes'[q].start = Exact(g) => g <= task'[q].gen
    BY <1>1, KernelTypes DEF EventInv, KernelInv
  <2>3. ASSUME NEW i \in 1..Len(queue), queue'[i] = queue[i]
        PROVE  /\ queue'[i].gen <= task'[queue'[i].pid].gen
               /\ Current(i)' /\ queue'[i].kind = "exit"
                    => ~task'[queue'[i].pid].alive
    BY <1>1, <2>3, KernelTypes DEF EventInv, KernelInv, Current
  <2>4. CASE queue' = queue
    BY <2>1, <2>2, <2>3, <2>4 DEF KernelInv
  <2>5. CASE queue' # queue
    <3>1. /\ Len(queue') = Len(queue) + 1 /\ \A i \in 1..Len(queue) : queue'[i] = queue[i]
          /\ e.pid = c /\ e.gen = task[c].gen + 1 /\ e.kind = "fork"
      BY <1>3, <2>5
    <3>2. \A i \in 1..Len(queue') : i \in 1..Len(queue) \/ queue'[i] = e
      BY <3>1, KernelTypes DEF e
    <3>3. e.gen <= task'[e.pid].gen /\ e.kind # "exit"
      BY <1>1, <1>2, <3>1
    <3> QED
      BY <2>1, <2>2, <2>3, <3>1, <3>2, <3>3 DEF KernelInv
  <2> QED
    BY <2>4, <2>5
<1>5. SUFFICES ASSUME ~lost' PROVE (OrderInv /\ ParentInv /\ MirrorInv)'
  BY <1>1, <1>4 DEF EventInv, OrderInv, ParentInv, MirrorInv, InTree
<1> DEFINE n == Len(queue) + 1
<1>6. /\ ~lost /\ Len(queue') = n /\ n \in 1..n /\ n \in Nat
      /\ \A i \in 1..Len(queue) : queue'[i] = queue[i] /\ i \in 1..n /\ n > i
      /\ \A i \in 1..n : i \in 1..Len(queue) \/ i = n
      /\ queue'[n].kind = "fork" /\ queue'[n].pid = c /\ queue'[n].ppid = p
      /\ queue'[n].gen = task'[c].gen
  BY <1>1, <1>3, <1>5, KernelTypes DEF e
<1> HIDE DEF n
(* the new instance of c waits; nothing changed for the others *)
<1>7. /\ \A i \in 0..Len(queue) : After(i, "fork", c)'
      /\ \A i \in 0..Len(queue), kind \in {"fork", "exit"} : \A q \in Pids \ {c} :
           After(i, kind, q)' <=> After(i, kind, q)
      /\ \A i \in 1..Len(queue) : queue[i].pid = c => ~Current(i)'
      /\ \A i \in 1..Len(queue) : queue[i].pid # c =>
           (Current(i)' <=> Current(i))
  <2>1. \A i \in 1..Len(queue) : queue[i].pid = c => ~Current(i)'
    BY <1>1, <1>6, KernelTypes DEF EventInv, KernelInv, Current
  <2>2. \A i \in 1..Len(queue) : queue[i].pid # c =>
           (Current(i)' <=> Current(i))
    BY <1>1, <1>6, KernelTypes DEF Current
  <2>3. \A i \in 0..Len(queue) : n > i
    BY <1>6, KernelTypes
  <2>4. \A i \in 0..Len(queue) : After(i, "fork", c)'
    BY <1>6, <2>3 DEF After, Current
  <2>5. ASSUME NEW i \in 0..Len(queue), NEW kind \in {"fork", "exit"}, NEW q \in Pids \ {c}
        PROVE  After(i, kind, q)' <=> After(i, kind, q)
    BY <1>6, <2>2 DEF After, Current
  <2> QED
    BY <2>1, <2>2, <2>4, <2>5, Zenon
<1>8. \A q \in Pids : /\ q = c => Had(q)' = {p}
                      /\ q # c => Had(q)' = Had(q)
  BY <1>1 DEF Had
<1>9. OrderInv'
  <2> SUFFICES ASSUME NEW i \in 1..n
               PROVE  /\ ~Current(i)' => After(i, "fork", queue[i].pid)'
                      /\ Current(i)' => queue'[i].ppid \in Had(queue[i].pid)'
                      /\ Current(i)' /\ queue'[i].kind # "fork"
                           => ~After(i, "fork", queue[i].pid)'
                      /\ ~task'[queue'[i].pid].alive /\ queue'[i].kind # "exit"
                           => After(i, "exit", queue[i].pid)'
    BY <1>6 DEF OrderInv
  <2>1. CASE i = n
    BY <1>1, <1>6, <1>8, <2>1 DEF Current
  <2>2. CASE i \in 1..Len(queue)
    <3>1. /\ queue'[i] = queue[i] /\ queue[i].pid \in Pids /\ i \in 0..Len(queue)
          /\ i \in 1..Len(queue)
      BY <1>6, <2>2, KernelTypes
    <3>2. CASE queue[i].pid = c
      BY <1>1, <1>7, <3>1, <3>2
    <3>3. CASE queue[i].pid # c
      <4>1. /\ ~Current(i) => After(i, "fork", queue[i].pid)
            /\ Current(i) => queue[i].ppid \in Had(queue[i].pid)
            /\ Current(i) /\ queue[i].kind # "fork"
                 => ~After(i, "fork", queue[i].pid)
            /\ ~task[queue[i].pid].alive /\ queue[i].kind # "exit"
                 => After(i, "exit", queue[i].pid)
        BY <1>6, <3>1 DEF EventInv, OrderInv
      <4> QED
        BY <1>1, <1>7, <1>8, <3>1, <3>3, <4>1
    <3> QED
      BY <3>2, <3>3
  <2> QED
    BY <1>6, <2>1, <2>2
<1>10. /\ Waits("fork", c)'
       /\ \A q \in Pids \ {c} : /\ Waits("fork", q)' <=> Waits("fork", q)
                                /\ Waits("exit", q)' <=> Waits("exit", q)
  <2>1. 0 \in 0..Len(queue)
    BY KernelTypes
  <2> QED
    BY <1>7, <2>1 DEF Waits
<1>11. ParentInv'
  <2> SUFFICES ASSUME NEW q \in Pids
               PROVE  /\ Waits("fork", q)' => nodes'[q].start # Exact(task'[q].gen)
                      /\ ~Waits("fork", q)' /\ InTree(q)'
                           => nodes'[q].ppid \in {0} \cup Had(q)'
    BY DEF ParentInv
  <2>1. CASE q = c
    <3>1. nodes[c].start = Exact(task[c].gen + 1) => task[c].gen + 1 <= task[c].gen
      BY <1>2 DEF EventInv, KernelInv
    <3>2. nodes[c].start # Exact(task[c].gen + 1)
      <4>1. task[c].gen \in Nat
        BY KernelTypes
      <4> QED
        BY <3>1, <4>1
    <3>3. Waits("fork", q)' /\ nodes'[q].start # Exact(task'[q].gen)
      BY <1>1, <1>10, <2>1, <3>2
    <3> QED
      BY <3>3
  <2>2. CASE q # c
    BY <1>1, <1>6, <1>8, <1>10, <2>2 DEF EventInv, ParentInv, InTree
  <2> QED
    BY <2>1, <2>2
<1>12. MirrorInv'
  <2>1. /\ ~lost /\ nodes' = nodes /\ scan' = scan /\ evicted' = evicted
        /\ scan \in 1..(N + 1)
        /\ scan <= N => \A q \in scan..N : ~InTree(q)
    BY <1>1, <1>6 DEF EventInv, MirrorInv
  <2>2. scan <= N => \A q \in Pids :
           ~task'[q].alive /\ task'[q].gen > 0 => Waits("exit", q)'
    <3> SUFFICES ASSUME scan <= N, NEW q \in Pids, ~task'[q].alive, task'[q].gen > 0
                 PROVE  Waits("exit", q)'
      OBVIOUS
    <3>1. q # c /\ task'[q] = task[q]
      BY <1>1
    <3>2. Waits("exit", q)
      BY <2>1, <3>1 DEF EventInv, MirrorInv
    <3> QED
      BY <1>10, <3>1, <3>2
  <2>3. ASSUME ~evicted, NEW q \in Pids, q < scan
        PROVE  /\ task'[q].alive /\ ~Waits("fork", q)' =>
                     /\ nodes[q].st = "live"
                     /\ nodes[q].of = task'[q].gen /\ nodes[q].exe = task'[q].gen
                     /\ nodes[q].ppid \in Had(q)'
               /\ ~task'[q].alive /\ ~Waits("exit", q)' => nodes[q].st # "live"
    <3>1. CASE q = c
      BY <1>1, <1>10, <3>1
    <3>2. CASE q # c
      <4>1. /\ task[q].alive /\ ~Waits("fork", q) =>
                  /\ nodes[q].st = "live"
                  /\ nodes[q].of = task[q].gen /\ nodes[q].exe = task[q].gen
                  /\ nodes[q].ppid \in Had(q)
            /\ ~task[q].alive /\ ~Waits("exit", q) => nodes[q].st # "live"
        BY <2>1, <2>3 DEF EventInv, MirrorInv
      <4>2. task'[q] = task[q] /\ Had(q)' = Had(q)
        BY <1>1, <1>8, <3>2
      <4> QED
        BY <1>10, <3>2, <4>1, <4>2
    <3> QED
      BY <3>1, <3>2
  <2> QED
    BY <2>1, <2>2, <2>3 DEF MirrorInv, InTree
<1> QED
  BY <1>9, <1>11, <1>12

(* An exec or an exit is the latest event of its pid.                      *)
LEMMA ExecExitEvents ==
  ASSUME IInv, EventInv, NEW p \in Pids, Exec(p) \/ Exit(p)
  PROVE  EventInv'
<1> DEFINE kind == IF Exec(p) THEN "exec" ELSE "exit"
           e == queue'[Len(queue) + 1]
<1>1. /\ UNCHANGED <<nodes, scan, evicted>> /\ task[p].alive
      /\ \A q \in Pids : /\ task'[q].gen = task[q].gen /\ task'[q].forker = task[q].forker
                         /\ task'[q].parent \in {task[q].parent, Root}
                         /\ q # p => task'[q].alive = task[q].alive
      /\ kind = "exec" => task' = task
      /\ kind = "exit" => ~task'[p].alive /\ task'[p].parent = task[p].parent
  BY DEF Exec, Exit, IInv, TaskType, tree
<1>2. PICK named \in BOOLEAN : Emit(kind, p, task[p].parent, task[p].gen, named)
  <2>1. CASE Exec(p)
    BY <2>1 DEF Exec
  <2>2. CASE ~Exec(p)
    BY <2>2 DEF Exit
  <2> QED
    BY <2>1, <2>2
<1>3. task[p].gen \in Nat /\ task[p].parent \in 0..N /\ kind \in {"fork", "exec", "exit"}
  BY DEF IInv, TaskType
<1>4. kind \in {"exec", "exit"}
  OBVIOUS
<1> HIDE DEF kind
<1>5. \/ lost' /\ UNCHANGED queue
      \/ /\ lost' = lost /\ Len(queue') = Len(queue) + 1
         /\ \A i \in 1..Len(queue) : queue'[i] = queue[i]
         /\ e.kind = kind /\ e.pid = p /\ e.ppid = task[p].parent /\ e.gen = task[p].gen
  BY <1>2, <1>3, Emitted DEF IInv
<1> HIDE DEF e
<1>6. \A q \in Pids : task'[q].alive => task[q].alive
  BY <1>1
<1>7. KernelInv'
  <2>1. \A q \in Pids : task'[q].parent \in {task'[q].forker, Root}
    BY <1>1 DEF EventInv, KernelInv
  <2>2. \A q \in Pids : \A g \in Nat : nodes'[q].start = Exact(g) => g <= task'[q].gen
    BY <1>1 DEF EventInv, KernelInv
  <2>3. ASSUME NEW i \in 1..Len(queue), queue'[i] = queue[i]
        PROVE  /\ queue'[i].gen <= task'[queue'[i].pid].gen
               /\ Current(i)' /\ queue'[i].kind = "exit" => ~task'[queue'[i].pid].alive
    BY <1>1, <1>6, <2>3, KernelTypes DEF EventInv, KernelInv, Current
  <2>4. CASE queue' = queue
    BY <2>1, <2>2, <2>3, <2>4 DEF KernelInv
  <2>5. CASE queue' # queue
    <3>1. /\ Len(queue') = Len(queue) + 1 /\ \A i \in 1..Len(queue) : queue'[i] = queue[i]
          /\ e.pid = p /\ e.gen = task[p].gen /\ e.kind = kind
      BY <1>5, <2>5
    <3>2. \A i \in 1..Len(queue') : i \in 1..Len(queue) \/ queue'[i] = e
      BY <3>1, KernelTypes DEF e
    <3>3. e.gen <= task'[e.pid].gen /\ (e.kind = "exit" => ~task'[e.pid].alive)
      BY <1>1, <1>3, <3>1
    <3> QED
      BY <2>1, <2>2, <2>3, <3>1, <3>2, <3>3 DEF KernelInv
  <2> QED
    BY <2>4, <2>5
<1>8. SUFFICES ASSUME ~lost' PROVE (OrderInv /\ ParentInv /\ MirrorInv)'
  BY <1>1, <1>7 DEF EventInv, OrderInv, ParentInv, MirrorInv, InTree
<1>n. PICK n \in Nat : n = Len(queue) + 1
  BY KernelTypes
<1>9. /\ ~lost /\ Len(queue') = n /\ n \in 1..n /\ n \in Nat
      /\ \A i \in 1..Len(queue) : queue'[i] = queue[i] /\ i \in 1..n /\ n > i
      /\ \A i \in 1..n : i \in 1..Len(queue) \/ i = n
      /\ \A i \in 1..n : ~(i > n)
      /\ \A i \in 0..Len(queue) : n > i
      /\ queue'[n].kind = kind /\ queue'[n].pid = p /\ queue'[n].ppid = task[p].parent
      /\ queue'[n].gen = task'[p].gen
  BY <1>1, <1>3, <1>5, <1>8, <1>n, KernelTypes DEF e
<1>10. Current(n)' /\ \A i \in 1..Len(queue) : Current(i)' <=> Current(i)
  <2>1. Current(n)'
    BY <1>9 DEF Current
  <2>2. \A i \in 1..Len(queue) : Current(i)' <=> Current(i)
    BY <1>1, <1>9, KernelTypes DEF Current
  <2> QED
    BY <2>1, <2>2
<1>11. /\ \A i \in 0..Len(queue), q \in Pids : After(i, "fork", q)' <=> After(i, "fork", q)
       /\ \A i \in 0..Len(queue), q \in Pids : After(i, "exit", q) => After(i, "exit", q)'
       /\ \A i \in 0..Len(queue) : kind = "exit" => After(i, "exit", p)'
       /\ \A q \in Pids : ~After(n, "fork", q)'
  <2>1. ASSUME NEW i \in 0..Len(queue), NEW q \in Pids
        PROVE  After(i, "fork", q)' <=> After(i, "fork", q)
    BY <1>4, <1>9, <1>10 DEF After
  <2>2. ASSUME NEW i \in 0..Len(queue), NEW q \in Pids
        PROVE  After(i, "exit", q) => After(i, "exit", q)'
    BY <1>9, <1>10 DEF After
  <2>3. \A i \in 0..Len(queue) : kind = "exit" => After(i, "exit", p)'
    BY <1>9, <1>10 DEF After
  <2>4. \A q \in Pids : ~After(n, "fork", q)'
    BY <1>9 DEF After
  <2> QED
    BY <2>1, <2>2, <2>3, <2>4, Zenon
<1>12. \A q \in Pids : Had(q) \subseteq Had(q)' /\ task[p].parent \in Had(p)'
  BY <1>1 DEF Had, EventInv, KernelInv
<1>13. OrderInv'
  <2> SUFFICES ASSUME NEW i \in 1..n
               PROVE  /\ ~Current(i)' => After(i, "fork", queue[i].pid)'
                      /\ Current(i)' => queue'[i].ppid \in Had(queue[i].pid)'
                      /\ Current(i)' /\ queue'[i].kind # "fork"
                           => ~After(i, "fork", queue[i].pid)'
                      /\ ~task'[queue'[i].pid].alive /\ queue'[i].kind # "exit"
                           => After(i, "exit", queue[i].pid)'
    BY <1>9 DEF OrderInv
  <2>1. CASE i = n
    <3>1. queue'[i].kind # "exit" => task'[queue'[i].pid].alive
      BY <1>1, <1>4, <1>9, <2>1
    <3>2. task[p].parent \in Had(p)' /\ Current(i)' /\ ~After(i, "fork", p)'
      BY <1>10, <1>11, <1>12, <2>1
    <3> QED
      BY <1>9, <2>1, <3>1, <3>2
  <2>2. CASE i \in 1..Len(queue)
    <3>1. /\ queue'[i] = queue[i] /\ queue[i].pid \in Pids /\ i \in 0..Len(queue)
          /\ i \in 1..Len(queue)
      BY <1>9, <2>2, KernelTypes
    <3>2. /\ ~Current(i) => After(i, "fork", queue[i].pid)
          /\ Current(i) => queue[i].ppid \in Had(queue[i].pid)
          /\ Current(i) /\ queue[i].kind # "fork" => ~After(i, "fork", queue[i].pid)
          /\ ~task[queue[i].pid].alive /\ queue[i].kind # "exit"
               => After(i, "exit", queue[i].pid)
      BY <1>9, <3>1 DEF EventInv, OrderInv
    <3>3. ~task'[queue[i].pid].alive =>
            ~task[queue[i].pid].alive \/ (kind = "exit" /\ queue[i].pid = p)
      BY <1>1, <1>4, <3>1
    <3> QED
      BY <1>10, <1>11, <1>12, <3>1, <3>2, <3>3
  <2> QED
    BY <1>9, <2>1, <2>2
<1>14. \A q \in Pids : /\ Waits("fork", q)' <=> Waits("fork", q)
                       /\ Waits("exit", q) => Waits("exit", q)'
                       /\ ~task'[q].alive => Waits("exit", q)' \/ ~task[q].alive
  <2>1. 0 \in 0..Len(queue)
    BY KernelTypes
  <2> QED
    BY <1>1, <1>4, <1>11, <2>1 DEF Waits
<1>15. ParentInv'
  BY <1>1, <1>9, <1>12, <1>14 DEF EventInv, ParentInv, InTree
<1>16. MirrorInv'
  BY <1>1, <1>6, <1>9, <1>12, <1>14 DEF EventInv, MirrorInv, InTree
<1> QED
  BY <1>13, <1>15, <1>16

(* What an insertion does to the nodes of the other pids.                  *)
LEMMA UpsertEffect ==
  ASSUME nodes \in [Pids -> Nodes \cup {NoNode}], NEW p \in Pids, NEW node,
         upsert(p, node)
  PROVE  /\ nodes'[p] = node
         /\ \A q \in Pids \ {p} : nodes'[q] \in {nodes[q], NoNode}
         /\ ~evicted' => ~evicted /\ \A q \in Pids \ {p} : nodes'[q] = nodes[q]
<1>1. CASE nodes' = [nodes EXCEPT ![p] = node] /\ evicted' = evicted
  BY <1>1
<1>2. ASSUME NEW v, nodes' = [nodes EXCEPT ![v] = NoNode, ![p] = node], evicted' = TRUE
      PROVE  /\ nodes'[p] = node /\ evicted'
             /\ \A q \in Pids \ {p} : nodes'[q] \in {nodes[q], NoNode}
  BY <1>2
<1> QED
  BY <1>1, <1>2 DEF upsert

(* What an event does to the nodes.                                        *)
LEMMA ApplyEffect ==
  ASSUME IInv, NEW e \in Events, apply(e)
  PROVE  /\ \A q \in Pids \ {e.pid} : nodes'[q] \in {nodes[q], NoNode}
         /\ ~evicted' => ~evicted /\ \A q \in Pids \ {e.pid} : nodes'[q] = nodes[q]
         /\ e.kind = "fork" =>
              /\ nodes'[e.pid].st = "live" /\ nodes'[e.pid].of = e.gen
              /\ nodes'[e.pid].ppid = e.ppid
              /\ nodes'[e.pid].exe = exe_path_of(e.pid)
              /\ \A g \in Nat : nodes'[e.pid].start # Exact(g)
         /\ e.kind = "exec" =>
              /\ nodes'[e.pid].st = "live" /\ nodes'[e.pid].of = e.gen
              /\ nodes'[e.pid].start = Exact(e.gen)
              /\ nodes'[e.pid].ppid = IF InTree(e.pid) THEN nodes[e.pid].ppid ELSE e.ppid
              /\ nodes'[e.pid].exe =
                   ExecExe(e, IF InTree(e.pid) THEN nodes[e.pid].exe ELSE 0)
         /\ e.kind = "exit" =>
              /\ nodes'[e.pid].st = "exited"
              /\ nodes'[e.pid].start = IF InTree(e.pid) THEN nodes[e.pid].start
                                                        ELSE Exact(e.gen)
              /\ nodes'[e.pid].ppid = IF InTree(e.pid) THEN nodes[e.pid].ppid ELSE e.ppid
              /\ nodes'[e.pid].exe = IF InTree(e.pid) THEN nodes[e.pid].exe ELSE 0
<1> DEFINE exact == LiveNode(e.ppid, Exact(e.gen), e.gen, ExecExe(e, 0))
           gone == [LiveNode(e.ppid, Exact(e.gen), e.gen, 0) EXCEPT !.st = "exited"]
           new == LiveNode(e.ppid, ProcStart(e.pid), e.gen, exe_path_of(e.pid))
<1>1. /\ e.pid \in Pids /\ e.gen \in Nat /\ nodes \in [Pids -> Nodes \cup {NoNode}]
      /\ task[e.pid].gen \in Nat
  BY DEF Events, IInv, TaskType
<1>2. CASE e.kind = "fork"
  <2>1. upsert(e.pid, new)
    BY <1>2 DEF apply, ApplyFork
  <2>2. /\ new.st = "live" /\ new.of = e.gen /\ new.ppid = e.ppid
        /\ new.start = ProcStart(e.pid) /\ new.exe = exe_path_of(e.pid)
    BY DEF LiveNode
  <2>3. \A g \in Nat : ProcStart(e.pid) # Exact(g)
    BY <1>1, TickIsNotExact DEF ProcStart
  <2> HIDE DEF new
  <2> QED
    BY <1>1, <1>2, <2>1, <2>2, <2>3, UpsertEffect
<1>3. CASE e.kind = "exec"
  <2>1. CASE ~InTree(e.pid)
    <3>1. upsert(e.pid, exact)
      BY <1>3, <2>1 DEF apply, ApplyExec
    <3>2. /\ exact.st = "live" /\ exact.of = e.gen /\ exact.ppid = e.ppid
          /\ exact.start = Exact(e.gen) /\ exact.exe = ExecExe(e, 0)
      BY DEF LiveNode
    <3> HIDE DEF exact
    <3> QED
      BY <1>1, <1>3, <2>1, <3>1, <3>2, UpsertEffect
  <2>2. CASE InTree(e.pid)
    <3> DEFINE kept == LiveNode(nodes[e.pid].ppid, Exact(e.gen), e.gen,
                            ExecExe(e, nodes[e.pid].exe))
    <3>1. nodes' = [nodes EXCEPT ![e.pid] = kept] /\ UNCHANGED evicted
      BY <1>3, <2>2 DEF apply, ApplyExec
    <3>2. /\ kept.st = "live" /\ kept.of = e.gen /\ kept.ppid = nodes[e.pid].ppid
          /\ kept.start = Exact(e.gen) /\ kept.exe = ExecExe(e, nodes[e.pid].exe)
      BY DEF LiveNode
    <3> HIDE DEF kept
    <3> QED
      BY <1>1, <1>3, <2>2, <3>1, <3>2
  <2> QED
    BY <2>1, <2>2
<1>4. CASE e.kind = "exit"
  <2>1. CASE ~InTree(e.pid)
    <3>1. upsert(e.pid, gone)
      BY <1>4, <2>1 DEF apply, ApplyExit
    <3>2. /\ gone.st = "exited" /\ gone.ppid = e.ppid /\ gone.start = Exact(e.gen)
          /\ gone.exe = 0
      BY DEF LiveNode
    <3> HIDE DEF gone
    <3> QED
      BY <1>1, <1>4, <2>1, <3>1, <3>2, UpsertEffect
  <2>2. CASE InTree(e.pid)
    <3> DEFINE dead == [[nodes[e.pid] EXCEPT !.st = "exited"] EXCEPT !.ripe = FALSE]
    <3>1. nodes' = [nodes EXCEPT ![e.pid] = dead] /\ UNCHANGED evicted
      BY <1>1, <1>4, <2>2 DEF apply, ApplyExit
    <3>2. /\ dead.st = "exited" /\ dead.ppid = nodes[e.pid].ppid
          /\ dead.start = nodes[e.pid].start /\ dead.exe = nodes[e.pid].exe
      BY <1>1, <2>2 DEF Nodes, InTree, NoNode
    <3> HIDE DEF dead
    <3> QED
      BY <1>1, <1>4, <2>2, <3>1, <3>2
  <2> QED
    BY <2>1, <2>2
<1> QED
  BY <1>2, <1>3, <1>4 DEF apply

(* The queue without its first event.                                      *)
LEMMA Consumed ==
  ASSUME IInv, queue # <<>>, queue' = Tail(queue), UNCHANGED task
  PROVE  /\ 1 \in 1..Len(queue) /\ Head(queue) = queue[1]
         /\ \A i \in 1..Len(queue') :
              /\ i + 1 \in 1..Len(queue) /\ queue'[i] = queue[i + 1]
              /\ Current(i)' <=> Current(i + 1)
         /\ \A i \in Nat : \A kind, p : After(i, kind, p)' <=> After(i + 1, kind, p)
<1>1. /\ Len(queue) \in Nat /\ Len(queue) # 0 /\ Len(queue') = Len(queue) - 1
      /\ \A i \in 1..Len(queue') : queue'[i] = queue[i + 1]
      /\ Head(queue) = queue[1]
  BY DEF IInv
<1>2. \A i \in 1..Len(queue') : i \in Nat /\ i + 1 \in 1..Len(queue)
  BY <1>1
<1>3. \A i \in 1..Len(queue') : Current(i)' <=> Current(i + 1)
  BY <1>1 DEF Current
<1>4. ASSUME NEW i \in Nat, NEW kind, NEW p
      PROVE  After(i, kind, p)' <=> After(i + 1, kind, p)
  <2>1. ASSUME After(i, kind, p)' PROVE After(i + 1, kind, p)
    <3>1. PICK j \in 1..Len(queue') :
            j > i /\ queue'[j].kind = kind /\ queue'[j].pid = p /\ Current(j)'
      BY <2>1 DEF After
    <3>2. j + 1 > i + 1
      BY <1>2, <3>1
    <3> QED
      BY <1>1, <1>2, <1>3, <3>1, <3>2 DEF After
  <2>2. ASSUME After(i + 1, kind, p) PROVE After(i, kind, p)'
    <3>1. PICK j \in 1..Len(queue) :
            j > i + 1 /\ queue[j].kind = kind /\ queue[j].pid = p /\ Current(j)
      BY <2>2 DEF After
    <3>2. PICK k \in 1..Len(queue') : j = k + 1 /\ k > i
      <4>1. j - 1 \in 1..Len(queue') /\ j = (j - 1) + 1 /\ j - 1 > i
        BY <1>1, <3>1
      <4> QED
        BY <4>1
    <3>3. queue'[k] = queue[j] /\ Current(k)'
      BY <1>1, <1>3, <3>1, <3>2
    <3> QED
      BY <3>1, <3>2, <3>3 DEF After
  <2> QED
    BY <2>1, <2>2
<1>5. 1 \in 1..Len(queue)
  BY <1>1
<1> QED
  BY <1>1, <1>2, <1>3, <1>4, <1>5

(* The consumer takes the first event and applies it.                      *)
LEMMA ConsumeEvents ==
  ASSUME IInv, EventInv, Consume
  PROVE  EventInv'
<1> DEFINE e == Head(queue)
<1>1. /\ queue # <<>> /\ queue' = Tail(queue) /\ apply(e)
      /\ UNCHANGED <<task, lost, scan>> /\ scan > N
  BY DEF Consume
<1>2. /\ 1 \in 1..Len(queue) /\ e = queue[1]
      /\ \A i \in 1..Len(queue') :
           /\ i + 1 \in 1..Len(queue) /\ queue'[i] = queue[i + 1]
           /\ Current(i)' <=> Current(i + 1)
      /\ \A i \in Nat : \A kind, p : After(i, kind, p)' <=> After(i + 1, kind, p)
  BY <1>1, Consumed
<1>3. /\ e \in Events /\ e.pid \in Pids /\ e.gen \in Nat
      /\ e.kind \in {"fork", "exec", "exit"}
  BY <1>2, KernelTypes
<1> HIDE DEF e
<1>4. /\ \A q \in Pids \ {e.pid} : nodes'[q] \in {nodes[q], NoNode}
      /\ ~evicted' => ~evicted /\ \A q \in Pids \ {e.pid} : nodes'[q] = nodes[q]
      /\ e.kind = "fork" =>
           /\ nodes'[e.pid].st = "live" /\ nodes'[e.pid].of = e.gen
           /\ nodes'[e.pid].ppid = e.ppid
           /\ nodes'[e.pid].exe = exe_path_of(e.pid)
           /\ \A g \in Nat : nodes'[e.pid].start # Exact(g)
      /\ e.kind = "exec" =>
           /\ nodes'[e.pid].st = "live" /\ nodes'[e.pid].of = e.gen
           /\ nodes'[e.pid].start = Exact(e.gen)
           /\ nodes'[e.pid].ppid = IF InTree(e.pid) THEN nodes[e.pid].ppid ELSE e.ppid
           /\ nodes'[e.pid].exe =
                ExecExe(e, IF InTree(e.pid) THEN nodes[e.pid].exe ELSE 0)
      /\ e.kind = "exit" =>
           /\ nodes'[e.pid].st = "exited"
           /\ nodes'[e.pid].start = IF InTree(e.pid) THEN nodes[e.pid].start
                                                     ELSE Exact(e.gen)
           /\ nodes'[e.pid].ppid = IF InTree(e.pid) THEN nodes[e.pid].ppid ELSE e.ppid
  BY <1>1, <1>3, ApplyEffect
<1>5. \A p \in Pids : task'[p] = task[p] /\ Had(p)' = Had(p)
  BY <1>1 DEF Had
(* what waits is what waited behind the first event, or is that event *)
<1>6. \A kind, p : /\ Waits(kind, p)' <=> After(1, kind, p)
                   /\ Waits(kind, p) <=>
                        \/ After(1, kind, p)
                        \/ e.kind = kind /\ e.pid = p /\ Current(1)
  <2>1. ASSUME NEW kind, NEW p
        PROVE  Waits(kind, p)' <=> After(1, kind, p)
    <3>1. 0 \in Nat /\ 0 + 1 = 1
      OBVIOUS
    <3> QED
      BY <1>2, <3>1 DEF Waits
  <2>2. \A j \in 1..Len(queue) : /\ j > 0 /\ (j = 1 \/ j > 1)
                                 /\ j > 1 => j > 0
    BY KernelTypes
  <2>3. ASSUME NEW kind, NEW p
        PROVE  Waits(kind, p) <=> \/ After(1, kind, p)
                                  \/ e.kind = kind /\ e.pid = p /\ Current(1)
    BY <1>2, <2>2 DEF Waits, After
  <2> QED
    BY <2>1, <2>3
<1>7. Current(1) <=> e.gen = task[e.pid].gen
  BY <1>2 DEF Current
<1>8. KernelInv'
  <2>1. \A i \in 1..Len(queue') :
          /\ queue'[i].gen <= task'[queue'[i].pid].gen
          /\ Current(i)' /\ queue'[i].kind = "exit" => ~task'[queue'[i].pid].alive
    BY <1>1, <1>2 DEF EventInv, KernelInv
  <2>2. ASSUME NEW p \in Pids, NEW g \in Nat, nodes'[p].start = Exact(g)
        PROVE  g <= task[p].gen
    <3>1. nodes[p].start = Exact(g) => g <= task[p].gen
      BY DEF EventInv, KernelInv
    <3>2. NoNode.start # Exact(g)
      BY TickIsNotExact DEF NoNode
    <3>3. CASE p # e.pid
      BY <1>4, <2>2, <3>1, <3>2, <3>3
    <3>4. CASE p = e.pid
      <4>1. e.gen <= task[p].gen
        BY <1>2, <3>4 DEF EventInv, KernelInv
      <4>2. nodes'[p].start \in {nodes[p].start, Exact(e.gen)}
        BY <1>3, <1>4, <2>2, <3>4
      <4>3. Exact(g) = Exact(e.gen) => g = e.gen
        BY <1>3, ExactIsInjective
      <4> QED
        BY <2>2, <3>1, <4>1, <4>2, <4>3
    <3> QED
      BY <3>3, <3>4
  <2>3. \A p \in Pids : task'[p].parent \in {task'[p].forker, Root}
    BY <1>1 DEF EventInv, KernelInv
  <2> QED
    BY <1>1, <2>1, <2>2, <2>3 DEF KernelInv
<1>9. SUFFICES ASSUME ~lost PROVE (OrderInv /\ ParentInv /\ MirrorInv)'
  <2>1. CASE ~lost
    BY <1>8, <1>9, <2>1 DEF EventInv
  <2>2. CASE lost
    <3>1. OrderInv' /\ ParentInv'
      BY <1>1, <2>2 DEF OrderInv, ParentInv
    <3>2. ~(scan' <= N) /\ scan' \in 1..(N + 1)
      BY <1>1, PidType DEF EventInv, MirrorInv
    <3>3. MirrorInv'
      BY <1>1, <2>2, <3>2 DEF MirrorInv
    <3> QED
      BY <1>8, <3>1, <3>3 DEF EventInv
  <2> QED
    BY <2>1, <2>2
<1>10. OrderInv'
  <2> SUFFICES ASSUME NEW i \in 1..Len(queue')
               PROVE  /\ ~Current(i)' => After(i, "fork", queue[i].pid)'
                      /\ Current(i)' => queue'[i].ppid \in Had(queue[i].pid)'
                      /\ Current(i)' /\ queue'[i].kind # "fork"
                           => ~After(i, "fork", queue[i].pid)'
                      /\ ~task'[queue'[i].pid].alive /\ queue'[i].kind # "exit"
                           => After(i, "exit", queue[i].pid)'
    BY DEF OrderInv
  <2>1. /\ i \in Nat /\ i + 1 \in 1..Len(queue) /\ queue'[i] = queue[i + 1]
        /\ queue[i + 1].pid \in Pids
    BY <1>2, KernelTypes
  <2>2. /\ ~Current(i + 1) => After(i + 1, "fork", queue[i + 1].pid)
        /\ Current(i + 1) => queue[i + 1].ppid \in Had(queue[i + 1].pid)
        /\ Current(i + 1) /\ queue[i + 1].kind # "fork"
             => ~After(i + 1, "fork", queue[i + 1].pid)
        /\ ~task[queue[i + 1].pid].alive /\ queue[i + 1].kind # "exit"
             => After(i + 1, "exit", queue[i + 1].pid)
    BY <1>9, <2>1 DEF EventInv, OrderInv
  <2> QED
    BY <1>2, <1>5, <2>1, <2>2
(* the first event *)
<1>11. /\ ~Current(1) => After(1, "fork", e.pid)
       /\ Current(1) => e.ppid \in Had(e.pid)
       /\ Current(1) /\ e.kind # "fork" => ~After(1, "fork", e.pid)
       /\ ~task[e.pid].alive /\ e.kind # "exit" => After(1, "exit", e.pid)
       /\ Current(1) /\ e.kind = "exit" => ~task[e.pid].alive
  BY <1>2, <1>9 DEF EventInv, OrderInv, KernelInv
<1>12. ParentInv'
  <2> SUFFICES ASSUME NEW p \in Pids
               PROVE  /\ Waits("fork", p)' => nodes'[p].start # Exact(task[p].gen)
                      /\ ~Waits("fork", p)' /\ InTree(p)'
                           => nodes'[p].ppid \in {0} \cup Had(p)
    BY <1>5 DEF ParentInv
  <2>1. /\ Waits("fork", p) => nodes[p].start # Exact(task[p].gen)
        /\ ~Waits("fork", p) /\ InTree(p) => nodes[p].ppid \in {0} \cup Had(p)
    BY <1>9 DEF EventInv, ParentInv
  <2>2. task[p].gen \in Nat
    BY KernelTypes
  <2>3. CASE p # e.pid
    <3>1. NoNode.start # Exact(task[p].gen) /\ NoNode.st = "none"
      BY <2>2, TickIsNotExact DEF NoNode
    <3> QED
      BY <1>4, <1>6, <2>1, <2>3, <3>1 DEF InTree
  <2>4. CASE p = e.pid
    <3>1. Waits("fork", p)' => nodes'[p].start # Exact(task[p].gen)
      <4>1. e.gen # task[p].gen => Exact(e.gen) # Exact(task[p].gen)
        BY <1>3, <2>2, ExactIsInjective
      <4> QED
        BY <1>3, <1>4, <1>6, <1>7, <1>11, <2>1, <2>2, <2>4, <4>1
    <3>2. ~Waits("fork", p)' => nodes'[p].ppid \in {0} \cup Had(p)
      BY <1>3, <1>4, <1>6, <1>11, <2>1, <2>4
    <3> QED
      BY <3>1, <3>2
  <2> QED
    BY <2>3, <2>4
<1>13. MirrorInv'
  <2>1. ~(scan' <= N) /\ scan' \in 1..(N + 1)
    BY <1>1, PidType DEF EventInv, MirrorInv
  <2>2. ASSUME ~evicted', NEW p \in Pids, p < scan
        PROVE  /\ task[p].alive /\ ~Waits("fork", p)' =>
                    /\ nodes'[p].st = "live"
                    /\ nodes'[p].of = task[p].gen /\ nodes'[p].exe = task[p].gen
                    /\ nodes'[p].ppid \in Had(p)
               /\ ~task[p].alive /\ ~Waits("exit", p)' => nodes'[p].st # "live"
    <3>1. /\ task[p].alive /\ ~Waits("fork", p) =>
               /\ nodes[p].st = "live"
               /\ nodes[p].of = task[p].gen /\ nodes[p].exe = task[p].gen
               /\ nodes[p].ppid \in Had(p)
          /\ ~task[p].alive /\ ~Waits("exit", p) => nodes[p].st # "live"
      BY <1>4, <1>9, <2>2 DEF EventInv, MirrorInv
    <3>2. CASE p # e.pid
      BY <1>4, <1>6, <2>2, <3>1, <3>2
    <3>3. CASE p = e.pid
      <4>1. ASSUME task[p].alive, ~Waits("fork", p)'
            PROVE  /\ nodes'[p].st = "live"
                   /\ nodes'[p].of = task[p].gen /\ nodes'[p].exe = task[p].gen
                   /\ nodes'[p].ppid \in Had(p)
        <5>1. Current(1) /\ e.kind # "exit" /\ e.gen = task[p].gen /\ e.ppid \in Had(p)
          BY <1>6, <1>7, <1>11, <3>3, <4>1
        <5>2. CASE e.kind = "fork"
          BY <1>4, <3>3, <4>1, <5>1, <5>2 DEF exe_path_of
        <5>3. CASE e.kind = "exec"
          BY <1>4, <1>6, <3>1, <3>3, <4>1, <5>1, <5>3 DEF ExecExe, exe_path_of
        <5> QED
          BY <1>3, <5>1, <5>2, <5>3
      <4>2. ASSUME ~task[p].alive, ~Waits("exit", p)'
            PROVE  nodes'[p].st # "live"
        BY <1>4, <1>6, <1>11, <3>3, <4>2
      <4> QED
        BY <4>1, <4>2
    <3> QED
      BY <3>2, <3>3
  <2> QED
    BY <1>1, <1>5, <2>1, <2>2 DEF MirrorInv
<1> QED
  BY <1>10, <1>12, <1>13

(* The queue and the kernel as they were: what waits does not change.      *)
LEMMA SameQueue ==
  ASSUME UNCHANGED <<task, queue, lost>>, OrderInv
  PROVE  /\ \A kind, p : Waits(kind, p)' <=> Waits(kind, p)
         /\ \A p \in Pids : task'[p] = task[p] /\ Had(p)' = Had(p)
         /\ OrderInv'
  BY DEF Waits, After, Current, Had, OrderInv

(* The bootstrap adds the next pid of /proc.                               *)
LEMMA BootstrapEvents ==
  ASSUME IInv, EventInv, bootstrap
  PROVE  EventInv'
<1> DEFINE seen == LiveNode(task[scan].parent, Tick(task[scan].gen), task[scan].gen,
                    exe_path_of(scan))
           blank == LiveNode(0, 0, 0, 0)
<1>1. /\ scan \in Pids /\ scan' = scan + 1 /\ UNCHANGED <<task, queue, lost>>
      /\ N \in Nat /\ scan \in 1..(N + 1) /\ scan <= N
  BY PidType DEF bootstrap, kernel, EventInv, MirrorInv, Pids
<1>2. /\ task[scan].gen \in Nat /\ task[scan].parent \in Had(scan)
      /\ nodes \in [Pids -> Nodes \cup {NoNode}]
  BY <1>1 DEF IInv, TaskType, Had
<1>3. /\ seen.st = "live" /\ seen.of = task[scan].gen
      /\ seen.ppid = task[scan].parent /\ \A g \in Nat : seen.start # Exact(g)
      /\ task[scan].alive => seen.exe = task[scan].gen
  BY <1>2, TickIsNotExact DEF LiveNode, exe_path_of
<1>4. blank.ppid = 0 /\ \A g \in Nat : blank.start # Exact(g)
  BY TickIsNotExact DEF LiveNode
<1> HIDE DEF seen, blank
<1>5. /\ \A q \in Pids \ {scan} : nodes'[q] \in {nodes[q], NoNode}
      /\ ~evicted' => ~evicted /\ \A q \in Pids \ {scan} : nodes'[q] = nodes[q]
      /\ \/ task[scan].alive /\ nodes'[scan] = seen
         \/ ~task[scan].alive /\ task[scan].gen > 0 /\ nodes'[scan] = blank
         \/ ~task[scan].alive /\ UNCHANGED <<nodes, evicted>>
  <2>1. CASE task[scan].alive /\ upsert(scan, seen)
    BY <1>1, <1>2, <2>1, UpsertEffect
  <2>2. CASE ~task[scan].alive /\ task[scan].gen > 0 /\ upsert(scan, blank)
    BY <1>1, <1>2, <2>2, UpsertEffect
  <2>3. CASE ~task[scan].alive /\ UNCHANGED tree
    BY <2>3 DEF tree
  <2> QED
    BY <2>1, <2>2, <2>3 DEF bootstrap, seen, blank
<1>6. /\ \A kind, p : Waits(kind, p)' <=> Waits(kind, p)
      /\ \A p \in Pids : task'[p] = task[p] /\ Had(p)' = Had(p)
      /\ OrderInv'
  BY <1>1, SameQueue DEF EventInv
<1>7. \A p \in Pids : \A g \in Nat : nodes'[p].start = Exact(g)
        => nodes[p].start = Exact(g)
  <2>1. \A g \in Nat : NoNode.start # Exact(g)
    BY TickIsNotExact DEF NoNode
  <2> QED
    BY <1>3, <1>4, <1>5, <2>1
<1>8. KernelInv'
  BY <1>1, <1>6, <1>7 DEF EventInv, KernelInv, Current
<1>9. ParentInv'
  <2> SUFFICES ASSUME ~lost, NEW p \in Pids
               PROVE  /\ Waits("fork", p) => nodes'[p].start # Exact(task[p].gen)
                      /\ ~Waits("fork", p) /\ InTree(p)'
                           => nodes'[p].ppid \in {0} \cup Had(p)
    BY <1>1, <1>6 DEF ParentInv
  <2>1. /\ Waits("fork", p) => nodes[p].start # Exact(task[p].gen)
        /\ ~Waits("fork", p) /\ InTree(p) => nodes[p].ppid \in {0} \cup Had(p)
        /\ task[p].gen \in Nat
    BY KernelTypes DEF EventInv, ParentInv
  <2>2. NoNode.st = "none"
    BY DEF NoNode
  <2>3. Waits("fork", p) => nodes'[p].start # Exact(task[p].gen)
    BY <1>7, <2>1
  <2>4. ~Waits("fork", p) /\ InTree(p)' => nodes'[p].ppid \in {0} \cup Had(p)
    BY <1>2, <1>3, <1>4, <1>5, <2>1, <2>2 DEF InTree
  <2> QED
    BY <2>3, <2>4
<1>10. MirrorInv'
  <2>1. scan' \in 1..(N + 1)
    BY <1>1
  <2>2. ASSUME NEW p \in scan'..N PROVE ~InTree(p)'
    <3>1. p \in Pids \ {scan} /\ p \in scan..N
      BY <1>1, <2>2 DEF Pids
    <3> QED
      BY <1>1, <1>5, <3>1 DEF InTree, NoNode, EventInv, MirrorInv
  <2>3. ASSUME ~lost, NEW p \in Pids, ~task[p].alive, task[p].gen > 0
        PROVE  Waits("exit", p)
    BY <1>1, <2>3 DEF EventInv, MirrorInv
  <2>4. ASSUME ~lost, ~evicted', NEW p \in Pids, p < scan'
        PROVE  /\ task[p].alive /\ ~Waits("fork", p) =>
                    /\ nodes'[p].st = "live"
                    /\ nodes'[p].of = task[p].gen /\ nodes'[p].exe = task[p].gen
                    /\ nodes'[p].ppid \in Had(p)
               /\ ~task[p].alive /\ ~Waits("exit", p) => nodes'[p].st # "live"
    <3>1. CASE p = scan
      <4>1. task[p].alive => nodes'[p] = seen
        BY <1>5, <3>1
      <4>2. ~task[p].alive /\ ~Waits("exit", p) => nodes'[p] = nodes[p]
        BY <1>5, <2>3, <2>4, <3>1
      <4>3. ~InTree(p)
        <5>1. scan \in scan..N
          BY <1>1
        <5> QED
          BY <1>1, <3>1, <5>1 DEF EventInv, MirrorInv
      <4> QED
        BY <1>2, <1>3, <3>1, <4>1, <4>2, <4>3 DEF InTree
    <3>2. CASE p # scan
      <4>1. p < scan
        BY <1>1, <2>4, <3>2 DEF Pids
      <4> QED
        BY <1>5, <2>4, <3>2, <4>1 DEF EventInv, MirrorInv
    <3> QED
      BY <3>1, <3>2
  <2> QED
    BY <1>1, <1>6, <2>1, <2>2, <2>3, <2>4 DEF MirrorInv
<1> QED
  BY <1>6, <1>8, <1>9, <1>10 DEF EventInv

(* Steps that leave the nodes' data, or drop nodes of processes that are   *)
(* gone.                                                                   *)
LEMMA DroppedEvents ==
  ASSUME IInv, EventInv, UNCHANGED <<task, queue, lost, scan, evicted>>,
         \A p \in Pids :
           \/ nodes[p].st = "exited" /\ nodes'[p] = NoNode
           \/ /\ nodes'[p].st = nodes[p].st /\ nodes'[p].ppid = nodes[p].ppid
              /\ nodes'[p].start = nodes[p].start /\ nodes'[p].of = nodes[p].of
              /\ nodes'[p].exe = nodes[p].exe
  PROVE  EventInv'
<1>1. /\ \A kind, p : Waits(kind, p)' <=> Waits(kind, p)
      /\ \A p \in Pids : task'[p] = task[p] /\ Had(p)' = Had(p)
      /\ OrderInv'
  BY SameQueue DEF EventInv
<1>2. /\ \A g \in Nat : NoNode.start # Exact(g)
      /\ NoNode.st = "none" /\ \A p \in Pids : task[p].gen \in Nat
  BY TickIsNotExact, KernelTypes DEF NoNode
<1>3. KernelInv'
  BY <1>1, <1>2 DEF EventInv, KernelInv, Current
<1>4. ParentInv'
  BY <1>1, <1>2 DEF EventInv, ParentInv, InTree
<1>5. MirrorInv'
  <2>1. /\ scan' \in 1..(N + 1)
        /\ (~lost /\ scan <= N) =>
             \A p \in Pids : ~task[p].alive /\ task[p].gen > 0 => Waits("exit", p)
    BY DEF EventInv, MirrorInv
  <2>2. ASSUME scan <= N, NEW p \in scan..N PROVE ~InTree(p)'
    <3>1. p \in Pids /\ ~InTree(p)
      BY <2>2, PidType DEF EventInv, MirrorInv, Pids
    <3> QED
      BY <1>2, <3>1 DEF InTree
  <2>3. ASSUME ~lost, ~evicted, NEW p \in Pids, p < scan
        PROVE  /\ task[p].alive /\ ~Waits("fork", p) =>
                    /\ nodes'[p].st = "live"
                    /\ nodes'[p].of = task[p].gen /\ nodes'[p].exe = task[p].gen
                    /\ nodes'[p].ppid \in Had(p)
               /\ ~task[p].alive /\ ~Waits("exit", p) => nodes'[p].st # "live"
    <3>1. /\ task[p].alive /\ ~Waits("fork", p) =>
               /\ nodes[p].st = "live"
               /\ nodes[p].of = task[p].gen /\ nodes[p].exe = task[p].gen
               /\ nodes[p].ppid \in Had(p)
          /\ ~task[p].alive /\ ~Waits("exit", p) => nodes[p].st # "live"
      BY <2>3 DEF EventInv, MirrorInv
    <3> QED
      BY <1>2, <3>1
  <2> QED
    BY <1>1, <2>1, <2>2, <2>3 DEF MirrorInv
<1> QED
  BY <1>1, <1>3, <1>4, <1>5 DEF EventInv

LEMMA InitEvents == Init => EventInv
<1> SUFFICES ASSUME Init PROVE EventInv
  OBVIOUS
<1>1. PICK s \in AtStart :
        task = [p \in Pids |->
                 [gen |-> IF p \in s THEN 1 ELSE 0, alive |-> p \in s,
                  forker |-> IF p = Root THEN 0 ELSE Root,
                  parent |-> IF p = Root THEN 0 ELSE Root]]
  BY DEF Init
<1>2. \A p \in Pids : /\ task[p].parent = task[p].forker
                      /\ ~task[p].alive => task[p].gen = 0
  BY <1>1
<1>3. /\ Len(queue) = 0 /\ 1..Len(queue) = {} /\ scan = 1
      /\ \A p \in Pids : nodes[p] = NoNode
  BY DEF Init
<1>4. /\ \A g \in Nat : NoNode.start # Exact(g)
      /\ NoNode.st = "none" /\ \A p \in Pids : task[p].gen \in Nat
  BY TickIsNotExact, InitIInv, KernelTypes DEF NoNode
<1>5. \A kind, p : ~Waits(kind, p)
  BY <1>3 DEF Waits, After
<1>6. KernelInv
  BY <1>2, <1>3, <1>4 DEF KernelInv
<1>7. OrderInv /\ ParentInv
  BY <1>3, <1>4, <1>5 DEF OrderInv, ParentInv, InTree
<1>8. MirrorInv
  <2>1. scan \in 1..(N + 1) /\ \A p \in Pids : ~(p < scan)
    BY <1>3, PidType DEF Pids
  <2>2. \A p \in scan..N : ~InTree(p)
    BY <1>3, <1>4, PidType DEF Pids, InTree
  <2> QED
    BY <1>2, <2>1, <2>2 DEF MirrorInv
<1> QED
  BY <1>6, <1>7, <1>8 DEF EventInv

LEMMA StepEvents == IInv /\ EventInv /\ [Next]_vars => EventInv'
<1> SUFFICES ASSUME IInv, EventInv, [Next]_vars PROVE EventInv'
  OBVIOUS
<1>1. CASE Ripen
  <2>1. \A p \in Pids :
          /\ nodes'[p].st = nodes[p].st /\ nodes'[p].ppid = nodes[p].ppid
          /\ nodes'[p].start = nodes[p].start /\ nodes'[p].of = nodes[p].of
          /\ nodes'[p].exe = nodes[p].exe
    <3> SUFFICES ASSUME NEW p \in Pids
                 PROVE  /\ nodes'[p].st = nodes[p].st /\ nodes'[p].ppid = nodes[p].ppid
                        /\ nodes'[p].start = nodes[p].start
                        /\ nodes'[p].of = nodes[p].of
                        /\ nodes'[p].exe = nodes[p].exe
      OBVIOUS
    <3>1. nodes'[p] = IF nodes[p].st = "exited"
                        THEN [nodes[p] EXCEPT !.ripe = TRUE] ELSE nodes[p]
      BY <1>1 DEF Ripen
    <3>2. nodes[p].st = "exited" => nodes[p] \in Nodes
      BY KernelTypes DEF NoNode
    <3> QED
      BY <3>1, <3>2 DEF Nodes
  <2> QED
    BY <1>1, <2>1, DroppedEvents DEF Ripen, kernel
<1>2. CASE sweep_tombstones
  <2>1. \A p \in Pids : \/ nodes[p].st = "exited" /\ nodes'[p] = NoNode
                        \/ nodes'[p] = nodes[p]
    BY <1>2 DEF sweep_tombstones, Ripe
  <2> QED
    BY <1>2, <2>1, DroppedEvents DEF sweep_tombstones, kernel
<1>3. CASE (\E f \in FileEvents : ConsumeFile(f)) \/ UNCHANGED vars
  BY <1>3, DroppedEvents DEF ConsumeFile, kernel, tree, vars
<1> QED
  BY <1>1, <1>2, <1>3, ForkEvents, ExecExitEvents, ConsumeEvents, BootstrapEvents DEF Next

LEMMA InitLru == Init => LruInv
<1> SUFFICES ASSUME Init PROVE LruInv
  OBVIOUS
<1>1. /\ lru = <<>> /\ lru \in Seq(Pids) /\ Len(lru) = 0 /\ 1..Len(lru) = {}
      /\ kMaxNodes \in Sizes
  BY DEF Init
<1>2. TreeSet = {}
  BY DEF Init, TreeSet, InTree, NoNode
<1>3. 0 <= kMaxNodes
  BY <1>1, ProcessTreeAssumption
<1> QED
  BY <1>1, <1>2, <1>3 DEF LruInv, Simple, Elems

(* All of it holds in every state.                                         *)
LEMMA TreeInvariants == Spec => [](IInv /\ LruInv /\ EventInv)
<1>1. Init => IInv /\ LruInv /\ EventInv
  BY InitIInv, InitLru, InitEvents
<1>2. IInv /\ LruInv /\ EventInv /\ [Next]_vars => (IInv /\ LruInv /\ EventInv)'
  BY StepIInv, StepLru, StepEvents
<1> QED
  BY <1>1, <1>2, PTL DEF Spec

LEMMA EventsMirror == IInv /\ EventInv => Mirror
<1> SUFFICES ASSUME IInv, EventInv, Quiet, NEW p \in Pids
             PROVE  IF task[p].alive
                      THEN /\ nodes[p].st = "live"
                           /\ nodes[p].of = task[p].gen /\ nodes[p].exe = task[p].gen
                           /\ nodes[p].ppid \in Had(p)
                      ELSE nodes[p].st # "live"
  BY DEF Mirror, Had
<1>1. /\ p < scan /\ ~lost /\ ~evicted /\ 1..Len(queue) = {}
  BY PidType DEF Quiet, Pids, EventInv, MirrorInv
<1>2. \A kind : ~Waits(kind, p)
  BY <1>1 DEF Waits, After
<1> QED
  BY <1>1, <1>2 DEF EventInv, MirrorInv

(* Once every process event is applied, and none was lost or evicted, the  *)
(* tree is what the kernel has: the bootstrap may scan /proc while events  *)
(* are under way (bootstrap_proc_tree, ProcessTree::apply_fork and its     *)
(* like).                                                                  *)
THEOREM TreeMirrorsKernel == Spec => []Mirror
<1>1. IInv /\ LruInv /\ EventInv => Mirror
  BY EventsMirror
<1> QED
  BY <1>1, TreeInvariants, PTL

LEMMA EventsParent == IInv /\ EventInv => ParentOfActor
<1> SUFFICES ASSUME IInv, EventInv, ~lost, NEW f \in FileEvents,
                    build_file_actor(f).valid, f.gen = task[f.pid].gen
             PROVE  build_file_actor(f).ppid \in {0} \cup Had(f.pid)
  BY DEF ParentOfActor, Had
<1>1. f.pid \in Pids /\ f.gen \in Nat
  BY DEF FileEvents, IInv, TaskType
<1>2. find(f.pid, Exact(f.gen)) /\ build_file_actor(f).ppid = nodes[f.pid].ppid
  BY DEF build_file_actor
<1>3. InTree(f.pid) /\ nodes[f.pid].start = Exact(task[f.pid].gen)
  BY <1>2 DEF find
<1>4. ~Waits("fork", f.pid)
  BY <1>1, <1>3 DEF EventInv, ParentInv
<1> QED
  BY <1>1, <1>2, <1>3, <1>4 DEF EventInv, ParentInv

(* The parent in a file event's actor is one its instance has had, never   *)
(* a stranger's: a node that is dated to the running instance got its      *)
(* parent from it (build_file_actor, ProcessTree::apply_exec).             *)
THEOREM ParentIsOwn == Spec => []ParentOfActor
<1>1. IInv /\ LruInv /\ EventInv => ParentOfActor
  BY EventsParent
<1> QED
  BY <1>1, TreeInvariants, PTL

-----------------------------------------------------------------------------
(* The chains of ancestors. *)

Links == [pid : Pids, of : Nat, exe : Nat]
Walks == [up : 0..N, chain : Seq(Links)]

LEMMA StepUpType ==
  ASSUME IInv, NEW p \in Pids, NEW w \in Walks
  PROVE  StepUp(p, w) \in Walks
<1> DEFINE met == {0, p} \cup {w.chain[i].pid : i \in 1..Len(w.chain)}
<1>1. w.up \in 0..N /\ w.chain \in Seq(Links) /\ 0 \in 0..N
  BY PidType DEF Walks
<1>2. CASE w.up \notin met /\ InTree(w.up)
  <2>1. w.up \in Pids
    BY <1>1, <1>2 DEF Pids
  <2>2. nodes[w.up].ppid \in 0..N /\ nodes[w.up].of \in Nat /\ nodes[w.up].exe \in Nat
    BY <1>2, <2>1 DEF IInv, InTree, Nodes, NoNode
  <2>3. Link(w.up) \in Links
    BY <2>1, <2>2 DEF Links, Link
  <2>4. StepUp(p, w) = [up |-> nodes[w.up].ppid,
                        chain |-> Append(w.chain, Link(w.up))]
    BY <1>2 DEF StepUp
  <2> QED
    BY <1>1, <2>2, <2>3, <2>4 DEF Walks
<1>3. CASE w.up \in met \/ ~InTree(w.up)
  <2>1. StepUp(p, w) = [w EXCEPT !.up = 0]
    BY <1>3 DEF StepUp
  <2> QED
    BY <1>1, <2>1 DEF Walks
<1> QED
  BY <1>2, <1>3

(* The chain is the last of a sequence of walks, one step up each.         *)
LEMMA ChainWalk ==
  ASSUME IInv, NEW p \in Pids, NEW first \in 0..N
  PROVE  \E walk \in [0..kMaxAncestors -> Walks] :
           /\ walk[0] = [up |-> first, chain |-> <<>>]
           /\ \A k \in 1..kMaxAncestors : walk[k] = StepUp(p, walk[k - 1])
           /\ ChainFrom(p, first) = walk[kMaxAncestors].chain
<1> DEFINE b == [up |-> first, chain |-> <<>>]
           st == [k \in Nat |-> [w \in Walks |-> StepUp(p, w)]]
           Def(g) == g = [k \in 0..kMaxAncestors |->
                            IF k = 0 THEN [up |-> first, chain |-> <<>>]
                            ELSE StepUp(p, g[k - 1])]
<1>0. kMaxAncestors \in Nat
  BY ProcessTreeAssumption
<1>1. b \in Walks /\ st \in [Nat -> [Walks -> Walks]]
  BY StepUpType DEF Walks
<1>2. PICK g \in [0..kMaxAncestors -> Walks] : IsRecursive(g, b, st, kMaxAncestors)
  <2> HIDE DEF b, st
  <2> QED
    BY <1>0, <1>1, Recursion
<1>3. ASSUME NEW h, IsRecursive(h, b, st, kMaxAncestors),
             h \in [0..kMaxAncestors -> Walks]
      PROVE  Def(h)
  <2>1. ASSUME NEW k \in 0..kMaxAncestors
        PROVE  h[k] = IF k = 0 THEN b ELSE StepUp(p, h[k - 1])
    <3>1. CASE k = 0
      BY <1>3, <3>1 DEF IsRecursive
    <3>2. CASE k # 0
      <4>1. k \in Nat /\ k - 1 \in 0..kMaxAncestors
        BY <1>0, <3>2
      <4>2. h[k] = st[k][h[k - 1]] /\ h[k - 1] \in Walks
        BY <1>3, <3>2, <4>1 DEF IsRecursive
      <4> QED
        BY <3>2, <4>1, <4>2
    <3> QED
      BY <3>1, <3>2
  <2> QED
    BY <1>3, <2>1 DEF IsRecursive
<1> DEFINE walk == CHOOSE h : Def(h)
<1>4. Def(walk)
  BY <1>2, <1>3
<1>5. ChainFrom(p, first) = walk[kMaxAncestors].chain
  BY DEF ChainFrom
<1> HIDE DEF walk
<1>6. /\ walk[0] = b
      /\ \A k \in 1..kMaxAncestors : walk[k] = StepUp(p, walk[k - 1])
  <2>1. \A k \in 0..kMaxAncestors :
          walk[k] = IF k = 0 THEN b ELSE StepUp(p, walk[k - 1])
    BY <1>4
  <2> HIDE DEF Def, b
  <2> QED
    BY <1>0, <2>1
<1>7. walk \in [0..kMaxAncestors -> Walks]
  <2> DEFINE T == {k \in Nat : k <= kMaxAncestors => walk[k] \in Walks}
  <2>1. 0 \in T
    BY <1>1, <1>6
  <2>2. ASSUME NEW k \in Nat, k \in T PROVE k + 1 \in T
    <3>1. k + 1 <= kMaxAncestors => /\ walk[k] \in Walks
                                    /\ walk[k + 1] = StepUp(p, walk[k])
      BY <1>0, <1>6, <2>2
    <3> QED
      BY <3>1, StepUpType
  <2>3. Nat \subseteq T
    <3> HIDE DEF T
    <3> QED
      BY <2>1, <2>2, Induct
  <2>4. \A k \in 0..kMaxAncestors : walk[k] \in Walks
    BY <1>0, <2>3
  <2>5. walk = [k \in 0..kMaxAncestors |-> walk[k]]
    BY <1>4
  <2> QED
    BY <2>4, <2>5
<1> QED
  BY <1>5, <1>6, <1>7

(* No pid twice, and not the process itself.                               *)
Apart(p, chain) ==
  \A i, j \in 1..Len(chain) :
    chain[i].pid # p /\ (i # j => chain[i].pid # chain[j].pid)

LEMMA StepUpApart ==
  ASSUME IInv, NEW p \in Pids, NEW w \in Walks, Apart(p, w.chain)
  PROVE  /\ Apart(p, StepUp(p, w).chain)
         /\ Len(StepUp(p, w).chain) <= Len(w.chain) + 1
<1> DEFINE met == {0, p} \cup {w.chain[i].pid : i \in 1..Len(w.chain)}
           link == Link(w.up)
<1>1. w.chain \in Seq(Links) /\ Len(w.chain) \in Nat
  BY DEF Walks
<1>2. CASE w.up \notin met /\ InTree(w.up)
  <2>1. StepUp(p, w).chain = Append(w.chain, link)
    BY <1>2 DEF StepUp
  <2>2. link.pid = w.up
    BY DEF Link
  <2> HIDE DEF link
  <2> DEFINE c == Append(w.chain, link)
  <2>3. /\ Len(c) = Len(w.chain) + 1 /\ c[Len(w.chain) + 1] = link
        /\ \A i \in 1..Len(w.chain) : c[i] = w.chain[i]
        /\ \A i \in 1..Len(c) : i \in 1..Len(w.chain) \/ i = Len(w.chain) + 1
    BY <1>1
  <2> HIDE DEF c
  <2>4. Apart(p, c)
    <3> SUFFICES ASSUME NEW i \in 1..Len(c), NEW j \in 1..Len(c)
                 PROVE  c[i].pid # p /\ (i # j => c[i].pid # c[j].pid)
      BY DEF Apart
    <3>1. /\ w.up # p /\ \A k \in 1..Len(w.chain) : w.up # w.chain[k].pid
      BY <1>2
    <3>2. CASE i \in 1..Len(w.chain) /\ j \in 1..Len(w.chain)
      BY <2>3, <3>2 DEF Apart
    <3>3. CASE i = Len(w.chain) + 1
      BY <2>2, <2>3, <3>1, <3>3
    <3>4. CASE j = Len(w.chain) + 1
      BY <2>2, <2>3, <3>1, <3>4 DEF Apart
    <3> QED
      BY <2>3, <3>2, <3>3, <3>4
  <2> QED
    BY <1>1, <2>1, <2>3, <2>4 DEF c
<1>3. CASE w.up \in met \/ ~InTree(w.up)
  <2>1. StepUp(p, w).chain = w.chain
    BY <1>3 DEF StepUp, Walks
  <2> QED
    BY <1>1, <2>1
<1> QED
  BY <1>2, <1>3

LEMMA ChainFromFacts ==
  ASSUME IInv, NEW p \in Pids, NEW first \in 0..N
  PROVE  LET chain == ChainFrom(p, first)
         IN  /\ chain \in Seq(Links) /\ Len(chain) <= kMaxAncestors
             /\ Apart(p, chain)
<1>0. kMaxAncestors \in Nat
  BY ProcessTreeAssumption
<1>1. PICK walk \in [0..kMaxAncestors -> Walks] :
        /\ walk[0] = [up |-> first, chain |-> <<>>]
        /\ \A k \in 1..kMaxAncestors : walk[k] = StepUp(p, walk[k - 1])
        /\ ChainFrom(p, first) = walk[kMaxAncestors].chain
  BY ChainWalk
<1> DEFINE T == {k \in Nat : k <= kMaxAncestors =>
                    Apart(p, walk[k].chain) /\ Len(walk[k].chain) <= k}
<1>2. 0 \in T
  <2>1. walk[0].chain = <<>> /\ Len(<<>>) = 0 /\ 1..0 = {}
    BY <1>1
  <2>2. Apart(p, <<>>)
    BY <2>1 DEF Apart
  <2> QED
    BY <2>1, <2>2
<1>3. ASSUME NEW k \in Nat, k \in T PROVE k + 1 \in T
  <2> SUFFICES ASSUME k + 1 <= kMaxAncestors
               PROVE  Apart(p, walk[k + 1].chain) /\ Len(walk[k + 1].chain) <= k + 1
    OBVIOUS
  <2>1. k \in 0..kMaxAncestors /\ k + 1 \in 1..kMaxAncestors /\ (k + 1) - 1 = k
    BY <1>0
  <2>2. /\ walk[k] \in Walks /\ walk[k + 1] = StepUp(p, walk[k])
        /\ walk[k + 1] \in Walks
    BY <1>1, <2>1
  <2>3. Apart(p, walk[k].chain) /\ Len(walk[k].chain) <= k
    BY <1>3, <2>1
  <2>4. Len(walk[k].chain) \in Nat /\ Len(walk[k + 1].chain) \in Nat
    BY <2>2 DEF Walks
  <2> QED
    BY <2>2, <2>3, <2>4, StepUpApart
<1>4. kMaxAncestors \in T
  <2> HIDE DEF T
  <2> QED
    BY <1>0, <1>2, <1>3, Induct
<1>5. walk[kMaxAncestors] \in Walks
  BY <1>0, <1>1
<1> QED
  BY <1>0, <1>1, <1>4, <1>5 DEF Walks

(* What the cache has recorded, and the types the other parts left open.   *)
CacheInv ==
  \A c \in cache : /\ c.chain \in Seq(Links) /\ Len(c.chain) <= kMaxAncestors
                   /\ Apart(c.pid, c.chain)

RestType ==
  /\ starts \in [fork : Nat, exec : Nat, blank : SUBSET Pids]
  /\ lost \in BOOLEAN /\ evicted \in BOOLEAN

LEMMA InitRest == Init => CacheInv /\ RestType
<1> SUFFICES ASSUME Init PROVE CacheInv /\ RestType
  OBVIOUS
<1>1. cache = {} /\ starts = [fork |-> 0, exec |-> 0, blank |-> {}] /\ lost = FALSE /\ evicted = FALSE
  BY DEF Init
<1> QED
  BY <1>1 DEF CacheInv, RestType

LEMMA StepCache == IInv /\ CacheInv /\ [Next]_vars => CacheInv'
<1> SUFFICES ASSUME IInv, CacheInv, [Next]_vars PROVE CacheInv'
  OBVIOUS
<1>1. CASE UNCHANGED cache
  BY <1>1 DEF CacheInv
<1>2. ASSUME NEW f \in FileEvents, ConsumeFile(f)
      PROVE  CacheInv'
  <2> DEFINE ppid == build_file_actor(f).ppid
             first == IF InTree(f.pid) THEN nodes[f.pid].ppid ELSE ppid
             new == [pid |-> f.pid, gen |-> f.gen, chain |-> ancestors_of(f.pid, ppid)]
  <2>1. f.pid \in Pids
    BY DEF FileEvents
  <2>2. InTree(f.pid) => nodes[f.pid].ppid \in 0..N
    BY <2>1 DEF IInv, InTree, Nodes, NoNode
  <2>3. ppid \in 0..N
    BY <2>2, PidType DEF build_file_actor, find
  <2>4. first \in 0..N
    BY <2>2, <2>3
  <2>5. new.chain = ChainFrom(f.pid, first) /\ new.pid = f.pid
    BY DEF ancestors_of
  <2>6. \A c \in cache' : c \in cache \/ c = new
    BY <1>2 DEF ConsumeFile, cached_ancestors_of
  <2> HIDE DEF new, first
  <2>7. /\ new.chain \in Seq(Links) /\ Len(new.chain) <= kMaxAncestors
        /\ Apart(new.pid, new.chain)
    BY <2>1, <2>4, <2>5, ChainFromFacts
  <2> QED
    BY <2>6, <2>7 DEF CacheInv
<1>3. CASE Consume \/ bootstrap \/ Ripen \/ sweep_tombstones \/ UNCHANGED vars
  BY <1>1, <1>3 DEF Consume, bootstrap, Ripen, sweep_tombstones, vars
<1>4. CASE (\E p, c \in Pids : Fork(p, c)) \/ (\E p \in Pids : Exec(p) \/ Exit(p))
  BY <1>1, <1>4 DEF Fork, Exec, Exit
<1> QED
  BY <1>2, <1>3, <1>4 DEF Next

LEMMA StepRest == RestType /\ [Next]_vars => RestType'
<1> SUFFICES ASSUME RestType, [Next]_vars PROVE RestType'
  OBVIOUS
<1>1. starts' \in [fork : Nat, exec : Nat, blank : SUBSET Pids]
  <2>1. CASE UNCHANGED starts
    BY <2>1 DEF RestType
  <2>2. ASSUME NEW p \in Pids, NEW c \in Pids, Fork(p, c)
        PROVE  starts' \in [fork : Nat, exec : Nat, blank : SUBSET Pids]
    BY <2>2 DEF Fork, RestType
  <2>3. ASSUME NEW p \in Pids, NEW named \in BOOLEAN, CountExec(p, named)
        PROVE  starts' \in [fork : Nat, exec : Nat, blank : SUBSET Pids]
    <3> DEFINE blank == IF named THEN starts.blank ELSE starts.blank \cup {p}
    <3>1. /\ starts.fork \in Nat /\ starts.exec + 1 \in Nat /\ starts.blank \subseteq Pids
          /\ starts = [fork |-> starts.fork, exec |-> starts.exec, blank |-> starts.blank]
      BY DEF RestType
    <3>2. blank \in SUBSET Pids
      BY <3>1
    <3>3. starts' = [fork |-> starts.fork, exec |-> starts.exec + 1, blank |-> blank]
      BY <2>3, <3>1 DEF CountExec
    <3> HIDE DEF blank
    <3> QED
      BY <3>1, <3>2, <3>3
  <2>4. CASE \/ bootstrap \/ Consume \/ Ripen \/ sweep_tombstones \/ UNCHANGED vars
             \/ (\E f \in FileEvents : ConsumeFile(f)) \/ (\E p \in Pids : Exit(p))
    BY <2>1, <2>4 DEF Exit, bootstrap, Consume, Ripen, sweep_tombstones, ConsumeFile,
                      kernel, vars
  <2> QED
    BY <2>2, <2>3, <2>4 DEF Next, Exec
<1>2. lost' \in BOOLEAN
  BY DEF RestType, Next, Fork, Exec, Exit, Emit, bootstrap, Consume, Ripen,
         sweep_tombstones, ConsumeFile, kernel, vars
<1>3. evicted' \in BOOLEAN
  <2>1. \A p, node : upsert(p, node) => evicted' \in BOOLEAN
    BY DEF RestType, upsert
  <2>2. \A e : apply(e) => evicted' \in BOOLEAN
    BY <2>1 DEF RestType, apply, ApplyFork, ApplyExec, ApplyExit
  <2> QED
    BY <2>1, <2>2 DEF RestType, Next, Fork, Exec, Exit, bootstrap, Consume, Ripen,
       sweep_tombstones, ConsumeFile, tree, vars
<1> QED
  BY <1>1, <1>2, <1>3 DEF RestType

LEMMA CacheInvariants == Spec => [](CacheInv /\ RestType)
<1>1. Init => CacheInv /\ RestType
  BY InitRest
<1>2. IInv /\ CacheInv /\ RestType /\ [Next]_vars => (CacheInv /\ RestType)'
  BY StepCache, StepRest
<1> QED
  BY <1>1, <1>2, TreeInvariants, PTL DEF Spec

LEMMA CacheIsSimple == CacheInv => ChainsAreSimple
  BY DEF CacheInv, ChainsAreSimple, Apart

(* A recorded chain never names a pid twice nor the process itself, also   *)
(* when reused pids have closed the parents of the tree into a circle      *)
(* (Enricher::ancestors_of).                                               *)
THEOREM ChainsEnd == Spec => []ChainsAreSimple
<1>1. CacheInv => ChainsAreSimple
  BY CacheIsSimple
<1> QED
  BY <1>1, CacheInvariants, PTL

LEMMA TreeInvHolds == IInv /\ LruInv /\ EventInv /\ CacheInv /\ RestType => TreeInv
<1> SUFFICES ASSUME IInv, LruInv, EventInv, CacheInv, RestType PROVE TreeInv
  OBVIOUS
<1>1. TypeOK
  <2>1. \A c \in cache : c.chain \in Seq([pid : Pids, of : Nat, exe : Nat])
    BY DEF CacheInv, Links
  <2>2. scan \in 1..(N + 1) /\ kMaxNodes \in Sizes /\ lru \in Seq(Pids)
    BY DEF EventInv, MirrorInv, LruInv
  <2> QED
    BY <2>1, <2>2, Zenon DEF TypeOK, IInv, TaskType, RestType
<1>2. LruMatchesNodes
  BY LruCounts DEF LruMatchesNodes, LruInv, Elems, TreeSet
<1>3. ChainsAreSimple
  BY CacheIsSimple
<1> QED
  BY <1>1, <1>2, <1>3 DEF TreeInv

(* What holds of the tree after every event, eviction and sweep: the types *)
(* of all variables, that lru_ names every node of nodes_ once, nothing    *)
(* else, and never more than kMaxNodes (upsert, touch_lru,                 *)
(* sweep_tombstones), and that a recorded chain ends (ancestors_of).       *)
THEOREM ContainersAgree == Spec => []TreeInv
<1>1. (IInv /\ LruInv /\ EventInv) /\ (CacheInv /\ RestType) => TreeInv
  BY TreeInvHolds
<1> QED
  BY <1>1, TreeInvariants, CacheInvariants, PTL

-----------------------------------------------------------------------------
(* Whose exe a node has. *)

(* Of no instance that is still to come; where the node is dated, of that  *)
(* instance while it runs, and of no earlier one unless a filename was     *)
(* missing.                                                                *)
Exes(p) ==
  /\ nodes[p].exe <= task[p].gen
  /\ \A g \in Nat : nodes[p].start = Exact(g) =>
       /\ task[p].alive /\ task[p].gen = g => nodes[p].exe = g
       /\ p \notin starts.blank => nodes[p].exe = 0 \/ g <= nodes[p].exe

ExeInv ==
  /\ \A i \in 1..Len(queue) :
       queue[i].kind = "exec" /\ ~queue[i].named => queue[i].pid \in starts.blank
  /\ \A p \in Pids : Exes(p)

LEMMA InitExe == Init => ExeInv
<1> SUFFICES ASSUME Init PROVE ExeInv
  OBVIOUS
<1>1. 1..Len(queue) = {} /\ \A p \in Pids : nodes[p] = NoNode
  BY DEF Init
<1>2. \A p \in Pids : task[p].gen \in Nat
  BY InitIInv, KernelTypes
<1>3. NoNode.exe = 0 /\ \A g \in Nat : NoNode.start # Exact(g)
  BY TickIsNotExact DEF NoNode
<1> QED
  BY <1>1, <1>2, <1>3 DEF ExeInv, Exes

(* A node that is left, or dropped, while its process goes on or ends.     *)
LEMMA ExesKept ==
  ASSUME IInv, NEW p \in Pids, Exes(p),
         \/ nodes'[p] = NoNode
         \/ nodes'[p].exe = nodes[p].exe /\ nodes'[p].start = nodes[p].start,
         task'[p].gen = task[p].gen, task'[p].alive => task[p].alive,
         starts.blank \subseteq starts'.blank
  PROVE  Exes(p)'
<1>1. task[p].gen \in Nat
  BY KernelTypes
<1>2. NoNode.exe = 0 /\ \A g \in Nat : NoNode.start # Exact(g)
  BY TickIsNotExact DEF NoNode
<1> QED
  BY <1>1, <1>2 DEF Exes

(* A fork begins an instance that no node is dated to yet.                 *)
LEMMA ForkExe ==
  ASSUME IInv, EventInv, RestType, ExeInv, NEW p \in Pids, NEW c \in Pids, Fork(p, c)
  PROVE  ExeInv'
<1>1. /\ task'[c].gen = task[c].gen + 1 /\ UNCHANGED nodes
      /\ \A q \in Pids \ {c} : task'[q] = task[q]
      /\ starts'.blank = starts.blank
  BY DEF Fork, IInv, TaskType, tree, RestType
<1>2. /\ task[c].gen \in Nat /\ task[c].gen + 1 \in Nat /\ p \in 0..N
      /\ nodes[c].exe \in Nat /\ Len(queue) \in Nat
  <2>1. task[c].gen \in Nat /\ p \in 0..N
    BY PidType DEF IInv, TaskType
  <2>2. nodes[c].exe \in Nat /\ Len(queue) \in Nat
    BY DEF IInv, Nodes, NoNode
  <2> QED
    BY <2>1, <2>2
<1>3. \A q \in Pids \ {c} : Exes(q)'
  BY <1>1, ExesKept DEF ExeInv
<1>4. Exes(c)'
  <2>1. \A g \in Nat : nodes[c].start = Exact(g) => g <= task[c].gen
    BY DEF EventInv, KernelInv
  <2>2. Exes(c)
    BY DEF ExeInv
  <2> QED
    BY <1>1, <1>2, <2>1, <2>2 DEF Exes
<1>5. \A i \in 1..Len(queue') :
        queue'[i].kind = "exec" /\ ~queue'[i].named => queue'[i].pid \in starts.blank
  <2> DEFINE e == queue'[Len(queue) + 1]
  <2>1. \/ UNCHANGED queue
        \/ /\ Len(queue') = Len(queue) + 1
           /\ \A i \in 1..Len(queue) : queue'[i] = queue[i]
           /\ e.kind = "fork"
    BY <1>2, Emitted DEF Fork, IInv
  <2> QED
    BY <1>2, <2>1 DEF ExeInv
<1> QED
  BY <1>1, <1>3, <1>4, <1>5 DEF ExeInv

LEMMA ExecExitExe ==
  ASSUME IInv, RestType, ExeInv, NEW p \in Pids, Exec(p) \/ Exit(p)
  PROVE  ExeInv'
<1>1. /\ UNCHANGED nodes
      /\ \A q \in Pids : task'[q].gen = task[q].gen /\ (task'[q].alive => task[q].alive)
      /\ task[p].gen \in Nat /\ task[p].parent \in 0..N /\ Len(queue) \in Nat
  <2>1. UNCHANGED nodes
    BY DEF Exec, Exit, tree
  <2>2. \A q \in Pids : task'[q].gen = task[q].gen /\ (task'[q].alive => task[q].alive)
    BY DEF Exec, Exit, IInv, TaskType
  <2>3. task[p].gen \in Nat /\ task[p].parent \in 0..N /\ Len(queue) \in Nat
    BY DEF IInv, TaskType
  <2> QED
    BY <2>1, <2>2, <2>3
<1> DEFINE e == queue'[Len(queue) + 1]
<1>2. /\ starts.blank \subseteq starts'.blank
      /\ \/ UNCHANGED queue
         \/ /\ Len(queue') = Len(queue) + 1
            /\ \A i \in 1..Len(queue) : queue'[i] = queue[i]
            /\ e.kind = "exec" /\ ~e.named => e.pid \in starts'.blank
  <2>1. CASE Exec(p)
    <3>1. PICK named \in BOOLEAN :
            CountExec(p, named) /\ Emit("exec", p, task[p].parent, task[p].gen, named)
      BY <2>1 DEF Exec
    <3>2. /\ starts.blank \subseteq starts'.blank /\ (~named => p \in starts'.blank)
      BY <3>1 DEF RestType, CountExec
    <3>3. \/ UNCHANGED queue
          \/ /\ Len(queue') = Len(queue) + 1
             /\ \A i \in 1..Len(queue) : queue'[i] = queue[i]
             /\ e.pid = p /\ e.named = named
      BY <1>1, <3>1, Emitted DEF IInv
    <3> QED
      BY <3>2, <3>3
  <2>2. CASE Exit(p)
    <3>1. /\ starts' = starts
          /\ Emit("exit", p, task[p].parent, task[p].gen, FALSE)
      BY <2>2 DEF Exit
    <3>2. \/ UNCHANGED queue
          \/ /\ Len(queue') = Len(queue) + 1
             /\ \A i \in 1..Len(queue) : queue'[i] = queue[i]
             /\ e.kind = "exit"
      BY <1>1, <3>1, Emitted DEF IInv
    <3> QED
      BY <3>1, <3>2
  <2> QED
    BY <2>1, <2>2
<1>3. \A q \in Pids : Exes(q)'
  BY <1>1, <1>2, ExesKept DEF ExeInv
<1>4. \A i \in 1..Len(queue') :
        queue'[i].kind = "exec" /\ ~queue'[i].named => queue'[i].pid \in starts'.blank
  BY <1>1, <1>2 DEF ExeInv
<1> QED
  BY <1>3, <1>4 DEF ExeInv

(* The consumer reads the exe of whoever has the pid now, which is no      *)
(* earlier instance than that of the event.                                *)
LEMMA ConsumeExe ==
  ASSUME IInv, EventInv, ExeInv, Consume
  PROVE  ExeInv'
<1> DEFINE e == Head(queue)
<1>1. /\ queue # <<>> /\ queue' = Tail(queue) /\ apply(e) /\ UNCHANGED <<task, starts>>
  BY DEF Consume
<1>2. /\ 1 \in 1..Len(queue) /\ e = queue[1]
      /\ \A i \in 1..Len(queue') : i + 1 \in 1..Len(queue) /\ queue'[i] = queue[i + 1]
  BY <1>1, Consumed
<1>3. e \in Events /\ e.pid \in Pids /\ e.gen \in Nat /\ e.kind \in {"fork", "exec", "exit"}
  BY <1>2, KernelTypes
<1>4. /\ e.gen <= task[e.pid].gen
      /\ e.gen = task[e.pid].gen /\ e.kind = "exit" => ~task[e.pid].alive
      /\ e.kind = "exec" /\ ~e.named => e.pid \in starts.blank
  BY <1>2 DEF EventInv, KernelInv, Current, ExeInv
<1> HIDE DEF e
<1>5. ASSUME NEW q \in Pids PROVE Exes(q)'
  <2>0. Exes(q)
    BY DEF ExeInv
  <2>1. CASE q # e.pid
    <3>1. nodes'[q] \in {nodes[q], NoNode}
      BY <1>1, <1>3, <2>1, ApplyEffect
    <3> QED
      BY <1>1, <2>0, <3>1, ExesKept
  <2>2. CASE q = e.pid
    <3> DEFINE old == IF InTree(q) THEN nodes[q].exe ELSE 0
    <3>0. task[q].gen \in Nat /\ old \in Nat /\ old <= task[q].gen
      BY <2>0, KernelTypes DEF Exes, Nodes, NoNode
    <3>1. CASE e.kind = "fork"
      <4>1. /\ nodes'[q].exe = exe_path_of(q) /\ \A g \in Nat : nodes'[q].start # Exact(g)
        BY <1>1, <1>3, <2>2, <3>1, ApplyEffect
      <4> QED
        BY <1>1, <3>0, <4>1 DEF Exes, exe_path_of
    <3>2. CASE e.kind = "exec"
      <4>1. nodes'[q].start = Exact(e.gen) /\ nodes'[q].exe = ExecExe(e, old)
        BY <1>1, <1>3, <2>2, <3>2, ApplyEffect
      <4>2. \A g \in Nat : nodes'[q].start = Exact(g) => g = e.gen
        BY <1>3, <4>1, ExactIsInjective
      <4>3. ExecExe(e, old) = IF task[q].alive THEN task[q].gen
                              ELSE IF e.named THEN e.gen ELSE old
        BY <2>2 DEF ExecExe, exe_path_of
      <4>4. /\ ExecExe(e, old) <= task[q].gen
            /\ task[q].alive /\ task[q].gen = e.gen => ExecExe(e, old) = e.gen
            /\ q \notin starts.blank => e.gen <= ExecExe(e, old)
        BY <1>3, <1>4, <2>2, <3>0, <3>2, <4>3
      <4> QED
        BY <1>1, <4>1, <4>2, <4>4 DEF Exes
    <3>3. CASE e.kind = "exit" /\ InTree(q)
      <4>1. nodes'[q].start = nodes[q].start /\ nodes'[q].exe = nodes[q].exe
        BY <1>1, <1>3, <2>2, <3>3, ApplyEffect
      <4> QED
        BY <1>1, <2>0, <4>1, ExesKept
    <3>4. CASE e.kind = "exit" /\ ~InTree(q)
      <4>1. nodes'[q].start = Exact(e.gen) /\ nodes'[q].exe = 0
        BY <1>1, <1>3, <2>2, <3>4, ApplyEffect
      <4>2. \A g \in Nat : nodes'[q].start = Exact(g) => g = e.gen
        BY <1>3, <4>1, ExactIsInjective
      <4> QED
        BY <1>1, <1>4, <2>2, <3>0, <3>4, <4>1, <4>2 DEF Exes
    <3> QED
      BY <1>3, <3>1, <3>2, <3>3, <3>4
  <2> QED
    BY <2>1, <2>2
<1>6. \A i \in 1..Len(queue') :
        queue'[i].kind = "exec" /\ ~queue'[i].named => queue'[i].pid \in starts'.blank
  BY <1>1, <1>2 DEF ExeInv
<1> QED
  BY <1>5, <1>6 DEF ExeInv

LEMMA BootstrapExe ==
  ASSUME IInv, ExeInv, bootstrap
  PROVE  ExeInv'
<1>1. scan \in Pids /\ UNCHANGED <<task, queue, starts>>
  BY DEF bootstrap, kernel
<1>2. /\ nodes \in [Pids -> Nodes \cup {NoNode}] /\ task[scan].gen \in Nat
      /\ \A p \in Pids : Exes(p)
  BY <1>1, KernelTypes DEF IInv, ExeInv
<1>3. ASSUME NEW start \in {0, Tick(task[scan].gen)}, NEW exe \in {0, task[scan].gen},
             NEW ppid, NEW of, upsert(scan, LiveNode(ppid, start, of, exe)), NEW q \in Pids
      PROVE  Exes(q)'
  <2>1. CASE q = scan
    <3>1. nodes'[q].start = start /\ nodes'[q].exe = exe
      BY <1>1, <1>2, <1>3, <2>1, UpsertEffect DEF LiveNode
    <3>2. \A g \in Nat : start # Exact(g)
      BY <1>2, TickIsNotExact
    <3> QED
      BY <1>1, <1>2, <2>1, <3>1, <3>2 DEF Exes
  <2>2. CASE q # scan
    <3>1. nodes'[q] \in {nodes[q], NoNode}
      BY <1>1, <1>2, <1>3, <2>2, UpsertEffect
    <3> QED
      BY <1>1, <1>2, <3>1, ExesKept
  <2> QED
    BY <2>1, <2>2
<1>4. ASSUME NEW q \in Pids PROVE Exes(q)'
  <2>1. CASE upsert(scan, LiveNode(task[scan].parent, Tick(task[scan].gen),
                                   task[scan].gen, exe_path_of(scan)))
    <3>1. exe_path_of(scan) \in {0, task[scan].gen}
      BY DEF exe_path_of
    <3> QED
      BY <1>3, <2>1, <3>1
  <2>2. CASE upsert(scan, LiveNode(0, 0, 0, 0))
    BY <1>3, <2>2
  <2>3. CASE UNCHANGED tree
    BY <1>1, <1>2, <2>3, ExesKept DEF tree
  <2> QED
    BY <2>1, <2>2, <2>3 DEF bootstrap
<1> QED
  BY <1>1, <1>4 DEF ExeInv

LEMMA StepExe == IInv /\ EventInv /\ RestType /\ ExeInv /\ [Next]_vars => ExeInv'
<1> SUFFICES ASSUME IInv, EventInv, RestType, ExeInv, [Next]_vars PROVE ExeInv'
  OBVIOUS
<1>1. ASSUME UNCHANGED <<task, queue, starts>>,
             \A p \in Pids : \/ nodes'[p] = NoNode
                             \/ /\ nodes'[p].exe = nodes[p].exe
                                /\ nodes'[p].start = nodes[p].start
      PROVE  ExeInv'
  BY <1>1, ExesKept DEF ExeInv
<1>2. CASE Ripen
  <2>1. ASSUME NEW p \in Pids
        PROVE  nodes'[p].exe = nodes[p].exe /\ nodes'[p].start = nodes[p].start
    <3>1. nodes'[p] = IF nodes[p].st = "exited"
                        THEN [nodes[p] EXCEPT !.ripe = TRUE] ELSE nodes[p]
      BY <1>2 DEF Ripen
    <3>2. nodes[p].st = "exited" => nodes[p] \in Nodes
      BY KernelTypes DEF NoNode
    <3> QED
      BY <3>1, <3>2 DEF Nodes
  <2> QED
    BY <1>1, <1>2, <2>1 DEF Ripen, kernel
<1>3. CASE sweep_tombstones
  BY <1>1, <1>3 DEF sweep_tombstones, kernel
<1>4. CASE (\E f \in FileEvents : ConsumeFile(f)) \/ UNCHANGED vars
  BY <1>1, <1>4 DEF ConsumeFile, kernel, tree, vars
<1> QED
  BY <1>2, <1>3, <1>4, ForkExe, ExecExitExe, ConsumeExe, BootstrapExe DEF Next

LEMMA ExeInvariant == Spec => []ExeInv
<1>1. Init => ExeInv
  BY InitExe
<1>2. IInv /\ EventInv /\ RestType /\ ExeInv /\ [Next]_vars => ExeInv'
  BY StepExe
<1> QED
  BY <1>1, <1>2, TreeInvariants, CacheInvariants, PTL DEF Spec

(* A hit has the exact start time of the event, so the uid in the node is  *)
(* its instance's and the exe no earlier one's; a miss uses what the event *)
(* says.                                                                   *)
LEMMA ExeActor == IInv /\ ExeInv => ActorOfInstance
<1> SUFFICES ASSUME IInv, ExeInv, NEW f \in FileEvents
             PROVE  LET actor == build_file_actor(f) IN
                    /\ actor.of = f.gen
                    /\ actor.valid /\ task[f.pid].alive /\ task[f.pid].gen = f.gen
                         => actor.exe = f.gen
                    /\ actor.valid /\ f.pid \notin starts.blank
                         => actor.exe \in {0} \cup f.gen..task[f.pid].gen
  BY DEF ActorOfInstance
<1>1. f.pid \in Pids /\ f.gen \in Nat
  BY DEF FileEvents, IInv, TaskType
<1>2. CASE find(f.pid, Exact(f.gen))
  <2>1. InTree(f.pid) /\ nodes[f.pid].start = Exact(f.gen)
    BY <1>2 DEF find
  <2>2. /\ nodes[f.pid].of = f.gen /\ nodes[f.pid].exe \in Nat /\ task[f.pid].gen \in Nat
    BY <1>1, <2>1, KernelTypes DEF IInv, Dated, InTree, Nodes, NoNode
  <2>3. Exes(f.pid)
    BY <1>1 DEF ExeInv
  <2>4. /\ task[f.pid].alive /\ task[f.pid].gen = f.gen => nodes[f.pid].exe = f.gen
        /\ f.pid \notin starts.blank =>
             nodes[f.pid].exe \in {0} \cup f.gen..task[f.pid].gen
    BY <1>1, <2>1, <2>2, <2>3 DEF Exes
  <2> QED
    BY <1>2, <2>2, <2>4 DEF build_file_actor
<1>3. CASE ~find(f.pid, Exact(f.gen))
  BY <1>3 DEF build_file_actor
<1> QED
  BY <1>2, <1>3

(* A file event is reported under the uid of the instance that raised it,  *)
(* and with its exe while it runs; later perhaps with that of a process    *)
(* which had the pid after it, never before it, as long as the filenames   *)
(* of execs could be read (build_file_actor, ProcessTree::find and apply). *)
THEOREM ActorIdentity == Spec => []ActorOfInstance
<1>1. IInv /\ ExeInv => ActorOfInstance
  BY ExeActor
<1> QED
  BY <1>1, TreeInvariants, ExeInvariant, PTL

-----------------------------------------------------------------------------
(* The chain is the path to pid 1. *)

(* A running process is younger, in this order, than its parent.           *)
Ranked(rank) ==
  /\ rank[Root] = 0 /\ \A q \in Pids \ {Root} : rank[q] > 0
  /\ \A q \in Pids : task[q].alive /\ task[q].parent # 0
                       => rank[task[q].parent] < rank[q]

(* The parents of the running processes run, and form no circle.           *)
KinInv ==
  /\ task[Root].alive
  /\ \A q \in Pids : task[q].alive /\ task[q].parent # 0 => task[task[q].parent].alive
  /\ \E rank \in [Pids -> Nat] : Ranked(rank)

LEMMA InitKin == Init => KinInv
<1> SUFFICES ASSUME Init PROVE KinInv
  OBVIOUS
<1>1. PICK s \in AtStart :
        task = [p \in Pids |->
                 [gen |-> IF p \in s THEN 1 ELSE 0, alive |-> p \in s,
                  forker |-> IF p = Root THEN 0 ELSE Root,
                  parent |-> IF p = Root THEN 0 ELSE Root]]
  BY DEF Init
<1>2. Root \in s /\ Root \in Pids
  BY PidType, ProcessTreeAssumption
<1>3. \A q \in Pids : /\ task[q].alive <=> q \in s
                      /\ task[q].parent = IF q = Root THEN 0 ELSE Root
  BY <1>1
<1> DEFINE rank == [q \in Pids |-> IF q = Root THEN 0 ELSE 1]
<1>4. rank \in [Pids -> Nat] /\ Ranked(rank)
  BY <1>2, <1>3 DEF Ranked
<1> HIDE DEF rank
<1> QED
  BY <1>2, <1>3, <1>4 DEF KinInv

LEMMA StepKin == IInv /\ KinInv /\ [Next]_vars => KinInv'
<1> SUFFICES ASSUME IInv, KinInv, [Next]_vars PROVE KinInv'
  OBVIOUS
<1>1. CASE UNCHANGED task
  BY <1>1 DEF KinInv, Ranked
<1>0. PICK rank \in [Pids -> Nat] : Ranked(rank)
  BY DEF KinInv
<1>t. \A q \in Pids : /\ task[q].parent \in 0..N
                      /\ task[q].parent # 0 => task[q].parent \in Pids
                      /\ rank[q] \in Nat
  BY PidType DEF IInv, TaskType, Pids
<1>r. Root \in Pids /\ Root # 0
  BY PidType DEF Root
<1>2. ASSUME NEW p \in Pids, NEW c \in Pids, Fork(p, c)
      PROVE  KinInv'
  <2>1. /\ task[p].alive /\ ~task[c].alive /\ c # Root /\ p # c
        /\ task'[c].alive /\ task'[c].parent = p
        /\ \A q \in Pids \ {c} : task'[q] = task[q]
    BY <1>2 DEF Fork, IInv, TaskType, KinInv
  <2>2. \A q \in Pids : task[q].alive /\ task[q].parent # 0 => task[q].parent # c
    BY <2>1 DEF KinInv
  <2> DEFINE new == [rank EXCEPT ![c] = rank[p] + 1]
  <2>3. /\ new \in [Pids -> Nat] /\ new[c] = rank[p] + 1 /\ new[c] > 0
        /\ new[p] < new[c]
        /\ \A q \in Pids \ {c} : new[q] = rank[q]
    BY <1>t, <2>1
  <2> HIDE DEF new
  <2>4. ASSUME NEW q \in Pids, task'[q].alive, task'[q].parent # 0
        PROVE  new[task'[q].parent] < new[q] /\ task'[task'[q].parent].alive
    <3>1. CASE q = c
      BY <2>1, <2>3, <3>1
    <3>2. CASE q # c
      <4>1. /\ task'[q] = task[q] /\ task[q].parent \in Pids \ {c}
            /\ rank[task[q].parent] < rank[q] /\ task[task[q].parent].alive
        BY <1>0, <1>t, <2>1, <2>2, <2>4, <3>2 DEF Ranked, KinInv
      <4>2. task'[task[q].parent] = task[task[q].parent]
        BY <2>1, <4>1
      <4> QED
        BY <2>3, <3>2, <4>1, <4>2
    <3> QED
      BY <3>1, <3>2
  <2>5. new[Root] = 0 /\ \A q \in Pids \ {Root} : new[q] > 0
    BY <1>0, <1>r, <2>1, <2>3 DEF Ranked
  <2>6. Ranked(new)'
    BY <2>4, <2>5 DEF Ranked
  <2>7. task'[Root].alive
    BY <1>r, <2>1 DEF KinInv
  <2> QED
    BY <2>3, <2>4, <2>6, <2>7 DEF KinInv
<1>3. ASSUME NEW p \in Pids, Exit(p)
      PROVE  KinInv'
  <2>1. /\ p # Root
        /\ \A q \in Pids : /\ task'[q].alive => task[q].alive /\ q # p
                           /\ q # p => task'[q].alive = task[q].alive
                           /\ task'[q].alive => task'[q].parent =
                                IF task[q].parent = p THEN Root ELSE task[q].parent
    BY <1>3 DEF Exit, IInv, TaskType
  <2>2. task'[Root].alive
    BY <1>r, <2>1 DEF KinInv
  <2>3. ASSUME NEW q \in Pids, task'[q].alive, task'[q].parent # 0
        PROVE  rank[task'[q].parent] < rank[q] /\ task'[task'[q].parent].alive
    <3>1. task[q].alive /\ task[q].parent # 0
      <4>1. p # 0
        BY DEF Pids
      <4> QED
        BY <2>1, <2>3, <4>1
    <3>2. rank[task[q].parent] < rank[q] /\ task[task[q].parent].alive
      BY <1>0, <3>1 DEF Ranked, KinInv
    <3>3. CASE task[q].parent = p
      <4>1. task'[q].parent = Root /\ rank[Root] = 0
        BY <1>0, <2>1, <2>3, <3>3 DEF Ranked
      <4>2. q # Root
        BY <1>t, <3>2, <3>3, <4>1
      <4> QED
        BY <1>0, <2>2, <4>1, <4>2 DEF Ranked
    <3>4. CASE task[q].parent # p
      BY <1>t, <2>1, <2>3, <3>1, <3>2, <3>4
    <3> QED
      BY <3>3, <3>4
  <2>4. Ranked(rank)'
    BY <1>0, <2>3 DEF Ranked
  <2> QED
    BY <2>2, <2>3, <2>4 DEF KinInv
<1>4. CASE Consume \/ bootstrap \/ Ripen \/ sweep_tombstones \/ UNCHANGED vars
           \/ (\E f \in FileEvents : ConsumeFile(f)) \/ (\E p \in Pids : Exec(p))
  BY <1>1, <1>4 DEF Consume, bootstrap, Ripen, sweep_tombstones, ConsumeFile, Exec,
     kernel, vars
<1> QED
  BY <1>2, <1>3, <1>4 DEF Next

LEMMA KinInvariant == Spec => []KinInv
<1>1. Init => KinInv
  BY InitKin
<1>2. IInv /\ KinInv /\ [Next]_vars => KinInv'
  BY StepKin
<1> QED
  BY <1>1, <1>2, TreeInvariants, PTL DEF Spec

(* The pid the next link of a chain must have: the parent of the last one. *)
UpFrom(p, chain, i) == IF i = 0 THEN task[p].forker ELSE task[chain[i].pid].forker

(* The tree shows the running processes under their true parents.          *)
TrueTree ==
  /\ \A q \in Pids : task[q].alive =>
       /\ InTree(q) /\ nodes[q].of = task[q].gen /\ nodes[q].exe = task[q].gen
       /\ nodes[q].ppid = task[q].forker /\ task[q].parent = task[q].forker
       /\ task[q].forker # 0 => task[task[q].forker].alive
  /\ \E rank \in [Pids -> Nat] : Ranked(rank)

LEMMA QuietTree ==
  ASSUME IInv, KinInv, Mirror, Quiet,
         \A p \in Pids : task[p].alive => task[p].parent = task[p].forker
  PROVE  TrueTree
<1>1. ASSUME NEW q \in Pids, task[q].alive
      PROVE  /\ InTree(q) /\ nodes[q].of = task[q].gen /\ nodes[q].exe = task[q].gen
             /\ nodes[q].ppid = task[q].forker /\ task[q].parent = task[q].forker
             /\ task[q].forker # 0 => task[task[q].forker].alive
  BY <1>1 DEF Mirror, InTree, KinInv
<1> QED
  BY <1>1 DEF TrueTree, KinInv

(* How far a walk from p has come in k steps, by a given order.            *)
Along(p, rank, w, k) ==
  /\ Len(w.chain) <= k
  /\ \A i \in 1..Len(w.chain) :
       /\ w.chain[i].pid = UpFrom(p, w.chain, i - 1)
       /\ w.chain[i].of = task[w.chain[i].pid].gen
       /\ w.chain[i].exe = w.chain[i].of
       /\ task[w.chain[i].pid].alive
  /\ \/ w.up = 0 /\ UpFrom(p, w.chain, Len(w.chain)) = 0
     \/ /\ w.up = UpFrom(p, w.chain, Len(w.chain)) /\ Len(w.chain) = k
        /\ w.up # 0 => /\ task[w.up].alive /\ rank[w.up] < rank[p]
                       /\ \A i \in 1..Len(w.chain) :
                            rank[w.up] < rank[w.chain[i].pid]

LEMMA StepUpAlong ==
  ASSUME IInv, TrueTree, NEW p \in Pids, NEW rank \in [Pids -> Nat], Ranked(rank),
         NEW w \in Walks, NEW k \in Nat, Along(p, rank, w, k)
  PROVE  Along(p, rank, StepUp(p, w), k + 1)
<1> DEFINE met == {0, p} \cup {w.chain[i].pid : i \in 1..Len(w.chain)}
           n == Len(w.chain)
<1>1. /\ w.chain \in Seq(Links) /\ n \in Nat /\ w.up \in 0..N /\ n <= k
      /\ \A i \in 1..n : w.chain[i].pid \in Pids
  <2>1. w.chain \in Seq(Links) /\ n \in Nat /\ w.up \in 0..N
    BY DEF Walks
  <2>2. \A i \in 1..n : w.chain[i].pid \in Pids
    <3>1. \A i \in 1..n : w.chain[i] \in Links
      BY <2>1
    <3>2. \A l \in Links : l.pid \in Pids
      BY DEF Links
    <3> QED
      BY <3>1, <3>2
  <2> QED
    BY <2>1, <2>2 DEF Along
<1>2. CASE w.up = 0
  <2>1. StepUp(p, w).chain = w.chain /\ StepUp(p, w).up = 0
    BY <1>2 DEF StepUp, Walks
  <2>2. UpFrom(p, w.chain, n) = 0
    BY <1>2 DEF Along
  <2> QED
    BY <1>1, <2>1, <2>2 DEF Along
<1>3. CASE w.up # 0
  <2> DEFINE link == Link(w.up)
             c == Append(w.chain, link)
             q == w.up
  <2>1. /\ q \in Pids /\ q = UpFrom(p, w.chain, n) /\ n = k /\ task[q].alive
        /\ rank[q] < rank[p] /\ \A i \in 1..n : rank[q] < rank[w.chain[i].pid]
    BY <1>1, <1>3 DEF Along, Pids
  <2>2. q \notin met
    BY <1>1, <1>3, <2>1
  <2>3. /\ InTree(q) /\ nodes[q].of = task[q].gen /\ nodes[q].exe = task[q].gen
        /\ nodes[q].ppid = task[q].forker
        /\ task[q].parent = task[q].forker
        /\ task[q].forker # 0 => task[task[q].forker].alive
    BY <2>1 DEF TrueTree
  <2>4. StepUp(p, w) = [up |-> task[q].forker, chain |-> c]
    BY <2>2, <2>3 DEF StepUp
  <2>5. link.pid = q /\ link.of = task[q].gen /\ link.exe = link.of
    BY <2>3 DEF Link
  <2> HIDE DEF link
  <2>6. /\ Len(c) = n + 1 /\ c[n + 1] = link
        /\ \A i \in 1..n : c[i] = w.chain[i]
        /\ \A i \in 1..(n + 1) : i \in 1..n \/ i = n + 1
    BY <1>1
  <2> HIDE DEF c
  <2>7. \A i \in 0..n : UpFrom(p, c, i) = UpFrom(p, w.chain, i)
    BY <1>1, <2>6 DEF UpFrom
  <2>8. UpFrom(p, c, n + 1) = task[q].forker
    BY <1>1, <2>5, <2>6 DEF UpFrom
  <2>9. ASSUME NEW i \in 1..(n + 1)
        PROVE  /\ c[i].pid = UpFrom(p, c, i - 1) /\ c[i].of = task[c[i].pid].gen
               /\ c[i].exe = c[i].of /\ task[c[i].pid].alive
    <3>1. CASE i \in 1..n
      <4>1. i - 1 \in 0..n /\ c[i] = w.chain[i]
        BY <1>1, <2>6, <3>1
      <4> QED
        BY <2>7, <3>1, <4>1 DEF Along
    <3>2. CASE i = n + 1
      <4>1. i - 1 = n /\ n \in 0..n
        BY <1>1, <3>2
      <4> QED
        BY <2>1, <2>5, <2>6, <2>7, <3>2, <4>1
    <3> QED
      BY <2>6, <3>1, <3>2
  <2> DEFINE u == task[q].forker
  <2>10. ASSUME u # 0
         PROVE  /\ task[u].alive /\ rank[u] < rank[p]
                /\ \A i \in 1..(n + 1) : rank[u] < rank[c[i].pid]
    <3>1. task[u].alive /\ rank[u] < rank[q]
      BY <2>1, <2>3, <2>10 DEF Ranked
    <3>2. u \in Pids
      BY <2>1, <2>10 DEF IInv, TaskType, Pids
    <3>3. rank[u] \in Nat /\ rank[q] \in Nat /\ rank[p] \in Nat
          /\ \A i \in 1..n : rank[w.chain[i].pid] \in Nat
      BY <1>1, <2>1, <3>2
    <3>4. rank[u] < rank[p] /\ \A i \in 1..n : rank[u] < rank[w.chain[i].pid]
      BY <2>1, <3>1, <3>3
    <3> QED
      BY <2>5, <2>6, <3>1, <3>4
  <2> HIDE DEF u
  <2>11. Len(c) <= k + 1 /\ Len(c) = k + 1
    BY <1>1, <2>1, <2>6
  <2>12. StepUp(p, w).chain = c /\ StepUp(p, w).up = u
    BY <2>4 DEF u
  <2>13. UpFrom(p, c, Len(c)) = u
    BY <2>6, <2>8 DEF u
  <2> HIDE DEF n
  <2> QED
    BY <2>6, <2>9, <2>10, <2>11, <2>12, <2>13 DEF Along
<1> QED
  BY <1>2, <1>3

LEMMA TrueChain ==
  ASSUME IInv, TrueTree, NEW p \in Pids, task[p].alive
  PROVE  LET chain == ancestors_of(p, 0)
         IN  /\ \A i \in 1..Len(chain) :
                  /\ chain[i].pid = UpFrom(p, chain, i - 1)
                  /\ chain[i].of = task[chain[i].pid].gen
                  /\ chain[i].exe = chain[i].of
             /\ Len(chain) = kMaxAncestors \/ UpFrom(p, chain, Len(chain)) = 0
<1> DEFINE first == task[p].forker
<1>0. kMaxAncestors \in Nat /\ first \in 0..N
  BY ProcessTreeAssumption DEF IInv, TaskType
<1>1. ancestors_of(p, 0) = ChainFrom(p, first)
  BY DEF ancestors_of, TrueTree
<1>2. PICK walk \in [0..kMaxAncestors -> Walks] :
        /\ walk[0] = [up |-> first, chain |-> <<>>]
        /\ \A k \in 1..kMaxAncestors : walk[k] = StepUp(p, walk[k - 1])
        /\ ChainFrom(p, first) = walk[kMaxAncestors].chain
  BY <1>0, ChainWalk
<1>3. PICK rank \in [Pids -> Nat] : Ranked(rank)
  BY DEF TrueTree
<1> DEFINE T == {k \in Nat : k <= kMaxAncestors => Along(p, rank, walk[k], k)}
<1>4. 0 \in T
  <2>1. /\ walk[0].chain = <<>> /\ walk[0].up = first /\ Len(<<>>) = 0 /\ 1..0 = {}
        /\ 0 <= 0
    BY <1>2
  <2>2. first # 0 => task[first].alive /\ rank[first] < rank[p]
    BY <1>3 DEF TrueTree, Ranked
  <2>3. Along(p, rank, walk[0], 0)
    BY <2>1, <2>2 DEF Along, UpFrom
  <2> QED
    BY <2>3
<1>5. ASSUME NEW k \in Nat, k \in T PROVE k + 1 \in T
  <2> SUFFICES ASSUME k + 1 <= kMaxAncestors
               PROVE  Along(p, rank, walk[k + 1], k + 1)
    OBVIOUS
  <2>1. k \in 0..kMaxAncestors /\ k + 1 \in 1..kMaxAncestors /\ (k + 1) - 1 = k
        /\ k <= kMaxAncestors
    BY <1>0
  <2>2. walk[k] \in Walks /\ walk[k + 1] = StepUp(p, walk[k])
    BY <1>2, <2>1
  <2>3. Along(p, rank, walk[k], k)
    BY <1>5, <2>1
  <2> QED
    BY <1>3, <2>2, <2>3, StepUpAlong
<1>6. kMaxAncestors \in T
  <2> HIDE DEF T
  <2> QED
    BY <1>0, <1>4, <1>5, Induct
<1>7. Along(p, rank, walk[kMaxAncestors], kMaxAncestors)
  BY <1>0, <1>6
<1> HIDE DEF first
<1> QED
  BY <1>1, <1>2, <1>7 DEF Along

LEMMA ChainHolds == IInv /\ EventInv /\ KinInv => ChainIsTrue
<1> SUFFICES ASSUME IInv, EventInv, KinInv, Quiet, NEW p \in Pids, task[p].alive,
                    \A q \in Pids : task[q].alive => task[q].parent = task[q].forker
             PROVE  LET chain == ancestors_of(p, 0)
                        up(i) == IF i = 0 THEN task[p].forker
                                 ELSE task[chain[i].pid].forker
                    IN /\ \A i \in 1..Len(chain) :
                            /\ chain[i].pid = up(i - 1)
                            /\ chain[i].of = task[chain[i].pid].gen
                            /\ chain[i].exe = chain[i].of
                       /\ Len(chain) = kMaxAncestors \/ up(Len(chain)) = 0
  BY DEF ChainIsTrue
<1>1. TrueTree
  BY EventsMirror, QuietTree
<1> QED
  BY <1>1, TrueChain DEF UpFrom

(* Where no running process has been orphaned, the chain of a process is   *)
(* the path of its true parents up to pid 1, cut at kMaxAncestors: what is *)
(* reported with an event is where the process came from                   *)
(* (Enricher::ancestors_of).                                               *)
THEOREM ChainIsThePath == Spec => []ChainIsTrue
<1>1. (IInv /\ LruInv /\ EventInv) /\ KinInv => ChainIsTrue
  BY ChainHolds
<1> QED
  BY <1>1, TreeInvariants, KinInvariant, PTL
=============================================================================
