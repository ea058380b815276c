---------------------------- MODULE ProcessTree ----------------------------
(***************************************************************************)
(* The process tree of the telemetry consumer (telemetry/process_tree.cpp, *)
(* enricher.cpp) between the kernel that forks, execs and reaps processes  *)
(* (bpf/proc_watch.bpf.c, baseline/monitor_process.cpp) and the file       *)
(* events whose actor it names (baseline/monitor.cpp).                     *)
(*                                                                         *)
(* A pid is reused: generation g of pid p is one process instance.  What a *)
(* node says of its process is abstracted to the generation it is true of: *)
(* `of' for uid, gid and comm, which come with an event or, at the         *)
(* bootstrap, from /proc; `exe' for the path of the executable, which is   *)
(* read from /proc/<pid> when an event is CONSUMED and is then that of     *)
(* whoever has the pid, 0 where it is empty.  container_id is empty or     *)
(* read along with exe.  A start time is exact in an event of the kernel   *)
(* and rounded to a tick when read from /proc, so the two never compare    *)
(* equal.  A task of the model is any pid the tracepoints report; a thread *)
(* is one that never execs.                                                *)
(***************************************************************************)
EXTENDS Naturals, Sequences, FiniteSets

CONSTANTS
  N,               (* pids are 1..N; pid 1 is never reaped                 *)
  AtStart,         (* sets of pids that may be running at start            *)
  Sizes,           (* numbers of nodes a tree may be built to keep         *)
  kMaxAncestors,   (* levels an ancestor chain goes up                     *)
  MaxCache,        (* chains the cache keeps before it is cleared          *)
  HiCap,           (* events the ring and the hi queue hold together       *)
  MaxForks, MaxExecs             (* bounds of the instance                 *)

Pids == 1..N
Root == 1

ASSUME ProcessTreeAssumption ==
  /\ N \in Nat \ {0} /\ Sizes \subseteq Nat \ {0} /\ MaxCache \in Nat \ {0}
  /\ kMaxAncestors \in Nat /\ HiCap \in Nat /\ MaxForks \in Nat /\ MaxExecs \in Nat
  /\ AtStart \subseteq SUBSET Pids /\ \A s \in AtStart : Root \in s

VARIABLES
  kMaxNodes, (* nodes the tree keeps; never changes                        *)
  task,    (* kernel: gen, alive, forker, parent of each pid               *)
  starts,  (* kernel: how many forks and execs there were, and the pids    *)
           (* with an exec whose filename could not be read                *)
  queue,   (* process events on their way to the consumer, in order        *)
  lost,    (* a process event was dropped                                  *)
  scan,    (* next pid of the bootstrap, N + 1 when it is done             *)
  nodes,   (* nodes_: NoNode where the pid is not in the tree              *)
  lru,     (* lru_: front is the most recently used                        *)
  evicted, (* a node was evicted                                           *)
  cache    (* ancestor chains, by instance                                 *)

kernel == <<task, starts, queue, lost>>
tree == <<kMaxNodes, nodes, lru, evicted>>
vars == <<kMaxNodes, task, starts, queue, lost, scan, nodes, lru, evicted, cache>>

Exact(g) == 2 * g + 1
Tick(g) == 2 * g

NoNode ==
  [st |-> "none", ppid |-> 0, start |-> 0, of |-> 0, exe |-> 0, ripe |-> FALSE]
Nodes == [st : {"live", "exited"}, ppid : 0..N, start : Nat, of : Nat,
          exe : Nat, ripe : BOOLEAN]
LiveNode(ppid, start, of, exe) ==
  [st |-> "live", ppid |-> ppid, start |-> start, of |-> of, exe |-> exe,
   ripe |-> FALSE]

(* `named': the event carries the filename of an exec.                     *)
Events == [kind : {"fork", "exec", "exit"}, pid : Pids, ppid : 0..N, gen : Nat,
           named : BOOLEAN]

InTree(p) == nodes[p].st # "none"

(* What /proc/<pid>/stat gives for the start time when it is read.         *)
ProcStart(p) == IF task[p].alive THEN Tick(task[p].gen) ELSE 0

(* Whose executable /proc/<pid>/exe is when it is read, if anybody's.      *)
exe_path_of(p) == IF task[p].alive THEN task[p].gen ELSE 0

(***************************************************************************)
(* The kernel.  Each tracepoint reserves a slot and submits it; the event  *)
(* is lost when the ring or the hi queue is full.                          *)
(***************************************************************************)
Emit(kind, p, ppid, gen, named) ==
  IF Len(queue) < HiCap
    THEN /\ queue' = Append(queue, [kind |-> kind, pid |-> p, ppid |-> ppid,
                                    gen |-> gen, named |-> named])
         /\ UNCHANGED lost
    ELSE lost' = TRUE /\ UNCHANGED queue

Fork(p, c) ==
  /\ task[p].alive /\ ~task[c].alive
  /\ starts.fork < MaxForks /\ starts' = [starts EXCEPT !.fork = @ + 1]
  /\ task' = [task EXCEPT ![c] = [gen |-> @.gen + 1, alive |-> TRUE,
                                  forker |-> p, parent |-> p]]
  /\ Emit("fork", c, p, task[c].gen + 1, FALSE)
  /\ UNCHANGED <<scan, tree, cache>>

CountExec(p, named) ==
  starts' = [starts EXCEPT !.exec = @ + 1,
                           !.blank = IF named THEN @ ELSE @ \cup {p}]

(* The filename of an exec is read once a slot is reserved, and may fail   *)
(* to be read.                                                             *)
Exec(p) ==
  /\ task[p].alive /\ p # Root
  /\ starts.exec < MaxExecs
  /\ \E named \in BOOLEAN :
       /\ named \/ Len(queue) < HiCap
       /\ CountExec(p, named)
       /\ Emit("exec", p, task[p].parent, task[p].gen, named)
  /\ UNCHANGED <<task, scan, tree, cache>>

(* The children of a process that exits are adopted by pid 1.              *)
Exit(p) ==
  /\ task[p].alive /\ p # Root
  /\ task' = [q \in Pids |->
                IF q = p THEN [task[q] EXCEPT !.alive = FALSE]
                ELSE IF task[q].alive /\ task[q].parent = p
                  THEN [task[q] EXCEPT !.parent = Root]
                ELSE task[q]]
  /\ Emit("exit", p, task[p].parent, task[p].gen, FALSE)
  /\ UNCHANGED <<starts, scan, tree, cache>>

(***************************************************************************)
(* The tree.                                                               *)
(***************************************************************************)
(* The list without some pids, each erased where it stands.                *)
Without(list, S) ==
  LET keep[i \in 0..Len(list)] ==
        IF i = 0 THEN <<>>
        ELSE IF list[i] \in S THEN keep[i - 1] ELSE Append(keep[i - 1], list[i])
  IN keep[Len(list)]

Others(p) == Without(lru, {p})

touch_lru(p) == lru' = <<p>> \o Others(p)

(* A new node pushes out the one that was not used for the longest time.   *)
upsert(p, node) ==
  LET size == Cardinality({q \in Pids : InTree(q)})
      victim == lru[Len(lru)]
  IN
  IF InTree(p) \/ size < kMaxNodes
    THEN /\ nodes' = [nodes EXCEPT ![p] = node]
         /\ touch_lru(p) /\ UNCHANGED evicted
    ELSE /\ nodes' = [nodes EXCEPT ![victim] = NoNode, ![p] = node]
         /\ lru' = <<p>> \o SubSeq(lru, 1, Len(lru) - 1)
         /\ evicted' = TRUE

ApplyFork_KeepNode(e) ==
  IF InTree(e.pid)
    THEN touch_lru(e.pid) /\ UNCHANGED <<nodes, evicted>>
    ELSE upsert(e.pid, LiveNode(e.ppid, ProcStart(e.pid), e.gen, exe_path_of(e.pid)))

(* The start time and the exe of a new child are read from /proc when the  *)
(* event is consumed, which may find a later instance or none.             *)
ApplyFork(e) ==
  upsert(e.pid, LiveNode(e.ppid, ProcStart(e.pid), e.gen, exe_path_of(e.pid)))

(* The exe after an exec: what /proc has for the pid now, else the event's *)
(* filename, else what was there.                                          *)
ExecExe(e, old) ==
  IF task[e.pid].alive THEN exe_path_of(e.pid) ELSE IF e.named THEN e.gen ELSE old

ApplyExec_KeepExe(e) ==
  IF ~InTree(e.pid)
    THEN upsert(e.pid, LiveNode(e.ppid, Exact(e.gen), e.gen, ExecExe(e, 0)))
    ELSE /\ nodes' = [nodes EXCEPT ![e.pid] =
                        LiveNode(@.ppid, Exact(e.gen), e.gen, @.exe)]
         /\ touch_lru(e.pid) /\ UNCHANGED evicted

(* A node that exists keeps its parent, whatever its start time was.       *)
ApplyExec(e) ==
  IF ~InTree(e.pid)
    THEN upsert(e.pid, LiveNode(e.ppid, Exact(e.gen), e.gen, ExecExe(e, 0)))
    ELSE /\ nodes' = [nodes EXCEPT ![e.pid] =
                        LiveNode(@.ppid, Exact(e.gen), e.gen, ExecExe(e, @.exe))]
         /\ touch_lru(e.pid) /\ UNCHANGED evicted

ApplyExit_SameStart(e) ==
  IF InTree(e.pid)
    THEN /\ nodes' = IF nodes[e.pid].start = Exact(e.gen)
                       THEN [nodes EXCEPT ![e.pid].st = "exited"] ELSE nodes
         /\ touch_lru(e.pid) /\ UNCHANGED evicted
    ELSE upsert(e.pid, [LiveNode(e.ppid, Exact(e.gen), e.gen, 0)
                          EXCEPT !.st = "exited"])

ApplyExit(e) ==
  IF InTree(e.pid)
    THEN /\ nodes' = [nodes EXCEPT ![e.pid].st = "exited", ![e.pid].ripe = FALSE]
         /\ touch_lru(e.pid) /\ UNCHANGED evicted
    ELSE upsert(e.pid, [LiveNode(e.ppid, Exact(e.gen), e.gen, 0)
                          EXCEPT !.st = "exited"])

apply(e) ==
  /\ \/ e.kind = "fork" /\ ApplyFork(e)
     \/ e.kind = "exec" /\ ApplyExec(e)
     \/ e.kind = "exit" /\ ApplyExit(e)
  /\ UNCHANGED kMaxNodes

(* The bootstrap runs when the tracepoints already report, so what it sees *)
(* may be older or newer than the events that wait in the queue.  A pid    *)
(* that is gone when its files are read leaves a node without data.        *)
bootstrap ==
  /\ scan \in Pids /\ scan' = scan + 1
  /\ \/ task[scan].alive
        /\ upsert(scan, LiveNode(task[scan].parent, Tick(task[scan].gen),
                                 task[scan].gen, exe_path_of(scan)))
     \/ ~task[scan].alive /\ task[scan].gen > 0 /\ upsert(scan, LiveNode(0, 0, 0, 0))
     \/ ~task[scan].alive /\ UNCHANGED tree
  /\ UNCHANGED <<kernel, kMaxNodes, cache>>

Consume ==
  /\ scan > N /\ queue # <<>>
  /\ apply(Head(queue))
  /\ queue' = Tail(queue)
  /\ UNCHANGED <<task, starts, lost, scan, cache>>

(* Sixty seconds pass for the tombstones there are.                        *)
Ripen ==
  /\ nodes' = [p \in Pids |-> IF nodes[p].st = "exited"
                                THEN [nodes[p] EXCEPT !.ripe = TRUE] ELSE nodes[p]]
  /\ nodes' # nodes
  /\ UNCHANGED <<kernel, kMaxNodes, scan, lru, evicted, cache>>

Ripe == {p \in Pids : nodes[p].st = "exited" /\ nodes[p].ripe}

sweep_Nodes ==
  /\ scan > N /\ Ripe # {}
  /\ nodes' = [p \in Pids |-> IF p \in Ripe THEN NoNode ELSE nodes[p]]
  /\ UNCHANGED <<kernel, kMaxNodes, scan, lru, evicted, cache>>

sweep_FromBack ==
  /\ scan > N /\ lru # <<>> /\ lru[Len(lru)] \in Ripe
  /\ nodes' = [nodes EXCEPT ![lru[Len(lru)]] = NoNode]
  /\ lru' = SubSeq(lru, 1, Len(lru) - 1)
  /\ UNCHANGED <<kernel, kMaxNodes, scan, evicted, cache>>

sweep_tombstones ==
  /\ scan > N /\ Ripe # {}
  /\ nodes' = [p \in Pids |-> IF p \in Ripe THEN NoNode ELSE nodes[p]]
  /\ lru' = Without(lru, Ripe)
  /\ UNCHANGED <<kernel, kMaxNodes, scan, evicted, cache>>

(***************************************************************************)
(* File events: the actor and its ancestors.                               *)
(***************************************************************************)
find_AnyStart(p, start) == InTree(p)

find(p, start) == InTree(p) /\ nodes[p].start = start

(* What a chain says of an ancestor: its pid, comm and exe.                *)
Link(p) == [pid |-> p, of |-> nodes[p].of, exe |-> nodes[p].exe]

ChainFrom_Unchecked(p, first) ==
  LET walk[k \in 0..kMaxAncestors] ==
        IF k = 0 THEN [up |-> first, chain |-> <<>>]
        ELSE LET w == walk[k - 1]
                 stop == IF w.up = 0 THEN TRUE ELSE ~InTree(w.up)
             IN  IF stop THEN [w EXCEPT !.up = 0]
                 ELSE [up |-> nodes[w.up].ppid,
                       chain |-> Append(w.chain, Link(w.up))]
  IN walk[kMaxAncestors].chain

(* One step up, until a pid that is not in the tree, or was met before.    *)
StepUp(p, w) ==
  LET met == {0, p} \cup {w.chain[i].pid : i \in 1..Len(w.chain)}
      stop == IF w.up \in met THEN TRUE ELSE ~InTree(w.up)
  IN  IF stop THEN [w EXCEPT !.up = 0]
      ELSE [up |-> nodes[w.up].ppid,
            chain |-> Append(w.chain, Link(w.up))]

ChainFrom(p, first) ==
  LET walk[k \in 0..kMaxAncestors] ==
        IF k = 0 THEN [up |-> first, chain |-> <<>>] ELSE StepUp(p, walk[k - 1])
  IN walk[kMaxAncestors].chain

ancestors_of_Fallback(p, fallback) == ChainFrom(p, fallback)

ancestors_of(p, fallback) ==
  ChainFrom(p, IF InTree(p) THEN nodes[p].ppid ELSE fallback)

(* File events come through another ring and the lo queue, so one of any   *)
(* instance there has been may reach the consumer at any time, before or   *)
(* after the process events of its time.                                   *)
FileEvents ==
  UNION {{[pid |-> p, gen |-> g] : g \in 1..task[p].gen} : p \in Pids}

(* Without a node of its instance an event is reported under its own uid,  *)
(* with no parent, exe or container.                                       *)
build_file_actor(f) ==
  IF find(f.pid, Exact(f.gen))
    THEN [valid |-> TRUE, of |-> nodes[f.pid].of, exe |-> nodes[f.pid].exe,
          ppid |-> nodes[f.pid].ppid]
    ELSE [valid |-> FALSE, of |-> f.gen, exe |-> 0, ppid |-> 0]

cached_ancestors_of(f, ppid) ==
  LET kept == IF Cardinality(cache) >= MaxCache THEN {} ELSE cache IN
  cache' = IF \E c \in cache : c.pid = f.pid /\ c.gen = f.gen THEN cache
           ELSE kept \cup {[pid |-> f.pid, gen |-> f.gen,
                            chain |-> ancestors_of(f.pid, ppid)]}

ConsumeFile(f) ==
  /\ scan > N
  /\ cached_ancestors_of(f, build_file_actor(f).ppid)
  /\ UNCHANGED <<kernel, scan, tree>>

-----------------------------------------------------------------------------
Init ==
  /\ kMaxNodes \in Sizes
  /\ \E s \in AtStart :
       task = [p \in Pids |->
                 [gen |-> IF p \in s THEN 1 ELSE 0, alive |-> p \in s,
                  forker |-> IF p = Root THEN 0 ELSE Root,
                  parent |-> IF p = Root THEN 0 ELSE Root]]
  /\ starts = [fork |-> 0, exec |-> 0, blank |-> {}] /\ queue = <<>> /\ lost = FALSE /\ scan = 1
  /\ nodes = [p \in Pids |-> NoNode] /\ lru = <<>> /\ evicted = FALSE
  /\ cache = {}

Next ==
  \/ \E p, c \in Pids : Fork(p, c)
  \/ \E p \in Pids : Exec(p) \/ Exit(p)
  \/ bootstrap \/ Consume \/ Ripen \/ sweep_tombstones
  \/ \E f \in FileEvents : ConsumeFile(f)

Spec == Init /\ [][Next]_vars

(* The consumer thread runs until stop, and its loop comes to the sweep    *)
(* when the queues are empty for a moment.                                 *)
FairSpec == Spec /\ WF_vars(bootstrap) /\ WF_vars(Consume) /\ WF_vars(Ripen)
                 /\ WF_vars(sweep_tombstones)

-----------------------------------------------------------------------------
(* Every variable has its type.                                            *)
TypeOK ==
  /\ kMaxNodes \in Sizes
  /\ task \in [Pids -> [gen : Nat, alive : BOOLEAN, forker : 0..N,
                        parent : 0..N]]
  /\ starts \in [fork : Nat, exec : Nat, blank : SUBSET Pids]
  /\ queue \in Seq(Events)
  /\ lost \in BOOLEAN /\ scan \in 1..(N + 1)
  /\ nodes \in [Pids -> Nodes \cup {NoNode}]
  /\ lru \in Seq(Pids) /\ evicted \in BOOLEAN
  /\ \A c \in cache : c.chain \in Seq([pid : Pids, of : Nat, exe : Nat])

(* nodes_, lru_ and lru_pos_ describe the same pids: the list names every  *)
(* node once and nothing else, and never more than kMaxNodes.              *)
LruMatchesNodes ==
  /\ {lru[i] : i \in 1..Len(lru)} = {p \in Pids : InTree(p)}
  /\ Len(lru) = Cardinality({p \in Pids : InTree(p)})
  /\ Len(lru) <= kMaxNodes

Quiet == scan > N /\ queue = <<>> /\ ~lost /\ ~evicted

(* Once every process event is applied, and none was lost or evicted, the  *)
(* tree is what the kernel has: each running process is there under its    *)
(* own data, its own exe and a parent it has had, and no dead one is shown *)
(* as running.                                                             *)
(* This is what makes it sound to scan /proc while events are under way.   *)
Mirror ==
  Quiet => \A p \in Pids :
    IF task[p].alive
      THEN /\ nodes[p].st = "live"
           /\ nodes[p].of = task[p].gen /\ nodes[p].exe = task[p].gen
           /\ nodes[p].ppid \in {task[p].forker, task[p].parent}
      ELSE nodes[p].st # "live"

(* Where no running process has been orphaned, the chain of a process is   *)
(* the path of its true parents up to pid 1, each under its own comm and   *)
(* exe, cut at kMaxAncestors.                                              *)
ChainIsTrue ==
  (Quiet /\ \A p \in Pids : task[p].alive => task[p].parent = task[p].forker) =>
    \A p \in Pids : task[p].alive =>
      LET chain == ancestors_of(p, 0)
          up(i) == IF i = 0 THEN task[p].forker ELSE task[chain[i].pid].forker
      IN /\ \A i \in 1..Len(chain) :
              /\ chain[i].pid = up(i - 1)
              /\ chain[i].of = task[chain[i].pid].gen /\ chain[i].exe = chain[i].of
         /\ Len(chain) = kMaxAncestors \/ up(Len(chain)) = 0

(* The uid a file event is reported under is that of the instance that     *)
(* raised it, also when its pid has been reused since or before the tree   *)
(* has heard of it.  The exe and container reported with it are those of   *)
(* the same instance while it runs.  Afterwards they may be a LATER        *)
(* instance's, which had the pid when the event of the exec was consumed;  *)
(* never those of an earlier one, which would lend a new process the name  *)
(* of a trusted one, unless an exec's filename could not be read.          *)
ActorOfInstance ==
  \A f \in FileEvents :
    LET actor == build_file_actor(f) IN
    /\ actor.of = f.gen
    /\ actor.valid /\ task[f.pid].alive /\ task[f.pid].gen = f.gen
         => actor.exe = f.gen
    /\ actor.valid /\ f.pid \notin starts.blank
         => actor.exe \in {0} \cup f.gen..task[f.pid].gen

(* While no process event is lost, the parent in a file event's actor is   *)
(* one that instance has had, or 0 where the bootstrap came too late to    *)
(* read it: never a stranger's.                                            *)
ParentOfActor ==
  \A f \in FileEvents :
    LET actor == build_file_actor(f) IN
    (actor.valid /\ ~lost /\ f.gen = task[f.pid].gen) =>
       actor.ppid \in {0, task[f.pid].forker, task[f.pid].parent}

(* A recorded chain never names a pid twice nor the process itself, also   *)
(* when reused pids have closed the parents of the tree into a circle.     *)
ChainsAreSimple ==
  \A c \in cache :
    /\ Len(c.chain) <= kMaxAncestors
    /\ \A i, j \in 1..Len(c.chain) :
         c.chain[i].pid # c.pid /\ (i # j => c.chain[i].pid # c.chain[j].pid)

(* What holds of the tree after every event, eviction and sweep: the types, *)
(* one list of pids for its three containers, and chains that end.          *)
TreeInv == TypeOK /\ LruMatchesNodes /\ ChainsAreSimple

(* A tombstone does not stay: the sweep removes it, or the pid is in use   *)
(* again.  (Pid 1 does not exit.)                                          *)
TombstonesGoAway ==
  \A p \in Pids \ {Root} : (nodes[p].st = "exited") ~> (nodes[p].st # "exited")

=============================================================================
