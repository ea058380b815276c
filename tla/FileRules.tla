----------------------------- MODULE FileRules -----------------------------
(***************************************************************************)
(* The file rules of the monitor (baseline/monitor.cpp, whitelist.cpp,     *)
(* bpf/bpf_common.h): how the rules of a configuration are merged into     *)
(* the kernel's monitor_actions map at start, how the consumer thread      *)
(* examines an event against the user-space tables, the whitelist and its  *)
(* decision cache, and how SIGHUP replaces the tables while it does so.    *)
(*                                                                         *)
(* The tables are immutable snapshots behind a readers/writer lock; the    *)
(* cache has a mutex of its own and outlives the tables, so the reload     *)
(* has to clear it.  A process is one instance of its pid.  An exe stands  *)
(* for what a whitelist entry is matched with, the exe and the ancestors;  *)
(* a process without an exe of the process tree is looked up in /proc when *)
(* its event is examined, where another process may have the pid by then.  *)
(* The cache keys are (pid, start_time); the tree's start times and those  *)
(* of /proc have different units, so a process has one key in each.        *)
(***************************************************************************)
EXTENDS Naturals, Sequences, FiniteSets, SequencesExt

CONSTANTS
  Files, Procs, Exes, RuleIds,
  Configs,       (* contents the configuration file may have               *)
  Broken,        (* those of them that do not load                         *)
  Config0,       (* the configuration the monitor starts with              *)
  RulesIn,       (* the file rules of a configuration, in file order       *)
  Baselined,     (* files of the --db baseline; {} without --db            *)
  PidOf,         (* the pid of a process                                   *)
  Exe0,          (* what the processes run at first                        *)
  Alive0,        (* the processes that run at first                        *)
  NoExe,         (* an exe that could not be resolved                      *)
  MaxRulesPerIno, MaxCacheSize,
  MaxEvents, MaxEdits, MaxExecs        (* bounds: events; edits; execs and starts *)

Accesses == {"read", "write", "chmod", "chown", "unlink"}
Rules == [id : RuleIds, ino : Files, mask : SUBSET Accesses, block : BOOLEAN,
          severity : 0..3, whitelist : SUBSET Exes]

(* a process under its start time in the tree, and under that in /proc *)
Keys == Procs \X {"tree", "proc"}
NoKey == <<"", "">>

SamePid(p) == {q \in Procs : PidOf[q] = PidOf[p]}

ASSUME FileRulesAssumption ==
  /\ Broken \subseteq Configs /\ Config0 \in Configs \ Broken
  /\ \A c \in Configs : RulesIn[c] \in Seq(Rules)
  /\ Baselined \subseteq Files /\ NoExe \notin Exes /\ Exe0 \in [Procs -> Exes]
  /\ Alive0 \subseteq Procs /\ \A p \in Alive0 : SamePid(p) \cap Alive0 = {p}
  /\ MaxRulesPerIno \in Nat \ {0} /\ MaxCacheSize \in Nat \ {0}

VARIABLES
  monitor_actions, (* rule set of each file: at first the table rule_sets  *)
                   (* that is being built, then the kernel's map           *)
  booted,          (* rules merged so far; "up" once the map is written    *)
  alive, exe,      (* the processes there are, and what each runs          *)
  ran,             (* history: what has run under the pid of a process     *)
                   (* since it began, by itself or by later ones           *)
  disk, pending,   (* the configuration file; g_sighup_pending             *)
  rpc, loaded,     (* main thread: program counter, parsed configuration   *)
  file_rules, whitelist, engine,  (* the snapshots, as configurations      *)
  previous,        (* history: the whitelist snapshot the reload replaces  *)
  bus,             (* events on their way to the consumer thread           *)
  cpc, ev, todo,   (* consumer: program counter, event in hand, rules      *)
                   (* still to examine                                     *)
  key, who,        (* cache key, and exe of a miss, in its hand            *)
  cache, lru,      (* decision cache: entry of a key, recency list         *)
  suppressed_,     (* suppressed alerts per rule since the last report     *)
  events, edits, execs

bootvars   == <<monitor_actions, booted>>
procvars   == <<alive, exe, ran, execs>>
filevars   == <<disk, pending, edits>>
tables     == <<file_rules, whitelist, engine, previous>>
mainvars   == <<rpc, loaded>>
cachevars  == <<cache, lru, suppressed_>>
consvars   == <<cpc, ev, todo, key, who>>
queuevars  == <<bus, events>>
vars == <<bootvars, procvars, filevars, tables, mainvars, cachevars,
          consvars, queuevars>>

NoEntry == [hit |-> FALSE, rule |-> "", who |-> NoExe]
NoEvent == [proc |-> "", ino |-> "", attribute |-> FALSE, exe |-> NoExe]

Init ==
  /\ monitor_actions = [f \in Files |-> <<>>] /\ booted = 0
  /\ alive = Alive0 /\ exe = Exe0 /\ execs = 0
  /\ ran = [p \in Procs |-> IF p \in Alive0 THEN {Exe0[p]} ELSE {}]
  /\ disk = Config0 /\ pending = FALSE /\ edits = 0
  /\ file_rules = Config0 /\ whitelist = Config0 /\ engine = Config0
  /\ previous = Config0
  /\ rpc = "boot" /\ loaded = Config0
  /\ bus = <<>> /\ events = 0
  /\ cpc = "idle" /\ ev = NoEvent /\ todo = <<>>
  /\ key = NoKey /\ who = NoExe
  /\ cache = [k \in Keys |-> NoEntry] /\ lru = <<>>
  /\ suppressed_ = [r \in RuleIds |-> 0]

-----------------------------------------------------------------------------
(* Start: common_monitor_init *)

RuleValue(r) == [mask |-> r.mask, block |-> r.block, severity |-> r.severity]

Weaker(v, w) ==
  \/ ~v.block /\ w.block
  \/ v.block = w.block /\ v.severity < w.severity

(* the first of the weakest entries *)
Weakest(set) ==
  CHOOSE i \in DOMAIN set :
    /\ \A j \in DOMAIN set : ~Weaker(set[j], set[i])
    /\ \A j \in 1..i-1 : Weaker(set[i], set[j])

(* Mutant: a later rule of the file replaces the earlier ones. *)
Merge_LastWins(set, v) == <<v>>

Merge(set, v) ==
  IF Len(set) < MaxRulesPerIno THEN Append(set, v)
  ELSE IF Weaker(set[Weakest(set)], v) THEN [set EXCEPT ![Weakest(set)] = v]
  ELSE set

MergeRule ==
  /\ rpc = "boot" /\ booted < Len(RulesIn[Config0])
  /\ booted' = booted + 1
  /\ LET r == RulesIn[Config0][booted + 1]
     IN  monitor_actions' =
           [monitor_actions EXCEPT ![r.ino] = Merge(@, RuleValue(r))]
  /\ UNCHANGED <<procvars, filevars, tables, mainvars, cachevars, consvars,
                 queuevars>>

BaselineRule ==
  [mask |-> {"read", "write", "chmod", "chown"}, block |-> FALSE, severity |-> 2]

(* files of the baseline without a rule of their own get a pseudo rule *)
BootDone ==
  /\ rpc = "boot" /\ booted = Len(RulesIn[Config0])
  /\ monitor_actions' =
       [f \in Files |-> IF f \in Baselined /\ monitor_actions[f] = <<>>
                          THEN <<BaselineRule>> ELSE monitor_actions[f]]
  /\ rpc' = "idle"
  /\ UNCHANGED <<booted, procvars, filevars, tables, loaded, cachevars,
                 consvars, queuevars>>

-----------------------------------------------------------------------------
(* Environment *)

Hits(f, access) ==
  {i \in DOMAIN monitor_actions[f] : access \in monitor_actions[f][i].mask}

(* match_rule_set in a hook: an event if any rule of the set watches this *)
Denied(f, access) == \E i \in Hits(f, access) : monitor_actions[f][i].block

Access(p, f, access) ==
  /\ rpc # "boot" /\ events < MaxEvents
  /\ p \in alive /\ Hits(f, access) # {}
  /\ events' = events + 1
  /\ bus' = Append(bus, [proc |-> p, ino |-> f, exe |-> NoExe,
                         attribute |-> access \in {"chmod", "chown", "unlink"}])
  /\ UNCHANGED <<bootvars, procvars, filevars, tables, mainvars, cachevars,
                 consvars>>

(* p runs x from now on, for whoever had its pid before as well *)
Runs(p, x) ==
  /\ execs < MaxExecs /\ execs' = execs + 1
  /\ exe' = [exe EXCEPT ![p] = x]
  /\ ran' = [q \in Procs |-> IF q = p \/ (q \in SamePid(p) /\ ran[q] # {})
                               THEN ran[q] \cup {x} ELSE ran[q]]
  /\ UNCHANGED <<bootvars, filevars, tables, mainvars, cachevars, consvars,
                 queuevars>>

(* a new image for p; under the same name it changes nothing here *)
Exec(p, x) == p \in alive /\ x # exe[p] /\ Runs(p, x) /\ UNCHANGED alive

(* a new process, which runs what its parent does, under a free pid *)
Start(p, x) ==
  /\ ran[p] = {} /\ SamePid(p) \cap alive = {}
  /\ Runs(p, x)
  /\ alive' = alive \cup {p}

Exit(p) ==
  /\ p \in alive
  /\ alive' = alive \ {p}
  /\ UNCHANGED <<bootvars, exe, ran, execs, filevars, tables, mainvars,
                 cachevars, consvars, queuevars>>

(* the administrator edits the file, and signals when done *)
Edit(c) ==
  /\ edits < MaxEdits /\ c # disk
  /\ edits' = edits + 1
  /\ disk' = c
  /\ UNCHANGED <<bootvars, procvars, pending, tables, mainvars, cachevars,
                 consvars, queuevars>>

SigHup ==
  /\ ~pending
  /\ pending' = TRUE
  /\ UNCHANGED <<bootvars, procvars, disk, edits, tables, mainvars, cachevars,
                 consvars, queuevars>>

-----------------------------------------------------------------------------
(* Readers/writer lock g_file_rules_mtx *)

Reading == cpc \in {"rules", "stat", "match"}
Writing == rpc \in {"rules", "whitelist", "engine"}

(* Consumer thread: process_event_core, then eval_rules_on_file_event *)

(* with --db, attribute events go to the baseline comparison only *)
Take ==
  /\ cpc = "idle" /\ bus # <<>>
  /\ bus' = Tail(bus)
  /\ ev' = Head(bus)
  /\ cpc' = IF Baselined # {} /\ Head(bus).attribute THEN "engine" ELSE "lock"
  /\ UNCHANGED <<bootvars, procvars, filevars, tables, mainvars, cachevars,
                 todo, key, who, events>>

RulesFor(config, f) == SelectSeq(RulesIn[config], LAMBDA r : r.ino = f)

(* The exe of the event is looked up in the process tree once: any that    *)
(* ran under the pid since the process began, as the tree reads it late,   *)
(* or none.                                                                *)
LockShared ==
  /\ cpc = "lock" /\ ~Writing
  /\ cpc' = "rules"
  /\ todo' = RulesFor(file_rules, ev.ino)
  /\ \E x \in ran[ev.proc] \cup {NoExe} : ev' = [ev EXCEPT !.exe = x]
  /\ UNCHANGED <<bootvars, procvars, filevars, tables, mainvars, cachevars,
                 key, who, queuevars>>

NoWhitelist(config) == \A i \in DOMAIN RulesIn[config] : RulesIn[config][i].whitelist = {}

(* WhitelistTable::Match: entries of all rules with this id *)
Whitelisted(config, id, x) ==
  \E i \in DOMAIN RulesIn[config] :
    RulesIn[config][i].id = id /\ x \in RulesIn[config][i].whitelist

Suppress(id) == suppressed_' = [suppressed_ EXCEPT ![id] = @ + 1]

MostRecent(k) == <<k>> \o SelectSeq(lru, LAMBDA q : q # k)

(* Mutant: an exe that cannot be resolved is let off. *)
RuleAlerts_FailOpen ==
  /\ cpc \in {"rules", "stat"} /\ todo # <<>>
  /\ IF NoWhitelist(whitelist) THEN UNCHANGED suppressed_
     ELSE ev.exe = NoExe /\ Suppress(Head(todo).id)
  /\ todo' = Tail(todo) /\ key' = NoKey /\ cpc' = "rules"
  /\ UNCHANGED <<bootvars, procvars, filevars, tables, mainvars, cache, lru,
                 ev, who, queuevars>>

(* an alert is raised at once: no rule has a whitelist, or neither the     *)
(* tree nor /proc resolves the exe, which may happen to any event          *)
RuleAlerts ==
  /\ cpc \in {"rules", "stat"} /\ todo # <<>>
  /\ NoWhitelist(whitelist) \/ ev.exe = NoExe
  /\ todo' = Tail(todo) /\ key' = NoKey /\ cpc' = "rules"
  /\ UNCHANGED <<bootvars, procvars, filevars, tables, mainvars, cachevars,
                 ev, who, queuevars>>

(* Mutant: the start time is left out of the key. *)
Key_PidOnly(p, source) == <<CHOOSE q \in Procs : PidOf[q] = PidOf[p], source>>

Key(p, source) == <<p, source>>

(* The fallback reads /proc/<pid>/stat for the key, of whoever has the pid *)
(* now: the start time is not compared with that of the event.             *)
ReadStat ==
  /\ cpc = "rules" /\ todo # <<>> /\ ~NoWhitelist(whitelist)
  /\ ev.exe = NoExe
  /\ \E q \in alive \cap SamePid(ev.proc) : key' = Key(q, "proc")
  /\ cpc' = "stat"
  /\ UNCHANGED <<bootvars, procvars, filevars, tables, mainvars, cachevars,
                 ev, todo, who, queuevars>>

(* key and exe a decision is made for: the tree's, or those of the fallback, *)
(* which reads the exe after the key, possibly of yet another process        *)
Resolved(k, x) ==
  \/ cpc = "rules" /\ ev.exe # NoExe /\ k = Key(ev.proc, "tree") /\ x = ev.exe
  \/ cpc = "stat" /\ k = key /\ \E q \in alive \cap SamePid(ev.proc) : x = exe[q]

(* match_resolved: the cached decision of the process, for whatever rule *)
CacheHit ==
  /\ cpc \in {"rules", "stat"} /\ todo # <<>> /\ ~NoWhitelist(whitelist)
  /\ \E k \in Keys, x \in Exes :
       /\ Resolved(k, x) /\ cache[k] # NoEntry
       /\ lru' = MostRecent(k)
       /\ IF cache[k].hit THEN Suppress(Head(todo).id) ELSE UNCHANGED suppressed_
  /\ todo' = Tail(todo) /\ key' = NoKey /\ cpc' = "rules"
  /\ UNCHANGED <<bootvars, procvars, filevars, tables, mainvars, cache,
                 ev, who, queuevars>>

CacheMiss ==
  /\ cpc \in {"rules", "stat"} /\ todo # <<>> /\ ~NoWhitelist(whitelist)
  /\ \E k \in Keys, x \in Exes :
       Resolved(k, x) /\ cache[k] = NoEntry /\ key' = k /\ who' = x
  /\ cpc' = "match"
  /\ UNCHANGED <<bootvars, procvars, filevars, tables, mainvars, cachevars,
                 ev, todo, queuevars>>

Oldest == IF Len(lru) >= MaxCacheSize THEN {Last(MostRecent(key))} ELSE {}

Match ==
  LET hit == Whitelisted(whitelist, Head(todo).id, who)
  IN  /\ cpc = "match"
      /\ lru' = SelectSeq(MostRecent(key), LAMBDA k : k \notin Oldest)
      /\ cache' = [k \in Keys |->
                     IF k = key THEN [hit |-> hit, rule |-> Head(todo).id, who |-> who]
                     ELSE IF k \in Oldest THEN NoEntry ELSE cache[k]]
      /\ IF hit THEN Suppress(Head(todo).id) ELSE UNCHANGED suppressed_
      /\ todo' = Tail(todo) /\ key' = NoKey /\ who' = NoExe /\ cpc' = "rules"
      /\ UNCHANGED <<bootvars, procvars, filevars, tables, mainvars, ev,
                     queuevars>>

(* the rules are done with the event *)
UnlockShared ==
  /\ cpc = "rules" /\ todo = <<>>
  /\ cpc' = "engine" /\ ev' = NoEvent
  /\ UNCHANGED <<bootvars, procvars, filevars, tables, mainvars, cachevars,
                 todo, key, who, queuevars>>

(* the engine is a snapshot of its own, taken under the lock and kept *)
EvalEngine ==
  /\ cpc = "engine" /\ ~Writing
  /\ cpc' = "idle" /\ ev' = NoEvent
  /\ UNCHANGED <<bootvars, procvars, filevars, tables, mainvars, cachevars,
                 todo, key, who, queuevars>>

(* log_suppressed_stats *)
ReportSuppressed ==
  /\ cpc = "idle" /\ \E r \in RuleIds : suppressed_[r] > 0
  /\ suppressed_' = [r \in RuleIds |-> 0]
  /\ UNCHANGED <<bootvars, procvars, filevars, tables, mainvars, cache, lru,
                 consvars, queuevars>>

Consumer ==
  \/ Take \/ LockShared \/ RuleAlerts \/ ReadStat \/ CacheHit \/ CacheMiss \/ Match
  \/ UnlockShared \/ EvalEngine \/ ReportSuppressed

-----------------------------------------------------------------------------
(* Main thread: reload_monitor_config *)

ReloadBegin ==
  /\ rpc = "idle" /\ pending
  /\ pending' = FALSE
  /\ rpc' = "read"
  /\ UNCHANGED <<bootvars, procvars, disk, edits, tables, loaded, cachevars,
                 consvars, queuevars>>

(* the file is parsed and all three tables are built, or nothing changes *)
ReloadRead ==
  /\ rpc = "read"
  /\ IF disk \in Broken THEN rpc' = "idle" /\ UNCHANGED loaded
                        ELSE rpc' = "lock" /\ loaded' = disk
  /\ UNCHANGED <<bootvars, procvars, filevars, tables, cachevars, consvars,
                 queuevars>>

(* Mutant: the tables are replaced under a reader's feet. *)
ReloadLock_IgnoresReader ==
  /\ rpc = "lock"
  /\ rpc' = "rules"
  /\ UNCHANGED <<bootvars, procvars, filevars, tables, loaded, cachevars,
                 consvars, queuevars>>

ReloadLock ==
  /\ rpc = "lock" /\ ~Reading
  /\ rpc' = "rules"
  /\ UNCHANGED <<bootvars, procvars, filevars, tables, loaded, cachevars,
                 consvars, queuevars>>

SwapRules ==
  /\ rpc = "rules"
  /\ file_rules' = loaded /\ rpc' = "whitelist"
  /\ UNCHANGED <<bootvars, procvars, filevars, whitelist, engine, previous,
                 loaded, cachevars, consvars, queuevars>>

SwapWhitelist ==
  /\ rpc = "whitelist"
  /\ whitelist' = loaded /\ previous' = whitelist /\ rpc' = "engine"
  /\ UNCHANGED <<bootvars, procvars, filevars, file_rules, engine, loaded,
                 cachevars, consvars, queuevars>>

SwapEngine ==
  /\ rpc = "engine"
  /\ engine' = loaded /\ rpc' = "clear"
  /\ UNCHANGED <<bootvars, procvars, filevars, file_rules, whitelist, previous,
                 loaded, cachevars, consvars, queuevars>>

(* Mutants: the cache survives the reload; the flag is reset after it. *)
ClearCache_Skipped ==
  /\ rpc = "clear"
  /\ rpc' = "idle"
  /\ UNCHANGED <<bootvars, procvars, filevars, tables, loaded, cachevars,
                 consvars, queuevars>>

ClearCache_LosesSignal ==
  /\ rpc = "clear"
  /\ cache' = [k \in Keys |-> NoEntry] /\ lru' = <<>>
  /\ pending' = FALSE
  /\ rpc' = "idle"
  /\ UNCHANGED <<bootvars, procvars, disk, edits, tables, loaded, suppressed_,
                 consvars, queuevars>>

ClearCache ==
  /\ rpc = "clear"
  /\ cache' = [k \in Keys |-> NoEntry] /\ lru' = <<>>
  /\ rpc' = "idle" /\ previous' = whitelist
  /\ UNCHANGED <<bootvars, procvars, filevars, file_rules, whitelist, engine,
                 loaded, suppressed_, consvars, queuevars>>

Reload ==
  \/ ReloadBegin \/ ReloadRead \/ ReloadLock \/ SwapRules \/ SwapWhitelist
  \/ SwapEngine \/ ClearCache

Next ==
  \/ MergeRule \/ BootDone \/ Reload \/ Consumer \/ SigHup
  \/ \E p \in Procs, f \in Files, access \in Accesses : Access(p, f, access)
  \/ \E p \in Procs, x \in Exes : Exec(p, x) \/ Start(p, x)
  \/ \E p \in Procs : Exit(p)
  \/ \E c \in Configs : Edit(c)

Spec == Init /\ [][Next]_vars

(* Both threads are scheduled, and the consumer lets the writer in: the    *)
(* last reader to leave hands the lock to a waiting writer.                *)
Fairness ==
  /\ WF_vars(MergeRule \/ BootDone \/ Reload) /\ SF_vars(ReloadLock)
  /\ WF_vars(Consumer)

FairSpec == Spec /\ Fairness

-----------------------------------------------------------------------------
(* Properties *)

(* Each variable holds what the code keeps in it. *)
TypeOK ==
  /\ \A f \in Files :
       /\ monitor_actions[f] \in
            Seq([mask : SUBSET Accesses, block : BOOLEAN, severity : 0..3])
       /\ Len(monitor_actions[f]) <= MaxRulesPerIno
  /\ alive \subseteq Procs /\ exe \in [Procs -> Exes] /\ ran \in [Procs -> SUBSET Exes]
  /\ {disk, loaded, file_rules, whitelist, engine, previous} \subseteq Configs
  /\ pending \in BOOLEAN
  /\ rpc \in {"boot", "idle", "read", "lock", "rules", "whitelist", "engine", "clear"}
  /\ cpc \in {"idle", "lock", "rules", "stat", "match", "engine"}
  /\ todo \in Seq(Rules)
  /\ Len(lru) <= MaxCacheSize /\ IsInjective(lru)
  /\ key \in Keys \cup {NoKey}
  /\ Range(lru) = {k \in Keys : cache[k] # NoEntry}
  /\ suppressed_ \in [RuleIds -> Nat]

(***************************************************************************)
(* "Several rules of one file take effect independently" (R13): as long as *)
(* they fit into the kernel's set, every rule reports what it watches, and *)
(* an access is refused exactly if a blocking rule watches it.  When they  *)
(* do not fit, blocking rules are lost only to other blocking rules.       *)
(***************************************************************************)
Rule0(i) == RulesIn[Config0][i]
Merged(f) == {i \in 1..booted : Rule0(i).ino = f}
Blocking(f) == {i \in Merged(f) : Rule0(i).block}
Watch(rules, access) == \E i \in rules : access \in Rule0(i).mask

RulesIndependent ==
  \A f \in Files, access \in Accesses :
    /\ Cardinality(Merged(f)) <= MaxRulesPerIno /\ Merged(f) # {}
         => (Hits(f, access) # {} <=> Watch(Merged(f), access))
    /\ Cardinality(Blocking(f)) <= MaxRulesPerIno
         => (Denied(f, access) <=> Watch(Blocking(f), access))

(***************************************************************************)
(* All rules of an event are examined against tables of one configuration, *)
(* although the reload replaces them one after the other.                  *)
(***************************************************************************)
OneGeneration == Reading => file_rules = whitelist /\ whitelist = engine

(***************************************************************************)
(* The cache never outlives its table: when no reload is between the swap  *)
(* and ClearCache, every cached decision is what the current whitelist     *)
(* says of the rule and the exe it was made for.                           *)
(***************************************************************************)
CacheFresh ==
  rpc \notin {"whitelist", "engine", "clear"} =>
    \A k \in Keys : cache[k] # NoEntry =>
      (cache[k].hit <=> Whitelisted(whitelist, cache[k].rule, cache[k].who))

Suppresses(id) == suppressed_'[id] > suppressed_[id]

(***************************************************************************)
(* Fail-closed: an alert is suppressed only for an exe that the whitelist  *)
(* lists, or listed until the reload under way, and that ran under the     *)
(* event's pid since the event's process began.  A decision cached for an  *)
(* earlier process of the pid is never used; a later one's exe may be, as  *)
(* the tree and /proc are read late.                                       *)
(***************************************************************************)
SuppressionHasCause ==
  [][\A id \in RuleIds : Suppresses(id) =>
       \E x \in ran[ev.proc], r \in RuleIds :
         \/ Whitelisted(whitelist, r, x)
         \/ rpc = "clear" /\ Whitelisted(previous, r, x)]_vars

(***************************************************************************)
(* "Each rule goes through whitelist suppression and alerting on its own"  *)
(* (docs/perf-tuning-w4d1.md): what is suppressed for a rule is listed by  *)
(* that rule.                                                              *)
(***************************************************************************)
SuppressedByOwnRule ==
  [][\A id \in RuleIds : Suppresses(id) /\ rpc # "clear" =>
       \E x \in ran[ev.proc] : Whitelisted(whitelist, id, x)]_vars

(***************************************************************************)
(* No SIGHUP is lost: the configuration on disk when the signal comes is   *)
(* in force in the end, unless it does not load or is edited again.        *)
(***************************************************************************)
InForce(c) == {file_rules, whitelist, engine} = {c} /\ rpc # "clear"
ReloadTakesEffect ==
  \A c \in Configs \ Broken : (pending /\ disk = c) ~> (disk # c \/ InForce(c))
=============================================================================
