-------------------------- MODULE FileRules_proofs --------------------------
(***************************************************************************)
(* The rules of an event are examined against one generation of the        *)
(* tables, the decision cache is fresh outside the reload, a suppression   *)
(* has a cause, and the rules of a file take effect independently: for     *)
(* every number of files, processes, rules and configurations, every cache *)
(* size, every capacity of a kernel's rule set and every number of events, *)
(* execs, edits and signals.                                               *)
(***************************************************************************)
EXTENDS FileRules, TLAPS, FiniteSetTheorems, WellFoundedInduction

-----------------------------------------------------------------------------
(* The readers/writer lock and what the writer has replaced so far *)

LockInv ==
  /\ ~ (Reading /\ Writing)
  /\ ~ Writing => file_rules = whitelist /\ whitelist = engine
  /\ rpc = "whitelist" => file_rules = loaded
  /\ rpc = "engine" => file_rules = loaded /\ whitelist = loaded

LEMMA InitLock == Init => LockInv
  BY DEF Init, LockInv, Reading, Writing

LEMMA StepLock == LockInv /\ [Next]_vars => LockInv'
<1> SUFFICES ASSUME LockInv, [Next]_vars PROVE LockInv'
  OBVIOUS
<1> USE DEF LockInv, Reading, Writing
<1>1. CASE MergeRule \/ BootDone
  BY <1>1 DEF MergeRule, BootDone, tables, mainvars, consvars
<1>2. CASE Reload
  <2>1. CASE ReloadBegin \/ ReloadRead \/ ReloadLock
    BY <2>1 DEF ReloadBegin, ReloadRead, ReloadLock, tables, consvars
  <2>2. CASE SwapRules \/ SwapWhitelist \/ SwapEngine
    BY <2>2 DEF SwapRules, SwapWhitelist, SwapEngine, consvars
  <2>3. CASE ClearCache
    BY <2>3 DEF ClearCache, consvars
  <2>4. QED
    BY <1>2, <2>1, <2>2, <2>3 DEF Reload
<1>3. CASE Consumer
  <2>1. CASE Take \/ UnlockShared \/ EvalEngine \/ ReportSuppressed
    BY <2>1 DEF Take, UnlockShared, EvalEngine, ReportSuppressed, tables,
                mainvars, consvars
  <2>2. CASE LockShared
    BY <2>2 DEF LockShared, tables, mainvars
  <2>3. CASE RuleAlerts \/ ReadStat \/ CacheHit \/ CacheMiss \/ Match
    BY <2>3 DEF RuleAlerts, ReadStat, CacheHit, CacheMiss, Match, tables, mainvars
  <2>4. QED
    BY <1>3, <2>1, <2>2, <2>3 DEF Consumer
<1>4. CASE \/ SigHup
           \/ \E p \in Procs, f \in Files, access \in Accesses : Access(p, f, access)
           \/ \E p \in Procs, x \in Exes : Exec(p, x) \/ Start(p, x)
           \/ \E p \in Procs : Exit(p)
           \/ \E c \in Configs : Edit(c)
  BY <1>4 DEF SigHup, Access, Exec, Start, Runs, Exit, Edit, tables, mainvars, consvars
<1>5. CASE UNCHANGED vars
  BY <1>5 DEF vars, tables, mainvars, consvars
<1>6. QED
  BY <1>1, <1>2, <1>3, <1>4, <1>5 DEF Next

(***************************************************************************)
(* Whatever the reload is doing, the consumer that examines the rules of   *)
(* an event sees three tables of one configuration (process_event_core     *)
(* under the shared lock, reload_monitor_config under the exclusive one).  *)
(***************************************************************************)
THEOREM OneGenerationTheorem == Spec => []OneGeneration
<1>1. LockInv => OneGeneration
  BY DEF LockInv, OneGeneration, Reading, Writing
<1>2. QED
  BY <1>1, InitLock, StepLock, PTL DEF Spec

-----------------------------------------------------------------------------
(* The decision cache *)

(* Every entry says what the whitelist in force says of its rule and exe. *)
EntryFresh(k) ==
  cache[k] # NoEntry =>
    (cache[k].hit <=> Whitelisted(whitelist, cache[k].rule, cache[k].who))

Stale == rpc \in {"whitelist", "engine", "clear"}

LEMMA InitFresh == Init => CacheFresh
  BY DEF Init, CacheFresh

(* A miss stores the verdict of the whitelist in force, and an eviction only *)
(* removes entries.                                                          *)
LEMMA MatchStores ==
  ASSUME Match, NEW k \in Keys
  PROVE  /\ whitelist' = whitelist
         /\ k = key =>
              /\ cache'[k].hit = Whitelisted(whitelist, cache'[k].rule, cache'[k].who)
              /\ cache'[k].who = who
         /\ k # key => cache'[k] = NoEntry \/ cache'[k] = cache[k]
<1> DEFINE id  == Head(todo).id
           hit == Whitelisted(whitelist, id, who)
<1>1. whitelist' = whitelist
  BY DEF Match, tables
<1>2. CASE k = key
  <2>1. cache'[k] = [hit |-> hit, rule |-> id, who |-> who]
    BY <1>2 DEF Match
  <2>2. cache'[k].hit = hit /\ cache'[k].rule = id /\ cache'[k].who = who
    BY <2>1
  <2>3. QED
    BY <1>1, <1>2, <2>2
<1>3. CASE k # key
  BY <1>1, <1>3 DEF Match
<1>4. QED
  BY <1>2, <1>3

LEMMA MatchFresh ==
  ASSUME Match, NEW k \in Keys, EntryFresh(k)
  PROVE  EntryFresh(k)'
  BY MatchStores DEF EntryFresh, NoEntry

LEMMA StepFresh == CacheFresh /\ [Next]_vars => CacheFresh'
<1> SUFFICES ASSUME CacheFresh, [Next]_vars, ~ Stale', NEW k \in Keys
             PROVE  EntryFresh(k)'
  BY DEF CacheFresh, EntryFresh, Stale
<1> DEFINE Quiet == UNCHANGED <<cache, whitelist>> /\ ~ Stale
<1>1. ASSUME Quiet PROVE EntryFresh(k)'
  BY <1>1 DEF CacheFresh, EntryFresh, Stale, NoEntry
<1>2. CASE MergeRule \/ BootDone
  BY <1>1, <1>2 DEF MergeRule, BootDone, tables, mainvars, cachevars, Stale
<1>3. CASE Reload
  <2>1. CASE ReloadBegin \/ ReloadRead \/ ReloadLock
    BY <1>1, <2>1 DEF ReloadBegin, ReloadRead, ReloadLock, tables, cachevars, Stale
  <2>2. CASE SwapRules \/ SwapWhitelist \/ SwapEngine
    BY <2>2 DEF SwapRules, SwapWhitelist, SwapEngine, Stale
  <2>3. CASE ClearCache
    BY <2>3 DEF ClearCache, EntryFresh, NoEntry
  <2>4. QED
    BY <1>3, <2>1, <2>2, <2>3 DEF Reload
<1>4. CASE Consumer
  <2>1. CASE Take \/ LockShared \/ UnlockShared \/ EvalEngine \/ ReportSuppressed
    BY <1>1, <2>1 DEF Take, LockShared, UnlockShared, EvalEngine, ReportSuppressed,
                      tables, mainvars, cachevars, Stale
  <2>2. CASE RuleAlerts \/ ReadStat \/ CacheHit \/ CacheMiss
    BY <1>1, <2>2 DEF RuleAlerts, ReadStat, CacheHit, CacheMiss, tables, mainvars,
                      cachevars, Stale
  <2>3. CASE Match
    <3>1. ~ Stale
      BY <2>3 DEF Match, mainvars, Stale
    <3>2. QED
      BY <2>3, <3>1, MatchFresh DEF CacheFresh, EntryFresh, Stale
  <2>4. QED
    BY <1>4, <2>1, <2>2, <2>3 DEF Consumer
<1>5. CASE \/ SigHup
           \/ \E q \in Procs, f \in Files, access \in Accesses : Access(q, f, access)
           \/ \E q \in Procs, x \in Exes : Exec(q, x) \/ Start(q, x)
           \/ \E q \in Procs : Exit(q)
           \/ \E c \in Configs : Edit(c)
  BY <1>1, <1>5 DEF SigHup, Access, Exec, Start, Runs, Exit, Edit, tables, mainvars, cachevars, Stale
<1>6. CASE UNCHANGED vars
  BY <1>1, <1>6 DEF vars, tables, mainvars, cachevars, Stale
<1>7. QED
  BY <1>2, <1>3, <1>4, <1>5, <1>6 DEF Next

(***************************************************************************)
(* A cached decision is never older than the whitelist it is used with,    *)
(* except between the swap of the tables and ClearCache.                   *)
(***************************************************************************)
THEOREM CacheFreshTheorem == Spec => []CacheFresh
  BY InitFresh, StepFresh, PTL DEF Spec

-----------------------------------------------------------------------------
(* Where the exe that a decision is made for comes from *)

EventType == [proc : Procs, ino : Files, exe : Exes \cup {NoExe}, attribute : BOOLEAN]

ConfigsOK == {disk, loaded, whitelist, previous} \subseteq Configs

(* Only the last process of a pid can be alive, so what it ran has run under *)
(* the pid since any process of the pid began.                               *)
ProcsOK ==
  /\ alive \subseteq Procs /\ exe \in [Procs -> Exes] /\ ran \in [Procs -> SUBSET Exes]
  /\ \A r \in alive : exe[r] \in ran[r]
  /\ \A r \in alive : \A q \in SamePid(r) : ran[q] # {} => ran[r] \subseteq ran[q]

BusOK ==
  /\ bus \in Seq(EventType)
  /\ \A i \in DOMAIN bus : ran[bus[i].proc] # {}

HasEvent == cpc \in {"lock", "rules", "stat", "match"}

EventOK ==
  /\ HasEvent => ev \in EventType /\ ran[ev.proc] # {}
  /\ cpc \in {"rules", "stat", "match"} => ev.exe \in ran[ev.proc] \cup {NoExe}

(* The process whose key is in hand has the event's pid, at the event or later. *)
KeyOK ==
  cpc \in {"stat", "match"} =>
    /\ key \in Keys /\ key[1] \in SamePid(ev.proc)
    /\ ran[key[1]] # {} /\ ran[key[1]] \subseteq ran[ev.proc]

WhoOK == cpc = "match" => who \in ran[key[1]]

OriginInv == ConfigsOK /\ ProcsOK /\ BusOK /\ EventOK /\ KeyOK /\ WhoOK

LEMMA InitOrigin == Init => OriginInv
<1> SUFFICES ASSUME Init PROVE OriginInv
  OBVIOUS
<1> USE FileRulesAssumption DEF Init
<1>1. ConfigsOK
  BY DEF ConfigsOK
<1>2. ProcsOK
  <2>1. /\ alive = Alive0 /\ exe = Exe0
        /\ ran = [p \in Procs |-> IF p \in Alive0 THEN {Exe0[p]} ELSE {}]
    OBVIOUS
  <2>2. ASSUME NEW r \in alive, NEW q \in SamePid(r), ran[q] # {} PROVE q = r
    <3>1. q \in Procs /\ q \in Alive0
      BY <2>1, <2>2 DEF SamePid
    <3>2. QED
      BY <2>1, <3>1
  <2>3. Alive0 \subseteq Procs /\ Exe0 \in [Procs -> Exes]
    OBVIOUS
  <2>4. /\ alive \subseteq Procs /\ exe \in [Procs -> Exes]
        /\ ran \in [Procs -> SUBSET Exes]
    BY <2>1, <2>3
  <2>5. \A r \in alive : exe[r] \in ran[r]
    BY <2>1, <2>3
  <2>6. QED
    BY <2>2, <2>4, <2>5 DEF ProcsOK
<1>3. BusOK
  BY DEF BusOK
<1>4. EventOK /\ KeyOK /\ WhoOK
  BY DEF EventOK, HasEvent, KeyOK, WhoOK
<1>5. QED
  BY <1>1, <1>2, <1>3, <1>4 DEF OriginInv

(* A step that only adds to what ran under the pids, for all of a pid. *)
LEMMA RanGrows ==
  ASSUME OriginInv, ProcsOK', UNCHANGED <<bus, consvars>>, ConfigsOK',
         \A q \in Procs : ran[q] \subseteq ran'[q],
         NEW p \in Procs, NEW x \in Exes,
         ran' = [q \in Procs |-> IF q = p \/ (q \in SamePid(p) /\ ran[q] # {})
                                   THEN ran[q] \cup {x} ELSE ran[q]]
  PROVE  OriginInv'
<1>1. BusOK'
  <2>1. \A i \in DOMAIN bus : bus[i] \in EventType
    BY DEF OriginInv, BusOK
  <2>2. \A i \in DOMAIN bus : bus[i].proc \in Procs
    BY <2>1 DEF EventType
  <2>3. QED
    BY <2>2 DEF OriginInv, BusOK
<1>2. cpc' = cpc /\ ev' = ev /\ key' = key /\ who' = who
  BY DEF consvars
<1>3. HasEvent => ev.proc \in Procs /\ ran[ev.proc] # {}
  BY DEF OriginInv, EventOK, EventType
<1>4. EventOK'
  BY <1>2, <1>3 DEF OriginInv, EventOK, HasEvent
<1>5. KeyOK'
  <2> SUFFICES ASSUME cpc \in {"stat", "match"}
               PROVE  /\ key \in Keys /\ key[1] \in SamePid(ev.proc)
                      /\ ran'[key[1]] # {} /\ ran'[key[1]] \subseteq ran'[ev.proc]
    BY <1>2 DEF KeyOK, SamePid
  <2>1. /\ key \in Keys /\ key[1] \in SamePid(ev.proc)
        /\ ran[key[1]] # {} /\ ran[key[1]] \subseteq ran[ev.proc]
    BY DEF OriginInv, KeyOK
  <2>2. key[1] \in Procs /\ ev.proc \in Procs /\ PidOf[key[1]] = PidOf[ev.proc]
    BY <1>3, <2>1 DEF SamePid, HasEvent
  <2>3. ran[ev.proc] # {}
    BY <1>3 DEF HasEvent
  <2>4. CASE key[1] = p \/ key[1] \in SamePid(p)
    <3>1. ran'[ev.proc] = ran[ev.proc] \cup {x} /\ ran'[key[1]] = ran[key[1]] \cup {x}
      BY <2>1, <2>2, <2>3, <2>4 DEF SamePid
    <3>2. QED
      BY <2>1, <3>1
  <2>5. CASE ~(key[1] = p \/ key[1] \in SamePid(p))
    <3>1. ran'[key[1]] = ran[key[1]]
      BY <2>2, <2>5
    <3>2. ran[ev.proc] \subseteq ran'[ev.proc]
      BY <2>2
    <3>3. QED
      BY <2>1, <3>1, <3>2
  <2>6. QED
    BY <2>4, <2>5
<1>6. WhoOK'
  <2>1. cpc = "match" => who \in ran[key[1]] /\ key[1] \in Procs
    BY DEF OriginInv, WhoOK, KeyOK, SamePid
  <2>2. QED
    BY <1>2, <2>1 DEF WhoOK
<1>7. QED
  BY <1>1, <1>4, <1>5, <1>6 DEF OriginInv

(* What Runs does to the history, of a process that is alive or begins. *)
LEMMA RunsGrows ==
  ASSUME OriginInv, NEW p \in Procs, NEW x \in Exes, Exec(p, x) \/ Start(p, x)
  PROVE  OriginInv'
<1>1. /\ exe' = [exe EXCEPT ![p] = x]
      /\ ran' = [q \in Procs |-> IF q = p \/ (q \in SamePid(p) /\ ran[q] # {})
                                   THEN ran[q] \cup {x} ELSE ran[q]]
      /\ UNCHANGED <<bus, consvars>> /\ ConfigsOK'
  BY DEF Exec, Start, Runs, OriginInv, ConfigsOK, tables, mainvars, filevars, queuevars
<1>2. /\ alive \subseteq Procs /\ exe \in [Procs -> Exes] /\ ran \in [Procs -> SUBSET Exes]
      /\ \A r \in alive : exe[r] \in ran[r]
      /\ \A r \in alive : \A q \in SamePid(r) : ran[q] # {} => ran[r] \subseteq ran[q]
  BY DEF OriginInv, ProcsOK
<1>3. \A q \in Procs : ran[q] \subseteq ran'[q]
  BY <1>1, <1>2
<1>4. /\ exe' \in [Procs -> Exes] /\ ran' \in [Procs -> SUBSET Exes]
      /\ exe'[p] = x /\ x \in ran'[p]
  BY <1>1, <1>2
<1>5. alive' \subseteq alive \cup {p}
  BY DEF Exec, Start
<1>6. ASSUME NEW r \in alive' PROVE exe'[r] \in ran'[r]
  <2>1. CASE r = p
    BY <1>4, <2>1
  <2>2. CASE r # p
    BY <1>1, <1>2, <1>3, <1>5, <2>2
  <2>3. QED
    BY <2>1, <2>2
<1>7. ASSUME NEW r \in alive', NEW q \in SamePid(r), ran'[q] # {}
      PROVE  ran'[r] \subseteq ran'[q]
  <2>1. r \in Procs /\ q \in Procs /\ PidOf[q] = PidOf[r]
    BY <1>2, <1>5 DEF SamePid
  <2>2. CASE PidOf[r] = PidOf[p]
    <3>1. q \in SamePid(p) /\ r \in SamePid(p)
      BY <2>1, <2>2 DEF SamePid
    <3>2. q = p \/ ran[q] # {}
      BY <1>1, <1>7, <2>1
    <3>3. ran'[q] = ran[q] \cup {x}
      BY <1>1, <2>1, <3>1, <3>2
    <3>4. CASE Start(p, x)
      <4>1. r = p /\ ran[p] = {}
        BY <1>5, <3>1, <3>4 DEF Start
      <4>2. ran'[r] = {x}
        BY <1>1, <4>1
      <4>3. QED
        BY <3>3, <4>2
    <3>5. CASE Exec(p, x)
      <4>1. p \in alive /\ r \in alive
        BY <3>5 DEF Exec
      <4>2. ran[r] # {} /\ ran[p] # {}
        BY <1>2, <4>1
      <4>3. ran[q] # {}
        BY <3>2, <4>2
      <4>4. ran[r] \subseteq ran[q]
        BY <1>2, <1>7, <4>1, <4>3
      <4>5. ran'[r] = ran[r] \cup {x}
        BY <1>1, <2>1, <3>1, <4>2
      <4>6. QED
        BY <3>3, <4>4, <4>5
    <3>6. QED
      BY <3>4, <3>5
  <2>3. CASE PidOf[r] # PidOf[p]
    <3>1. q # p /\ r # p /\ q \notin SamePid(p) /\ r \notin SamePid(p)
      BY <2>1, <2>3 DEF SamePid
    <3>2. ran'[q] = ran[q] /\ ran'[r] = ran[r] /\ r \in alive
      BY <1>1, <1>5, <2>1, <3>1
    <3>3. QED
      BY <1>2, <1>7, <3>2
  <2>4. QED
    BY <2>2, <2>3
<1>8. ProcsOK'
  <2>1. alive' \subseteq Procs
    BY <1>2, <1>5
  <2>2. \A r \in alive' : \A q \in SamePid(r)' : ran'[q] # {} => ran'[r] \subseteq ran'[q]
    BY <1>7 DEF SamePid
  <2>3. QED
    BY <1>4, <1>6, <2>1, <2>2 DEF ProcsOK
<1>9. QED
  BY <1>1, <1>3, <1>8, RanGrows

LEMMA StepOrigin == OriginInv /\ [Next]_vars => OriginInv'
<1> SUFFICES ASSUME OriginInv, [Next]_vars PROVE OriginInv'
  OBVIOUS
<1>1. ASSUME UNCHANGED <<procvars, bus, consvars>>, ConfigsOK' PROVE OriginInv'
  BY <1>1 DEF procvars, consvars, OriginInv, ProcsOK, SamePid, BusOK, EventOK, HasEvent,
              KeyOK, WhoOK
<1>2. CASE MergeRule \/ BootDone \/ SigHup \/ \E c \in Configs : Edit(c)
  BY <1>1, <1>2 DEF MergeRule, BootDone, SigHup, Edit, tables, mainvars, filevars,
                    consvars, queuevars, OriginInv, ConfigsOK
<1>3. CASE Reload
  <2>1. UNCHANGED <<procvars, bus, consvars>>
    BY <1>3 DEF Reload, ReloadBegin, ReloadRead, ReloadLock, SwapRules,
       SwapWhitelist, SwapEngine, ClearCache, queuevars
  <2>2. ConfigsOK'
    BY <1>3 DEF Reload, ReloadBegin, ReloadRead, ReloadLock, SwapRules,
       SwapWhitelist, SwapEngine, ClearCache, tables, filevars, OriginInv, ConfigsOK
  <2>3. QED
    BY <1>1, <2>1, <2>2
<1>4. CASE \E p \in Procs, f \in Files, access \in Accesses : Access(p, f, access)
  <2>1. PICK p \in Procs, f \in Files, access \in Accesses : Access(p, f, access)
    BY <1>4
  <2> DEFINE e == [proc |-> p, ino |-> f, exe |-> NoExe,
                   attribute |-> access \in {"chmod", "chown", "unlink"}]
  <2>2. bus' = Append(bus, e) /\ UNCHANGED <<procvars, consvars>> /\ ConfigsOK'
    BY <2>1 DEF Access, tables, mainvars, filevars, OriginInv, ConfigsOK
  <2>3. e \in EventType /\ ran[e.proc] # {}
    BY <2>1 DEF Access, EventType, OriginInv, ProcsOK
  <2>4. BusOK'
    <3>1. bus' \in Seq(EventType)
      BY <2>2, <2>3 DEF OriginInv, BusOK
    <3>2. ASSUME NEW i \in DOMAIN bus' PROVE ran[bus'[i].proc] # {}
      <4> HIDE DEF e
      <4>1. bus'[i] = e \/ (i \in DOMAIN bus /\ bus'[i] = bus[i])
        BY <2>2, <2>3, <3>2 DEF OriginInv, BusOK
      <4>2. QED
        BY <2>3, <4>1 DEF OriginInv, BusOK
    <3>3. QED
      BY <2>2, <3>1, <3>2 DEF BusOK, procvars
  <2>5. QED
    BY <2>2, <2>4 DEF procvars, consvars, OriginInv, ProcsOK, SamePid, EventOK, HasEvent,
                      KeyOK, WhoOK
<1>5. CASE \E p \in Procs, x \in Exes : Exec(p, x) \/ Start(p, x)
  BY <1>5, RunsGrows
<1>6. CASE \E p \in Procs : Exit(p)
  <2>1. PICK p \in Procs : Exit(p)
    BY <1>6
  <2>2. /\ UNCHANGED <<exe, ran, bus, consvars>> /\ ConfigsOK'
        /\ alive' \subseteq alive
    BY <2>1 DEF Exit, tables, mainvars, filevars, queuevars, OriginInv, ConfigsOK
  <2>3. QED
    BY <2>2 DEF consvars, OriginInv, ProcsOK, SamePid, BusOK, EventOK, HasEvent, KeyOK, WhoOK
<1>7. CASE Consumer
  <2>1. UNCHANGED procvars /\ ConfigsOK'
    BY <1>7 DEF Consumer, Take, LockShared, RuleAlerts, ReadStat, CacheHit, CacheMiss,
       Match, UnlockShared, EvalEngine, ReportSuppressed, tables, mainvars, filevars,
       OriginInv, ConfigsOK
  <2>2. ProcsOK' /\ alive' = alive /\ exe' = exe /\ ran' = ran
    BY <2>1 DEF OriginInv, ProcsOK, SamePid, procvars
  <2>3. CASE Take
    <3>1. /\ bus # <<>> /\ ev' = Head(bus) /\ bus' = Tail(bus)
          /\ cpc' \in {"lock", "engine"}
      BY <2>3 DEF Take
    <3>2. bus \in Seq(EventType) /\ \A i \in DOMAIN bus : ran[bus[i].proc] # {}
      BY DEF OriginInv, BusOK
    <3>3. ev' \in EventType /\ ran[ev'.proc] # {}
      BY <3>1, <3>2
    <3>4. bus' \in Seq(EventType)
      BY <3>1, <3>2
    <3>5. \A i \in DOMAIN bus' : i + 1 \in DOMAIN bus /\ bus'[i] = bus[i + 1]
      BY <3>1, <3>2
    <3>6. BusOK'
      BY <2>2, <3>2, <3>4, <3>5 DEF BusOK
    <3>7. EventOK' /\ KeyOK' /\ WhoOK'
      BY <2>2, <3>1, <3>3 DEF EventOK, HasEvent, KeyOK, WhoOK
    <3>8. QED
      BY <2>1, <2>2, <3>6, <3>7 DEF OriginInv
  <2>4. ASSUME ~ Take PROVE BusOK'
    <3>1. bus' = bus
      BY <1>7, <2>4 DEF Consumer, LockShared, RuleAlerts, ReadStat, CacheHit, CacheMiss,
         Match, UnlockShared, EvalEngine, ReportSuppressed, queuevars
    <3>2. QED
      BY <2>2, <3>1 DEF OriginInv, BusOK
  <2>5. CASE LockShared
    <3>1. PICK x \in ran[ev.proc] \cup {NoExe} : ev' = [ev EXCEPT !.exe = x]
      BY <2>5 DEF LockShared
    <3>2. ev \in EventType /\ ran[ev.proc] # {}
      BY <2>5 DEF LockShared, OriginInv, EventOK, HasEvent
    <3>3. ran[ev.proc] \subseteq Exes
      BY <3>2 DEF OriginInv, ProcsOK, EventType
    <3>4. ev' \in EventType /\ ev'.proc = ev.proc /\ ev'.exe = x
      BY <3>1, <3>2, <3>3 DEF EventType
    <3>5. cpc' = "rules"
      BY <2>5 DEF LockShared
    <3>6. EventOK' /\ KeyOK' /\ WhoOK'
      BY <2>2, <3>2, <3>4, <3>5 DEF EventOK, HasEvent, KeyOK, WhoOK
    <3>7. QED
      BY <2>1, <2>2, <2>4, <2>5, <3>6 DEF OriginInv, LockShared, Take
  <2>6. CASE RuleAlerts \/ CacheHit \/ Match
    <3>1. cpc \in {"rules", "stat", "match"} /\ cpc' = "rules" /\ ev' = ev
      BY <2>6 DEF RuleAlerts, CacheHit, Match
    <3>2. EventOK' /\ KeyOK' /\ WhoOK'
      BY <2>2, <3>1 DEF OriginInv, EventOK, HasEvent, KeyOK, WhoOK
    <3>3. ~ Take
      BY <3>1 DEF Take
    <3>4. QED
      BY <2>1, <2>2, <2>4, <3>2, <3>3 DEF OriginInv
  <2>7. CASE ReadStat
    <3>1. /\ cpc = "rules" /\ cpc' = "stat" /\ ev' = ev
          /\ \E q \in alive \cap SamePid(ev.proc) : key' = Key(q, "proc")
      BY <2>7 DEF ReadStat
    <3>2. PICK q \in alive \cap SamePid(ev.proc) : key' = Key(q, "proc")
      BY <3>1
    <3>3. ev \in EventType /\ ran[ev.proc] # {} /\ ev.exe \in ran[ev.proc] \cup {NoExe}
      BY <3>1 DEF OriginInv, EventOK, HasEvent
    <3>4. /\ q \in Procs /\ ev.proc \in SamePid(q) /\ ran[q] # {}
          /\ ran[q] \subseteq ran[ev.proc]
      <4>1. q \in Procs /\ ev.proc \in SamePid(q)
        BY <3>3 DEF SamePid, EventType
      <4>2. QED
        BY <3>3, <4>1 DEF OriginInv, ProcsOK
    <3>5. key' \in Keys /\ key'[1] = q
      BY <3>2, <3>4 DEF Key, Keys
    <3>6. EventOK'
      BY <2>2, <3>1, <3>3 DEF EventOK, HasEvent
    <3>7. KeyOK' /\ WhoOK'
      BY <2>2, <3>1, <3>4, <3>5 DEF KeyOK, WhoOK, SamePid
    <3>8. ~ Take
      BY <3>1 DEF Take
    <3>9. QED
      BY <2>1, <2>2, <2>4, <3>6, <3>7, <3>8 DEF OriginInv
  <2>8. CASE CacheMiss
    <3>1. /\ cpc \in {"rules", "stat"} /\ cpc' = "match" /\ ev' = ev
      BY <2>8 DEF CacheMiss
    <3>2. PICK k \in Keys, x \in Exes : Resolved(k, x) /\ key' = k /\ who' = x
      BY <2>8 DEF CacheMiss
    <3>3. ev \in EventType /\ ran[ev.proc] # {} /\ ev.exe \in ran[ev.proc] \cup {NoExe}
      BY <3>1 DEF OriginInv, EventOK, HasEvent
    <3>4. CASE cpc = "rules"
      <4>1. ev.exe # NoExe /\ k = <<ev.proc, "tree">> /\ x = ev.exe
        BY <3>2, <3>4 DEF Resolved, Key
      <4>2. k[1] = ev.proc /\ ev.proc \in SamePid(ev.proc)
        BY <3>3, <4>1 DEF SamePid, EventType
      <4>3. EventOK' /\ KeyOK' /\ WhoOK'
        BY <2>2, <3>1, <3>2, <3>3, <4>1, <4>2 DEF EventOK, HasEvent, KeyOK, WhoOK, SamePid
      <4>4. QED
        BY <2>1, <2>2, <2>4, <3>4, <4>3 DEF OriginInv, Take
    <3>5. CASE cpc = "stat"
      <4>1. k = key /\ \E q \in alive \cap SamePid(ev.proc) : x = exe[q]
        BY <3>2, <3>5 DEF Resolved
      <4>2. PICK q \in alive \cap SamePid(ev.proc) : x = exe[q]
        BY <4>1
      <4>3. /\ key \in Keys /\ key[1] \in SamePid(ev.proc)
            /\ ran[key[1]] # {} /\ ran[key[1]] \subseteq ran[ev.proc]
        BY <3>5 DEF OriginInv, KeyOK
      <4>4. key[1] \in SamePid(q)
        BY <4>3 DEF SamePid
      <4>5. x \in ran[q] /\ ran[q] \subseteq ran[key[1]]
        BY <4>2, <4>3, <4>4 DEF OriginInv, ProcsOK
      <4>6. EventOK'
        BY <2>2, <3>1, <3>3 DEF EventOK, HasEvent
      <4>7. KeyOK' /\ WhoOK'
        BY <2>2, <3>1, <3>2, <4>1, <4>3, <4>5 DEF KeyOK, WhoOK, SamePid
      <4>8. QED
        BY <2>1, <2>2, <2>4, <3>5, <4>6, <4>7 DEF OriginInv, Take
    <3>6. QED
      BY <3>1, <3>4, <3>5
  <2>9. CASE UnlockShared \/ EvalEngine
    <3>1. cpc' \in {"idle", "engine"} /\ cpc \in {"rules", "engine"}
      BY <2>9 DEF UnlockShared, EvalEngine
    <3>2. EventOK' /\ KeyOK' /\ WhoOK'
      BY <3>1 DEF EventOK, HasEvent, KeyOK, WhoOK
    <3>3. QED
      BY <2>1, <2>2, <2>4, <3>1, <3>2 DEF OriginInv, Take
  <2>10. CASE ReportSuppressed
    BY <1>1, <2>1, <2>10 DEF ReportSuppressed, queuevars
  <2>11. QED
    BY <1>7, <2>3, <2>5, <2>6, <2>7, <2>8, <2>9, <2>10 DEF Consumer
<1>8. CASE UNCHANGED vars
  BY <1>1, <1>8 DEF vars, tables, mainvars, filevars, consvars, queuevars, OriginInv, ConfigsOK
<1>9. QED
  BY <1>2, <1>3, <1>4, <1>5, <1>6, <1>7, <1>8 DEF Next

-----------------------------------------------------------------------------
(* What a suppression rests on *)

(* the whitelist in force lists x, or the one a reload is replacing does *)
Cause(id, x) ==
  \/ Whitelisted(whitelist, id, x)
  \/ rpc \in {"engine", "clear"} /\ Whitelisted(previous, id, x)

CauseInv ==
  \A k \in Keys : cache[k] # NoEntry /\ cache[k].hit =>
    cache[k].who \in ran[k[1]] /\ Cause(cache[k].rule, cache[k].who)

CountsOK == suppressed_ \in [RuleIds -> Nat]

(* Only rules of a configuration have whitelist entries. *)
LEMMA WhitelistedRule ==
  ASSUME NEW c \in Configs, NEW id, NEW x, Whitelisted(c, id, x)
  PROVE  id \in RuleIds
<1>1. PICK i \in DOMAIN RulesIn[c] : RulesIn[c][i].id = id
  BY DEF Whitelisted
<1>2. RulesIn[c] \in Seq(Rules)
  BY FileRulesAssumption
<1>3. RulesIn[c][i] \in Rules
  BY <1>2
<1>4. QED
  BY <1>1, <1>3 DEF Rules

LEMMA InitCause == Init => CauseInv /\ CountsOK
  BY DEF Init, CauseInv, CountsOK

LEMMA StepCounts == CountsOK /\ [Next]_vars => CountsOK'
<1> SUFFICES ASSUME CountsOK, [Next]_vars PROVE CountsOK'
  OBVIOUS
<1>1. ASSUME NEW id, Suppress(id) PROVE CountsOK'
  <2>1. suppressed_' = [r \in RuleIds |-> IF r = id THEN suppressed_[r] + 1
                                                   ELSE suppressed_[r]]
    BY <1>1 DEF Suppress, CountsOK
  <2>2. \A r \in RuleIds : suppressed_[r] \in Nat /\ suppressed_[r] + 1 \in Nat
    BY DEF CountsOK
  <2>3. QED
    BY <2>1, <2>2 DEF CountsOK
<1>2. ASSUME UNCHANGED suppressed_ PROVE CountsOK'
  BY <1>2 DEF CountsOK
<1>3. CASE Consumer
  <2>1. CASE ReportSuppressed
    BY <2>1 DEF ReportSuppressed, CountsOK
  <2>2. CASE CacheHit \/ Match
    BY <1>1, <1>2, <2>2 DEF CacheHit, Match
  <2>3. CASE \/ Take \/ LockShared \/ RuleAlerts \/ ReadStat \/ CacheMiss
              \/ UnlockShared \/ EvalEngine
    BY <1>2, <2>3 DEF Take, LockShared, RuleAlerts, ReadStat, CacheMiss,
                      UnlockShared, EvalEngine, cachevars
  <2>4. QED
    BY <1>3, <2>1, <2>2, <2>3 DEF Consumer
<1>4. CASE Reload
  BY <1>2, <1>4 DEF Reload, ReloadBegin, ReloadRead, ReloadLock, SwapRules,
     SwapWhitelist, SwapEngine, ClearCache, cachevars
<1>5. CASE \/ MergeRule \/ BootDone \/ SigHup
           \/ \E p \in Procs, f \in Files, access \in Accesses : Access(p, f, access)
           \/ \E p \in Procs, x \in Exes : Exec(p, x) \/ Start(p, x)
           \/ \E p \in Procs : Exit(p)
           \/ \E c \in Configs : Edit(c)
  BY <1>2, <1>5 DEF MergeRule, BootDone, SigHup, Access, Exec, Start, Runs, Exit, Edit, cachevars
<1>6. CASE UNCHANGED vars
  BY <1>2, <1>6 DEF vars, cachevars
<1>7. QED
  BY <1>3, <1>4, <1>5, <1>6 DEF Next

(* What a hit stores was listed for the exe it was resolved to. *)
LEMMA MatchCause ==
  ASSUME Match, OriginInv, CauseInv, NEW k \in Keys,
         cache'[k] # NoEntry, cache'[k].hit
  PROVE  cache'[k].who \in ran[k[1]] /\ Cause(cache'[k].rule, cache'[k].who)
<1>1. CASE k = key
  <2>1. who \in ran[k[1]]
    BY <1>1 DEF Match, OriginInv, WhoOK
  <2>2. cache'[k].hit = Whitelisted(whitelist, cache'[k].rule, cache'[k].who)
    BY <1>1, MatchStores
  <2>3. Whitelisted(whitelist, cache'[k].rule, cache'[k].who)
    BY <2>2
  <2>4. QED
    BY <1>1, <2>1, <2>3, MatchStores DEF Cause
<1>2. CASE k # key
  BY <1>2, MatchStores DEF CauseInv
<1>3. QED
  BY <1>1, <1>2

LEMMA StepCause == OriginInv /\ CauseInv /\ [Next]_vars => CauseInv'
<1> SUFFICES ASSUME OriginInv, CauseInv, [Next]_vars, NEW k \in Keys,
                    cache'[k] # NoEntry, cache'[k].hit
             PROVE  cache'[k].who \in ran'[k[1]] /\ Cause(cache[k].rule, cache[k].who)'
  BY DEF CauseInv, NoEntry
<1> USE DEF Cause
<1>1. ASSUME UNCHANGED <<cache, ran, whitelist, previous>>,
             rpc' = rpc \/ rpc \notin {"engine", "clear"}
      PROVE  cache'[k].who \in ran'[k[1]] /\ Cause(cache[k].rule, cache[k].who)'
  BY <1>1 DEF CauseInv
<1>2. CASE MergeRule \/ BootDone \/ SigHup \/ \E c \in Configs : Edit(c)
  BY <1>1, <1>2 DEF MergeRule, BootDone, SigHup, Edit, procvars, tables, mainvars, cachevars
<1>3. CASE Reload
  <2>1. CASE ReloadBegin \/ ReloadRead \/ ReloadLock \/ SwapRules
    BY <1>1, <2>1 DEF ReloadBegin, ReloadRead, ReloadLock, SwapRules, procvars,
                      tables, cachevars
  <2>2. CASE SwapWhitelist
    <3>1. /\ rpc = "whitelist" /\ rpc' = "engine" /\ previous' = whitelist
          /\ UNCHANGED <<cache, ran>>
      BY <2>2 DEF SwapWhitelist, procvars, cachevars
    <3>2. Whitelisted(whitelist, cache[k].rule, cache[k].who) /\ cache[k].who \in ran[k[1]]
      BY <3>1 DEF CauseInv
    <3>3. QED
      BY <3>1, <3>2
  <2>3. CASE SwapEngine
    <3>1. /\ rpc = "engine" /\ rpc' = "clear"
          /\ UNCHANGED <<cache, ran, whitelist, previous>>
      BY <2>3 DEF SwapEngine, procvars, cachevars
    <3>2. QED
      BY <3>1 DEF CauseInv
  <2>4. CASE ClearCache
    BY <2>4 DEF ClearCache
  <2>5. QED
    BY <1>3, <2>1, <2>2, <2>3, <2>4 DEF Reload
<1>4. CASE \/ \E q \in Procs, f \in Files, access \in Accesses : Access(q, f, access)
           \/ \E q \in Procs : Exit(q)
  BY <1>1, <1>4 DEF Access, Exit, procvars, tables, mainvars, cachevars
<1>5. CASE \E q \in Procs, x \in Exes : Exec(q, x) \/ Start(q, x)
  <2>1. PICK q \in Procs, x \in Exes : Exec(q, x) \/ Start(q, x)
    BY <1>5
  <2>2. UNCHANGED <<cache, whitelist, previous, rpc>>
    BY <2>1 DEF Exec, Start, Runs, tables, mainvars, cachevars
  <2>3. k[1] \in Procs
    BY DEF Keys
  <2>4. ran[k[1]] \subseteq ran'[k[1]]
    BY <2>1, <2>3 DEF Exec, Start, Runs
  <2>5. QED
    BY <2>2, <2>4 DEF CauseInv
<1>6. CASE Consumer
  <2>1. CASE Match
    <3>1. UNCHANGED <<ran, whitelist, previous, rpc>>
      BY <2>1 DEF Match, procvars, tables, mainvars
    <3>2. QED
      BY <2>1, <3>1, MatchCause
  <2>2. CASE Take \/ LockShared \/ UnlockShared \/ EvalEngine \/ ReportSuppressed
    BY <1>1, <2>2 DEF Take, LockShared, UnlockShared, EvalEngine, ReportSuppressed,
                      procvars, tables, mainvars, cachevars
  <2>3. CASE RuleAlerts \/ ReadStat \/ CacheHit \/ CacheMiss
    BY <1>1, <2>3 DEF RuleAlerts, ReadStat, CacheHit, CacheMiss, procvars, tables,
                      mainvars, cachevars
  <2>4. QED
    BY <1>6, <2>1, <2>2, <2>3 DEF Consumer
<1>7. CASE UNCHANGED vars
  BY <1>1, <1>7 DEF vars, procvars, tables, mainvars, cachevars
<1>8. QED
  BY <1>2, <1>3, <1>4, <1>5, <1>6, <1>7 DEF Next

SuppressionStep ==
  \A id \in RuleIds : Suppresses(id) =>
    \E x \in ran[ev.proc], r \in RuleIds :
      \/ Whitelisted(whitelist, r, x)
      \/ rpc = "clear" /\ Whitelisted(previous, r, x)

LEMMA CausedStep ==
  LockInv /\ OriginInv /\ CauseInv /\ CountsOK /\ [Next]_vars => SuppressionStep
<1> SUFFICES ASSUME LockInv, OriginInv, CauseInv, CountsOK, [Next]_vars,
                    NEW id \in RuleIds, Suppresses(id)
             PROVE  \E x \in ran[ev.proc], r \in RuleIds :
                      \/ Whitelisted(whitelist, r, x)
                      \/ rpc = "clear" /\ Whitelisted(previous, r, x)
  BY DEF SuppressionStep
<1> DEFINE Goal == \E x \in ran[ev.proc], r \in RuleIds :
                     \/ Whitelisted(whitelist, r, x)
                     \/ rpc = "clear" /\ Whitelisted(previous, r, x)
<1>1. suppressed_' # suppressed_
  BY DEF Suppresses, CountsOK
<1>2. whitelist \in Configs /\ previous \in Configs
  BY DEF OriginInv, ConfigsOK
<1>3. CASE Consumer
  <2>1. CASE ReportSuppressed
    BY <2>1 DEF ReportSuppressed, Suppresses, CountsOK
  <2>2. CASE CacheHit
    <3>1. PICK k \in Keys : /\ \E x \in Exes : Resolved(k, x)
                            /\ cache[k] # NoEntry /\ cache[k].hit
      BY <1>1, <2>2 DEF CacheHit
    <3>2. cpc \in {"rules", "stat"}
      BY <2>2 DEF CacheHit
    <3>3. ran[k[1]] \subseteq ran[ev.proc]
      BY <3>1, <3>2 DEF Resolved, Key, OriginInv, KeyOK
    <3> DEFINE entry == cache[k]
    <3>4. entry.who \in ran[ev.proc] /\ Cause(entry.rule, entry.who)
      BY <3>1, <3>3 DEF CauseInv
    <3>5. rpc # "engine"
      BY <3>2 DEF LockInv, Reading, Writing
    <3> HIDE DEF entry
    <3>6. CASE Whitelisted(whitelist, entry.rule, entry.who)
      <4>1. entry.rule \in RuleIds
        BY <1>2, <3>6, WhitelistedRule
      <4>2. QED
        BY <3>4, <3>6, <4>1
    <3>7. CASE rpc = "clear" /\ Whitelisted(previous, entry.rule, entry.who)
      <4>1. entry.rule \in RuleIds
        BY <1>2, <3>7, WhitelistedRule
      <4>2. QED
        BY <3>4, <3>7, <4>1
    <3>8. QED
      BY <3>4, <3>5, <3>6, <3>7 DEF Cause
  <2>3. CASE Match
    <3> DEFINE rule == Head(todo).id
    <3>1. Whitelisted(whitelist, rule, who) /\ cpc = "match"
      BY <1>1, <2>3 DEF Match
    <3>2. who \in ran[ev.proc]
      BY <3>1 DEF OriginInv, KeyOK, WhoOK
    <3>3. rule \in RuleIds
      BY <1>2, <3>1, WhitelistedRule
    <3>4. QED
      BY <3>1, <3>2, <3>3
  <2>4. CASE \/ Take \/ LockShared \/ RuleAlerts \/ ReadStat \/ CacheMiss
              \/ UnlockShared \/ EvalEngine
    BY <1>1, <2>4 DEF Take, LockShared, RuleAlerts, ReadStat, CacheMiss,
                      UnlockShared, EvalEngine, cachevars
  <2>5. QED
    BY <1>3, <2>1, <2>2, <2>3, <2>4 DEF Consumer
<1>4. CASE Reload
  BY <1>1, <1>4 DEF Reload, ReloadBegin, ReloadRead, ReloadLock, SwapRules,
     SwapWhitelist, SwapEngine, ClearCache, cachevars
<1>5. CASE \/ MergeRule \/ BootDone \/ SigHup
           \/ \E p \in Procs, f \in Files, access \in Accesses : Access(p, f, access)
           \/ \E p \in Procs, x \in Exes : Exec(p, x) \/ Start(p, x)
           \/ \E p \in Procs : Exit(p)
           \/ \E c \in Configs : Edit(c)
  BY <1>1, <1>5 DEF MergeRule, BootDone, SigHup, Access, Exec, Start, Runs, Exit, Edit, cachevars
<1>6. CASE UNCHANGED vars
  BY <1>1, <1>6 DEF vars, cachevars
<1>7. QED
  BY <1>3, <1>4, <1>5, <1>6 DEF Next

(***************************************************************************)
(* Fail-closed: every suppression in match_resolved, from the cache or from *)
(* the table, is for an exe that ran under the event's pid since the       *)
(* event's process began and that the whitelist lists, or listed until     *)
(* the reload that has yet to clear the cache.  It may be a later process's *)
(* exe, but what an earlier process of the pid left in the cache is never  *)
(* taken for this one's.                                                   *)
(***************************************************************************)
THEOREM SuppressionTheorem == Spec => SuppressionHasCause
<1>1. Init => LockInv /\ OriginInv /\ CauseInv /\ CountsOK
  BY InitLock, InitOrigin, InitCause
<1>2. LockInv /\ OriginInv /\ CauseInv /\ CountsOK /\ [Next]_vars
        => (LockInv /\ OriginInv /\ CauseInv /\ CountsOK)'
  BY StepLock, StepOrigin, StepCause, StepCounts
<1>3. LockInv /\ OriginInv /\ CauseInv /\ CountsOK /\ [Next]_vars
        => [\A id \in RuleIds : Suppresses(id) =>
             \E x \in ran[ev.proc], r \in RuleIds :
               \/ Whitelisted(whitelist, r, x)
               \/ rpc = "clear" /\ Whitelisted(previous, r, x)]_vars
  BY CausedStep DEF SuppressionStep
<1>4. QED
  BY <1>1, <1>2, <1>3, PTL DEF Spec, SuppressionHasCause

-----------------------------------------------------------------------------
(* The kernel's rule sets *)

Values == [mask : SUBSET Accesses, block : BOOLEAN, severity : 0..3]

BlockAt(set) == {k \in DOMAIN set : set[k].block}
EntriesAt(set, K) == {set[k] : k \in K}
ValuesOf(M) == {RuleValue(Rule0(i)) : i \in M}

(* A set into which the rules M, the blocking ones of them B, were merged:  *)
(* as long as they fit it is all of them, and as long as the blocking ones  *)
(* fit, all of those.                                                       *)
KeptAs(set, M, B) ==
  /\ set \in Seq(Values)
  /\ Len(set) = IF Cardinality(M) <= MaxRulesPerIno THEN Cardinality(M) ELSE MaxRulesPerIno
  /\ Cardinality(M) <= MaxRulesPerIno
       => EntriesAt(set, DOMAIN set) = ValuesOf(M)
  /\ Cardinality(BlockAt(set)) <= Cardinality(B)
  /\ Cardinality(B) <= MaxRulesPerIno
       => EntriesAt(set, BlockAt(set)) = ValuesOf(B)

Kept(f) == KeptAs(monitor_actions[f], Merged(f), Blocking(f))

(* A file of the baseline without a rule has the pseudo rule in the end. *)
Pseudo(f) == rpc # "boot" /\ Merged(f) = {} /\ monitor_actions[f] = <<BaselineRule>>

MergeInv ==
  /\ booted \in 0..Len(RulesIn[Config0])
  /\ DOMAIN monitor_actions = Files
  /\ \A f \in Files : Kept(f) \/ Pseudo(f)

(* A set of naturals has a least member. *)
LEMMA LeastNat ==
  ASSUME NEW T \in SUBSET Nat, T # {}
  PROVE  \E m \in T : \A n \in T : m <= n
<1> DEFINE R == OpToRel(<, Nat)
<1>1. IsWellFoundedOn(R, Nat)
  BY NatLessThanWellFounded, Zenon
<1>2. PICK m \in T : \A n \in T : <<n, m>> \notin R
  <2> HIDE DEF R
  <2>1. QED
    BY <1>1, WFMin, Zenon
<1>3. \A n \in T : ~(n < m)
  BY <1>2 DEF OpToRel
<1>4. QED
  BY <1>3

(* Weaker compares ranks: a blocking entry outranks all others. *)
Rank(v) == (IF v.block THEN 4 ELSE 0) + v.severity

LEMMA WeakerRanks ==
  ASSUME NEW v \in Values, NEW w \in Values
  PROVE  /\ Rank(v) \in Nat
         /\ Weaker(v, w) <=> Rank(v) < Rank(w)
  BY DEF Weaker, Rank, Values

(* A set that is not empty has a weakest entry. *)
LEMMA WeakestExists ==
  ASSUME NEW set \in Seq(Values), set # <<>>
  PROVE  /\ Weakest(set) \in DOMAIN set
         /\ \A j \in DOMAIN set : ~Weaker(set[j], set[Weakest(set)])
<1> DEFINE ranks == {Rank(set[j]) : j \in DOMAIN set}
<1>0. DOMAIN set = 1..Len(set) /\ 1 \in DOMAIN set /\ \A j \in DOMAIN set : set[j] \in Values
  OBVIOUS
<1>1. PICK m \in ranks : \A n \in ranks : m <= n
  <2>1. ranks \in SUBSET Nat /\ ranks # {}
    BY <1>0, WeakerRanks
  <2> HIDE DEF ranks
  <2>2. QED
    BY <2>1, LeastNat
<1> DEFINE least == {j \in DOMAIN set : Rank(set[j]) = m}
<1>2. PICK i \in least : \A j \in least : i <= j
  <2>1. least \in SUBSET Nat /\ least # {}
    BY <1>0, <1>1
  <2> HIDE DEF least
  <2>2. QED
    BY <2>1, LeastNat
<1>3. i \in DOMAIN set /\ Rank(set[i]) = m
  BY <1>2
<1>4. \A j \in DOMAIN set : m <= Rank(set[j])
  BY <1>1
<1>5. \A j \in DOMAIN set : ~Weaker(set[j], set[i])
  <2> TAKE j \in DOMAIN set
  <2>1. set[j] \in Values /\ set[i] \in Values /\ m <= Rank(set[j])
    BY <1>0, <1>3, <1>4
  <2>2. QED
    BY <1>3, <2>1, WeakerRanks
<1>6. \A j \in 1..i-1 : Weaker(set[i], set[j])
  <2> TAKE j \in 1..i-1
  <2>1. j \in DOMAIN set /\ j < i
    BY <1>0, <1>3
  <2>2. Rank(set[j]) # m
    BY <1>2, <2>1
  <2>3. set[j] \in Values /\ set[i] \in Values /\ m <= Rank(set[j])
    BY <1>0, <1>3, <1>4, <2>1
  <2>4. QED
    BY <1>3, <2>2, <2>3, WeakerRanks
<1>7. QED
  <2> DEFINE First(k) == /\ \A j \in DOMAIN set : ~Weaker(set[j], set[k])
                         /\ \A j \in 1..k-1 : Weaker(set[k], set[j])
  <2>1. First(i)
    BY <1>5, <1>6
  <2>2. Weakest(set) = CHOOSE k \in DOMAIN set : First(k)
    BY DEF Weakest
  <2>3. \E k \in DOMAIN set : First(k)
    BY <1>3, <2>1
  <2> HIDE DEF First
  <2>4. Weakest(set) \in DOMAIN set /\ First(Weakest(set))
    BY <2>2, <2>3
  <2>5. QED
    BY <2>4 DEF First

(* What merging does to a set. *)
LEMMA MergeShape ==
  ASSUME NEW set \in Seq(Values), Len(set) <= MaxRulesPerIno, NEW v \in Values
  PROVE  \/ Len(set) < MaxRulesPerIno /\ Merge(set, v) = Append(set, v)
         \/ /\ Len(set) = MaxRulesPerIno
            /\ \E w \in DOMAIN set : /\ Merge(set, v) = [set EXCEPT ![w] = v]
                                     /\ Weaker(set[w], v)
                                     /\ \A j \in DOMAIN set : ~Weaker(set[j], set[w])
         \/ /\ Len(set) = MaxRulesPerIno /\ Merge(set, v) = set
            /\ \A j \in DOMAIN set : v.block => set[j].block
<1>0. MaxRulesPerIno \in Nat \ {0} /\ Len(set) \in Nat
  BY FileRulesAssumption
<1>1. CASE Len(set) < MaxRulesPerIno
  BY <1>1 DEF Merge
<1>2. CASE ~(Len(set) < MaxRulesPerIno)
  <2>1. Len(set) = MaxRulesPerIno /\ set # <<>>
    BY <1>0, <1>2
  <2>2. /\ Weakest(set) \in DOMAIN set
        /\ \A j \in DOMAIN set : ~Weaker(set[j], set[Weakest(set)])
    BY <2>1, WeakestExists
  <2>3. CASE Weaker(set[Weakest(set)], v)
    BY <1>2, <2>1, <2>2, <2>3 DEF Merge
  <2>4. CASE ~Weaker(set[Weakest(set)], v)
    <3>1. Merge(set, v) = set
      BY <1>2, <2>4 DEF Merge
    <3>2. ASSUME v.block, NEW j \in DOMAIN set PROVE set[j].block
      <4>1. set[j] \in Values /\ set[Weakest(set)] \in Values
        BY <2>2
      <4>2. set[Weakest(set)].block
        BY <2>4, <3>2 DEF Weaker
      <4>3. QED
        BY <2>2, <4>1, <4>2 DEF Weaker, Values
    <3>3. QED
      BY <2>1, <3>1, <3>2
  <2>5. QED
    BY <2>3, <2>4
<1>3. QED
  BY <1>1, <1>2

(* What a rule leaves in the set has its type and its kind. *)
LEMMA RuleValueType ==
  ASSUME NEW i, Rule0(i) \in Rules
  PROVE  RuleValue(Rule0(i)) \in Values /\ RuleValue(Rule0(i)).block = Rule0(i).block
  BY DEF RuleValue, Rules, Values

(* The blocking entries are finitely many. *)
LEMMA BlockFinite ==
  ASSUME NEW set \in Seq(Values)
  PROVE  /\ IsFiniteSet(BlockAt(set)) /\ Cardinality(BlockAt(set)) \in Nat
         /\ BlockAt(set) = 1..Len(set) => Cardinality(BlockAt(set)) = Len(set)
<1>1. BlockAt(set) \subseteq 1..Len(set) /\ Len(set) \in Nat
  BY DEF BlockAt
<1>2. IsFiniteSet(1..Len(set)) /\ Cardinality(1..Len(set)) = Len(set)
  <2>1. IsFiniteSet(1..Len(set))
    BY <1>1, FS_Interval
  <2>2. Cardinality(1..Len(set)) = IF 1 > Len(set) THEN 0 ELSE Len(set) - 1 + 1
    BY <1>1, FS_Interval
  <2>3. QED
    BY <1>1, <2>1, <2>2
<1>3. QED
  BY <1>1, <1>2, FS_Subset, FS_CardinalityType

(* One more of a finite set. *)
LEMMA OneMoreOf ==
  ASSUME NEW S, IsFiniteSet(S), NEW x
  PROVE  /\ Cardinality(S) \in Nat /\ IsFiniteSet(S \cup {x})
         /\ x \notin S => Cardinality(S \cup {x}) = Cardinality(S) + 1
         /\ Cardinality(S \cup {x}) <= Cardinality(S) + 1
<1>1. Cardinality(S) \in Nat /\ IsFiniteSet(S \cup {x})
  BY FS_AddElement, FS_CardinalityType
<1>2. Cardinality(S \cup {x}) = IF x \in S THEN Cardinality(S) ELSE Cardinality(S) + 1
  BY FS_AddElement
<1>3. QED
  BY <1>1, <1>2

(* A rule v is merged into a set of the rules M, the blocking ones B: the   *)
(* rules are M1 and B1 then, and the set is m, one of the three that        *)
(* MergeShape tells apart.                                                  *)
OneMore(M, B, M1, B1, v) ==
  /\ Cardinality(M) \in Nat /\ Cardinality(B) \in Nat
  /\ Cardinality(M1) = Cardinality(M) + 1
  /\ ValuesOf(M1) = ValuesOf(M) \cup {v}
  /\ v.block => /\ Cardinality(B1) = Cardinality(B) + 1
                /\ ValuesOf(B1) = ValuesOf(B) \cup {v}
  /\ ~v.block => B1 = B

LEMMA KeptFacts ==
  ASSUME NEW set, NEW M, NEW B, KeptAs(set, M, B), Cardinality(M) \in Nat
  PROVE  /\ MaxRulesPerIno \in Nat \ {0} /\ set \in Seq(Values)
         /\ Len(set) \in Nat /\ DOMAIN set = 1..Len(set) /\ Len(set) <= MaxRulesPerIno
         /\ \A k \in DOMAIN set : set[k] \in Values
         /\ Cardinality(BlockAt(set)) \in Nat /\ IsFiniteSet(BlockAt(set))
         /\ Cardinality(BlockAt(set)) <= Cardinality(B)
<1>1. set \in Seq(Values) /\ MaxRulesPerIno \in Nat \ {0}
  BY FileRulesAssumption DEF KeptAs
<1>2. Cardinality(BlockAt(set)) \in Nat /\ IsFiniteSet(BlockAt(set))
  BY <1>1, BlockFinite
<1>3. Len(set) <= MaxRulesPerIno /\ Cardinality(BlockAt(set)) <= Cardinality(B)
  BY <1>1 DEF KeptAs
<1>4. QED
  BY <1>1, <1>2, <1>3

LEMMA MergeAppends ==
  ASSUME NEW set, NEW M, NEW B, KeptAs(set, M, B), NEW v \in Values,
         NEW M1, NEW B1, OneMore(M, B, M1, B1, v),
         NEW m, Len(set) < MaxRulesPerIno, m = Append(set, v)
  PROVE  KeptAs(m, M1, B1)
<1>0. Cardinality(M) \in Nat /\ Cardinality(B) \in Nat /\ Cardinality(M1) = Cardinality(M) + 1
  BY DEF OneMore
<1>1. /\ MaxRulesPerIno \in Nat \ {0} /\ set \in Seq(Values)
      /\ Len(set) \in Nat /\ DOMAIN set = 1..Len(set)
      /\ Cardinality(BlockAt(set)) \in Nat /\ IsFiniteSet(BlockAt(set))
      /\ Cardinality(BlockAt(set)) <= Cardinality(B)
  BY <1>0, KeptFacts
<1>2. m \in Seq(Values) /\ Len(m) = Len(set) + 1
  BY <1>1
<1>3. /\ DOMAIN m = DOMAIN set \cup {Len(set) + 1}
      /\ \A k \in DOMAIN set : m[k] = set[k]
      /\ m[Len(set) + 1] = v /\ Len(set) + 1 \notin DOMAIN set
  BY <1>1
<1>4. Cardinality(M) < MaxRulesPerIno /\ Len(set) = Cardinality(M)
  BY <1>0, <1>1 DEF KeptAs
<1>5. Cardinality(M1) <= MaxRulesPerIno /\ Len(m) = Cardinality(M1)
  BY <1>0, <1>1, <1>2, <1>4
<1>6. EntriesAt(m, DOMAIN m) = ValuesOf(M1)
  <2>1. EntriesAt(m, DOMAIN m) = EntriesAt(set, DOMAIN set) \cup {v}
    BY <1>3 DEF EntriesAt
  <2>2. EntriesAt(set, DOMAIN set) = ValuesOf(M)
    BY <1>0, <1>1, <1>4 DEF KeptAs
  <2>3. QED
    BY <2>1, <2>2 DEF OneMore
<1>7. CASE ~v.block
  <2>1. BlockAt(m) = BlockAt(set)
    BY <1>3, <1>7 DEF BlockAt
  <2>2. \A k \in BlockAt(set) : m[k] = set[k]
    BY <1>3 DEF BlockAt
  <2>3. EntriesAt(m, BlockAt(m)) = EntriesAt(set, BlockAt(set))
    BY <2>1, <2>2 DEF EntriesAt
  <2>4. B1 = B
    BY <1>7 DEF OneMore
  <2>5. QED
    BY <1>1, <1>2, <1>5, <1>6, <2>1, <2>3, <2>4 DEF KeptAs
<1>8. CASE v.block
  <2>1. BlockAt(m) = BlockAt(set) \cup {Len(set) + 1}
    BY <1>3, <1>8 DEF BlockAt
  <2>2. \A k \in BlockAt(set) : m[k] = set[k]
    BY <1>3 DEF BlockAt
  <2>3. EntriesAt(m, BlockAt(m)) = EntriesAt(set, BlockAt(set)) \cup {v}
    <3>1. EntriesAt(m, BlockAt(set)) = EntriesAt(set, BlockAt(set))
      BY <2>2 DEF EntriesAt
    <3>2. EntriesAt(m, BlockAt(m)) = EntriesAt(m, BlockAt(set)) \cup {m[Len(set) + 1]}
      BY <2>1 DEF EntriesAt
    <3>3. QED
      BY <1>3, <3>1, <3>2
  <2>4. Cardinality(B1) = Cardinality(B) + 1 /\ ValuesOf(B1) = ValuesOf(B) \cup {v}
    BY <1>8 DEF OneMore
  <2>5. Cardinality(BlockAt(m)) \in Nat
    BY <1>2, BlockFinite
  <2>6. Cardinality(BlockAt(m)) <= Cardinality(BlockAt(set)) + 1
    BY <1>1, <2>1, OneMoreOf
  <2>7. Cardinality(BlockAt(m)) <= Cardinality(B1)
    BY <1>0, <1>1, <2>4, <2>5, <2>6
  <2>8. Cardinality(B1) <= MaxRulesPerIno => EntriesAt(m, BlockAt(m)) = ValuesOf(B1)
    <3>1. Cardinality(B1) <= MaxRulesPerIno => Cardinality(B) <= MaxRulesPerIno
      BY <1>0, <1>1, <2>4
    <3>2. QED
      BY <2>3, <2>4, <3>1 DEF KeptAs
  <2>9. QED
    BY <1>2, <1>5, <1>6, <2>7, <2>8 DEF KeptAs
<1>9. QED
  BY <1>7, <1>8

LEMMA MergeReplaces ==
  ASSUME NEW set, NEW M, NEW B, KeptAs(set, M, B), NEW v \in Values,
         NEW M1, NEW B1, OneMore(M, B, M1, B1, v),
         NEW w \in DOMAIN set, NEW m, Len(set) = MaxRulesPerIno,
         m = [set EXCEPT ![w] = v], Weaker(set[w], v),
         \A j \in DOMAIN set : ~Weaker(set[j], set[w])
  PROVE  KeptAs(m, M1, B1)
<1>0. Cardinality(M) \in Nat /\ Cardinality(B) \in Nat /\ Cardinality(M1) = Cardinality(M) + 1
  BY DEF OneMore
<1>1. /\ MaxRulesPerIno \in Nat \ {0} /\ set \in Seq(Values)
      /\ Len(set) \in Nat /\ DOMAIN set = 1..Len(set)
      /\ \A k \in DOMAIN set : set[k] \in Values
      /\ Cardinality(BlockAt(set)) \in Nat /\ IsFiniteSet(BlockAt(set))
      /\ Cardinality(BlockAt(set)) <= Cardinality(B)
  BY <1>0, KeptFacts
<1>2. m \in Seq(Values) /\ Len(m) = Len(set) /\ DOMAIN m = DOMAIN set
  BY <1>1
<1>3. m[w] = v /\ \A k \in DOMAIN set : k # w => m[k] = set[k]
  BY <1>1
<1>4. Cardinality(M) >= MaxRulesPerIno
  BY <1>0, <1>1 DEF KeptAs
<1>5. Cardinality(M1) > MaxRulesPerIno
  BY <1>0, <1>1, <1>4
<1>6. CASE ~v.block
  <2>1. ~set[w].block
    BY <1>1, <1>6 DEF Weaker, Values
  <2>2. BlockAt(m) = BlockAt(set)
    BY <1>2, <1>3, <1>6, <2>1 DEF BlockAt
  <2>3. \A k \in BlockAt(set) : m[k] = set[k]
    BY <1>3, <2>1 DEF BlockAt
  <2>4. EntriesAt(m, BlockAt(m)) = EntriesAt(set, BlockAt(set))
    BY <2>2, <2>3 DEF EntriesAt
  <2>5. B1 = B
    BY <1>6 DEF OneMore
  <2>6. Len(m) = IF Cardinality(M1) <= MaxRulesPerIno THEN Cardinality(M1) ELSE MaxRulesPerIno
    BY <1>0, <1>1, <1>2, <1>5
  <2>7. ~(Cardinality(M1) <= MaxRulesPerIno)
    BY <1>0, <1>1, <1>5
  <2>8. QED
    BY <1>2, <2>2, <2>4, <2>5, <2>6, <2>7 DEF KeptAs
<1>7. CASE v.block
  <2>1. BlockAt(m) = BlockAt(set) \cup {w}
    BY <1>2, <1>3, <1>7 DEF BlockAt
  <2>2. Cardinality(B1) = Cardinality(B) + 1 /\ ValuesOf(B1) = ValuesOf(B) \cup {v}
    BY <1>7 DEF OneMore
  <2>3. Cardinality(BlockAt(m)) \in Nat
    BY <1>2, BlockFinite
  <2>4. Cardinality(BlockAt(m)) <= Cardinality(BlockAt(set)) + 1
    BY <1>1, <2>1, OneMoreOf
  <2>5. Cardinality(BlockAt(m)) <= Cardinality(B1)
    BY <1>0, <1>1, <2>2, <2>3, <2>4
  <2>6. ASSUME Cardinality(B1) <= MaxRulesPerIno
        PROVE  EntriesAt(m, BlockAt(m)) = ValuesOf(B1)
    <3>1. Cardinality(BlockAt(set)) < Len(set) /\ Cardinality(B) <= MaxRulesPerIno
      BY <1>0, <1>1, <2>2, <2>6
    <3>2. BlockAt(set) # 1..Len(set)
      BY <1>1, <3>1, BlockFinite
    <3>3. PICK j \in DOMAIN set : ~set[j].block
      BY <1>1, <3>2 DEF BlockAt
    <3>4. ~set[w].block
      BY <1>1, <3>3 DEF Weaker, Values
    <3>5. \A k \in BlockAt(set) : m[k] = set[k]
      BY <1>3, <3>4 DEF BlockAt
    <3>6. EntriesAt(m, BlockAt(m)) = EntriesAt(set, BlockAt(set)) \cup {v}
      <4>1. EntriesAt(m, BlockAt(set)) = EntriesAt(set, BlockAt(set))
        BY <3>5 DEF EntriesAt
      <4>2. EntriesAt(m, BlockAt(m)) = EntriesAt(m, BlockAt(set)) \cup {m[w]}
        BY <2>1 DEF EntriesAt
      <4>3. QED
        BY <1>3, <4>1, <4>2
    <3>7. EntriesAt(set, BlockAt(set)) = ValuesOf(B)
      BY <3>1 DEF KeptAs
    <3>8. QED
      BY <2>2, <3>6, <3>7
  <2>7. Len(m) = IF Cardinality(M1) <= MaxRulesPerIno THEN Cardinality(M1) ELSE MaxRulesPerIno
    BY <1>0, <1>1, <1>2, <1>5
  <2>8. ~(Cardinality(M1) <= MaxRulesPerIno)
    BY <1>0, <1>1, <1>5
  <2>9. QED
    BY <1>2, <2>5, <2>6, <2>7, <2>8 DEF KeptAs
<1>8. QED
  BY <1>6, <1>7

LEMMA MergeDrops ==
  ASSUME NEW set, NEW M, NEW B, KeptAs(set, M, B), NEW v \in Values,
         NEW M1, NEW B1, OneMore(M, B, M1, B1, v), Len(set) = MaxRulesPerIno,
         \A j \in DOMAIN set : v.block => set[j].block
  PROVE  KeptAs(set, M1, B1)
<1>0. Cardinality(M) \in Nat /\ Cardinality(B) \in Nat /\ Cardinality(M1) = Cardinality(M) + 1
  BY DEF OneMore
<1>1. /\ MaxRulesPerIno \in Nat \ {0} /\ set \in Seq(Values)
      /\ Len(set) \in Nat /\ DOMAIN set = 1..Len(set)
      /\ Cardinality(BlockAt(set)) \in Nat
      /\ Cardinality(BlockAt(set)) <= Cardinality(B)
  BY <1>0, KeptFacts
<1>2. Cardinality(M) >= MaxRulesPerIno
  BY <1>0, <1>1 DEF KeptAs
<1>3. Cardinality(M1) > MaxRulesPerIno
  BY <1>0, <1>1, <1>2
<1>4. Len(set) = IF Cardinality(M1) <= MaxRulesPerIno THEN Cardinality(M1) ELSE MaxRulesPerIno
  BY <1>0, <1>1, <1>3
<1>5. ~(Cardinality(M1) <= MaxRulesPerIno)
  BY <1>0, <1>1, <1>3
<1>6. CASE ~v.block
  <2>1. B1 = B
    BY <1>6 DEF OneMore
  <2>2. QED
    BY <1>4, <1>5, <2>1 DEF KeptAs
<1>7. CASE v.block
  <2>1. BlockAt(set) = 1..Len(set)
    BY <1>1, <1>7 DEF BlockAt
  <2>2. Cardinality(BlockAt(set)) = Len(set)
    BY <1>1, <2>1, BlockFinite
  <2>3. Cardinality(B1) = Cardinality(B) + 1
    BY <1>7 DEF OneMore
  <2>4. Cardinality(BlockAt(set)) <= Cardinality(B1) /\ ~(Cardinality(B1) <= MaxRulesPerIno)
    BY <1>0, <1>1, <2>2, <2>3
  <2>5. QED
    BY <1>1, <1>4, <1>5, <2>4 DEF KeptAs
<1>8. QED
  BY <1>6, <1>7

(* Merging one more rule keeps what the set is of the rules so far. *)
LEMMA MergeKeeps ==
  ASSUME NEW M, NEW B, IsFiniteSet(M), IsFiniteSet(B), NEW set, KeptAs(set, M, B),
         NEW n, n \notin M, n \notin B, Rule0(n) \in Rules
  PROVE  KeptAs(Merge(set, RuleValue(Rule0(n))), M \cup {n},
                IF Rule0(n).block THEN B \cup {n} ELSE B)
<1> DEFINE v == RuleValue(Rule0(n))
           m == Merge(set, v)
           M1 == M \cup {n}
           B1 == IF Rule0(n).block THEN B \cup {n} ELSE B
<1>1. v \in Values /\ v.block = Rule0(n).block
  BY RuleValueType
<1>2. OneMore(M, B, M1, B1, v)
  <2>1. /\ Cardinality(M) \in Nat /\ Cardinality(B) \in Nat
        /\ Cardinality(M1) = Cardinality(M) + 1
        /\ Cardinality(B \cup {n}) = Cardinality(B) + 1
    BY OneMoreOf
  <2>2. ValuesOf(M1) = ValuesOf(M) \cup {v} /\ ValuesOf(B \cup {n}) = ValuesOf(B) \cup {v}
    BY DEF ValuesOf
  <2>3. (v.block => B1 = B \cup {n}) /\ (~v.block => B1 = B)
    BY <1>1
  <2> HIDE DEF v, M1, B1
  <2>4. QED
    BY <2>1, <2>2, <2>3 DEF OneMore
<1>3. set \in Seq(Values)
  BY DEF KeptAs
<1>4. \/ Len(set) < MaxRulesPerIno /\ m = Append(set, v)
      \/ /\ Len(set) = MaxRulesPerIno
         /\ \E w \in DOMAIN set : /\ m = [set EXCEPT ![w] = v]
                                  /\ Weaker(set[w], v)
                                  /\ \A j \in DOMAIN set : ~Weaker(set[j], set[w])
      \/ /\ Len(set) = MaxRulesPerIno /\ m = set
         /\ \A j \in DOMAIN set : v.block => set[j].block
  <2>1. Len(set) <= MaxRulesPerIno
    BY <1>2, KeptFacts DEF OneMore
  <2>2. QED
    BY <1>1, <1>3, <2>1, MergeShape
<1> HIDE DEF v, m, M1, B1
<1>5. KeptAs(m, M1, B1)
  BY <1>1, <1>2, <1>4, MergeAppends, MergeReplaces, MergeDrops
<1>6. QED
  BY <1>5 DEF v, m, M1, B1

(* The rules merged for a file are finitely many. *)
LEMMA MergedFinite ==
  ASSUME NEW b \in Nat, NEW S, S \subseteq 1..b
  PROVE  IsFiniteSet(S) /\ (Cardinality(S) = 0 <=> S = {})
<1>1. IsFiniteSet(1..b)
  BY FS_Interval
<1>2. QED
  BY <1>1, FS_Subset, FS_EmptySet

LEMMA InitMerge == Init => MergeInv
<1> SUFFICES ASSUME Init PROVE MergeInv
  OBVIOUS
<1>1. booted = 0 /\ monitor_actions = [f \in Files |-> <<>>]
  BY DEF Init
<1>2. RulesIn[Config0] \in Seq(Rules)
  BY FileRulesAssumption
<1>3. booted \in 0..Len(RulesIn[Config0]) /\ DOMAIN monitor_actions = Files
  BY <1>1, <1>2
<1>4. ASSUME NEW f \in Files PROVE Kept(f)
  <2>1. Merged(f) = {} /\ Blocking(f) = {}
    BY <1>1 DEF Merged, Blocking
  <2>2. monitor_actions[f] = <<>>
    BY <1>1
  <2>3. MaxRulesPerIno \in Nat \ {0} /\ Cardinality({}) = 0
    BY FileRulesAssumption, FS_EmptySet
  <2>4. BlockAt(<<>>) = {} /\ EntriesAt(<<>>, DOMAIN <<>>) = {} /\ EntriesAt(<<>>, {}) = {} /\ ValuesOf({}) = {}
    BY DEF BlockAt, EntriesAt, ValuesOf
  <2>5. KeptAs(<<>>, {}, {})
    <3>1. <<>> \in Seq(Values) /\ Len(<<>>) = 0
      OBVIOUS
    <3>2. Cardinality(BlockAt(<<>>)) = 0 /\ EntriesAt(<<>>, BlockAt(<<>>)) = ValuesOf({})
      BY <2>3, <2>4
    <3>3. EntriesAt(<<>>, DOMAIN <<>>) = ValuesOf({})
      BY <2>4
    <3>4. QED
      BY <2>3, <3>1, <3>2, <3>3 DEF KeptAs
  <2>6. QED
    BY <2>1, <2>2, <2>5 DEF Kept
<1>5. QED
  BY <1>3, <1>4 DEF MergeInv

(* One more rule of the file is merged into the set of its inode. *)
LEMMA MergeRuleKeeps == MergeInv /\ MergeRule => MergeInv'
<1> SUFFICES ASSUME MergeInv, MergeRule PROVE MergeInv'
  OBVIOUS
<1> DEFINE n == booted + 1
           r == Rule0(n)
<1>1. /\ RulesIn[Config0] \in Seq(Rules) /\ booted \in Nat /\ n \in 1..Len(RulesIn[Config0])
      /\ booted' = n /\ rpc = "boot" /\ rpc' = rpc
  BY FileRulesAssumption DEF MergeRule, MergeInv, mainvars
<1>2. Rule0(n) \in Rules /\ r.ino \in Files
  <2>1. Rule0(n) \in Rules
    BY <1>1 DEF Rule0
  <2>2. QED
    BY <2>1 DEF Rules
<1>3. monitor_actions' = [monitor_actions EXCEPT ![r.ino] = Merge(@, RuleValue(r))]
  BY DEF MergeRule, Rule0
<1>4. booted' \in 0..Len(RulesIn[Config0]) /\ DOMAIN monitor_actions' = Files
  BY <1>1, <1>3 DEF MergeInv
<1>5. 1..booted' = 1..booted \cup {n} /\ n \notin 1..booted
  BY <1>1
<1>6. \A f \in Files : Kept(f)
  BY <1>1 DEF MergeInv, Pseudo
<1> HIDE DEF n
<1>7. ASSUME NEW f \in Files PROVE Kept(f)'
  <2>1. Merged(f)' = IF r.ino = f THEN Merged(f) \cup {n} ELSE Merged(f)
    BY <1>5 DEF Merged, Rule0
  <2>2. CASE r.ino # f
    <3>1. Merged(f)' = Merged(f) /\ Blocking(f)' = Blocking(f)
      BY <2>1, <2>2 DEF Blocking, Rule0
    <3>2. monitor_actions'[f] = monitor_actions[f]
      BY <1>2, <1>3, <2>2 DEF MergeInv
    <3>3. QED
      BY <1>6, <3>1, <3>2 DEF Kept
  <2>3. CASE r.ino = f
    <3>1. Merged(f)' = Merged(f) \cup {n}
      BY <2>1, <2>3
    <3>2. Blocking(f)' = IF r.block THEN Blocking(f) \cup {n} ELSE Blocking(f)
      BY <3>1 DEF Blocking, Rule0
    <3>3. Merged(f) \subseteq 1..booted /\ Blocking(f) \subseteq 1..booted
      BY DEF Merged, Blocking
    <3>4. IsFiniteSet(Merged(f)) /\ IsFiniteSet(Blocking(f))
      BY <1>1, <3>3, MergedFinite
    <3>5. n \notin Merged(f) /\ n \notin Blocking(f)
      BY <1>5, <3>3
    <3>6. KeptAs(monitor_actions[f], Merged(f), Blocking(f))
      BY <1>6 DEF Kept
    <3>7. KeptAs(Merge(monitor_actions[f], RuleValue(r)), Merged(f)', Blocking(f)')
      BY <1>2, <3>1, <3>2, <3>4, <3>5, <3>6, MergeKeeps
    <3>8. monitor_actions'[f] = Merge(monitor_actions[f], RuleValue(r))
      BY <1>2, <1>3, <2>3 DEF MergeInv
    <3>9. QED
      BY <3>7, <3>8 DEF Kept
  <2>4. QED
    BY <2>2, <2>3
<1>8. QED
  BY <1>4, <1>7 DEF MergeInv

(* The end of the start leaves the sets alone that hold a rule. *)
LEMMA BootDoneKeeps == MergeInv /\ BootDone => MergeInv'
<1> SUFFICES ASSUME MergeInv, BootDone PROVE MergeInv'
  OBVIOUS
<1>1. booted' = booted /\ rpc = "boot" /\ rpc' = "idle" /\ booted \in Nat
  BY FileRulesAssumption DEF BootDone, MergeInv
<1>2. monitor_actions' = [f \in Files |-> IF f \in Baselined /\ monitor_actions[f] = <<>>
                                           THEN <<BaselineRule>> ELSE monitor_actions[f]]
  BY DEF BootDone
<1>3. ASSUME NEW f \in Files PROVE Kept(f)' \/ Pseudo(f)'
  <2>1. Merged(f)' = Merged(f) /\ Blocking(f)' = Blocking(f)
    BY <1>1 DEF Merged, Blocking, Rule0
  <2>2. KeptAs(monitor_actions[f], Merged(f), Blocking(f))
    BY <1>1 DEF MergeInv, Pseudo, Kept
  <2>3. CASE f \in Baselined /\ monitor_actions[f] = <<>>
    <3>1. Merged(f) \subseteq 1..booted
      BY DEF Merged
    <3>2. IsFiniteSet(Merged(f))
      BY <1>1, <3>1, MergedFinite
    <3>3. Len(monitor_actions[f]) = 0
      BY <2>3
    <3>4. Cardinality(Merged(f)) \in Nat
      BY <3>2, FS_CardinalityType
    <3>5. Cardinality(Merged(f)) = 0
      BY <2>2, <3>3, <3>4, FileRulesAssumption DEF KeptAs
    <3>6. Merged(f) = {}
      BY <1>1, <3>1, <3>5, MergedFinite
    <3>7. monitor_actions'[f] = <<BaselineRule>>
      BY <1>2, <2>3
    <3>8. Pseudo(f)'
      BY <1>1, <2>1, <3>6, <3>7 DEF Pseudo
    <3>9. QED
      BY <3>8
  <2>4. CASE ~(f \in Baselined /\ monitor_actions[f] = <<>>)
    <3>1. monitor_actions'[f] = monitor_actions[f]
      BY <1>2, <2>4
    <3>2. Kept(f)'
      BY <2>1, <2>2, <3>1 DEF Kept
    <3>3. QED
      BY <3>2
  <2>5. QED
    BY <2>3, <2>4
<1>4. booted' \in 0..Len(RulesIn[Config0]) /\ DOMAIN monitor_actions' = Files
  BY <1>1, <1>2 DEF MergeInv
<1>5. QED
  BY <1>3, <1>4 DEF MergeInv

(* Nothing else touches the sets, and the start is not entered again. *)
LEMMA OthersLeaveSets ==
  ASSUME MergeInv, UNCHANGED bootvars, rpc # "boot" => rpc' # "boot"
  PROVE  MergeInv'
<1>1. monitor_actions' = monitor_actions /\ booted' = booted
  BY DEF bootvars
<1>2. ASSUME NEW f \in Files PROVE Kept(f)' \/ Pseudo(f)'
  <2>1. Merged(f)' = Merged(f) /\ Blocking(f)' = Blocking(f)
    BY <1>1 DEF Merged, Blocking, Rule0
  <2>2. CASE Kept(f)
    BY <1>1, <2>1, <2>2 DEF Kept
  <2>3. CASE Pseudo(f)
    BY <1>1, <2>1, <2>3 DEF Pseudo
  <2>4. QED
    BY <2>2, <2>3 DEF MergeInv
<1>3. QED
  BY <1>1, <1>2 DEF MergeInv

LEMMA StepMerge == MergeInv /\ [Next]_vars => MergeInv'
<1> SUFFICES ASSUME MergeInv, [Next]_vars PROVE MergeInv'
  OBVIOUS
<1>1. CASE MergeRule \/ BootDone
  BY <1>1, MergeRuleKeeps, BootDoneKeeps
<1>2. CASE Reload
  <2>1. UNCHANGED bootvars
    BY <1>2 DEF Reload, ReloadBegin, ReloadRead, ReloadLock, SwapRules, SwapWhitelist,
                SwapEngine, ClearCache
  <2>2. rpc' # "boot"
    BY <1>2 DEF Reload, ReloadBegin, ReloadRead, ReloadLock, SwapRules, SwapWhitelist,
                SwapEngine, ClearCache
  <2>3. QED
    BY <2>1, <2>2, OthersLeaveSets
<1>3. CASE Consumer
  <2>1. UNCHANGED bootvars /\ rpc' = rpc
    BY <1>3 DEF Consumer, Take, LockShared, RuleAlerts, ReadStat, CacheHit, CacheMiss,
                Match, UnlockShared, EvalEngine, ReportSuppressed, mainvars
  <2>2. QED
    BY <2>1, OthersLeaveSets
<1>4. CASE \/ SigHup
           \/ \E p \in Procs, f \in Files, access \in Accesses : Access(p, f, access)
           \/ \E p \in Procs, x \in Exes : Exec(p, x) \/ Start(p, x)
           \/ \E p \in Procs : Exit(p)
           \/ \E c \in Configs : Edit(c)
  <2>1. UNCHANGED bootvars /\ rpc' = rpc
    BY <1>4 DEF SigHup, Access, Exec, Start, Runs, Exit, Edit, mainvars
  <2>2. QED
    BY <2>1, OthersLeaveSets
<1>5. CASE UNCHANGED vars
  <2>1. UNCHANGED bootvars /\ rpc' = rpc
    BY <1>5 DEF vars, mainvars
  <2>2. QED
    BY <2>1, OthersLeaveSets
<1>6. QED
  BY <1>1, <1>2, <1>3, <1>4, <1>5 DEF Next

(* What the set of a file says is what its rules say. *)
LEMMA MergeGivesRules == MergeInv => RulesIndependent
<1> SUFFICES ASSUME MergeInv, NEW f \in Files, NEW access \in Accesses
             PROVE  /\ Cardinality(Merged(f)) <= MaxRulesPerIno /\ Merged(f) # {}
                         => (Hits(f, access) # {} <=> Watch(Merged(f), access))
                    /\ Cardinality(Blocking(f)) <= MaxRulesPerIno
                         => (Denied(f, access) <=> Watch(Blocking(f), access))
  BY DEF RulesIndependent
<1> DEFINE set == monitor_actions[f]
<1>1. Hits(f, access) # {} <=> \E v \in EntriesAt(set, DOMAIN set) : access \in v.mask
  BY DEF Hits, EntriesAt
<1>2. Denied(f, access) <=> \E v \in EntriesAt(set, BlockAt(set)) : access \in v.mask
  BY DEF Denied, Hits, EntriesAt, BlockAt
<1>3. ASSUME NEW M PROVE Watch(M, access) <=> \E v \in ValuesOf(M) : access \in v.mask
  <2>1. \A i \in M : RuleValue(Rule0(i)) \in ValuesOf(M)
    BY DEF ValuesOf
  <2>2. \A v \in ValuesOf(M) : \E i \in M : v = RuleValue(Rule0(i))
    BY DEF ValuesOf
  <2>3. \A i : RuleValue(Rule0(i)).mask = Rule0(i).mask
    BY DEF RuleValue
  <2>4. QED
    BY <2>1, <2>2, <2>3 DEF Watch
<1>4. CASE Kept(f)
  BY <1>1, <1>2, <1>3, <1>4 DEF Kept, KeptAs
<1>5. CASE Pseudo(f)
  <2>1. Merged(f) = {} /\ Blocking(f) = {}
    BY <1>5 DEF Pseudo, Blocking
  <2>2. BlockAt(set) = {}
    BY <1>5 DEF Pseudo, BlockAt, BaselineRule
  <2>3. ~ Denied(f, access) /\ ~ Watch(Blocking(f), access)
    BY <1>2, <2>1, <2>2 DEF EntriesAt, Watch
  <2>4. QED
    BY <2>1, <2>3
<1>6. QED
  BY <1>4, <1>5 DEF MergeInv

(***************************************************************************)
(* For every configuration and every capacity of a set: the rules of a     *)
(* file take effect independently as long as they fit into the kernel's    *)
(* set, and a blocking rule is lost only to other blocking rules, although *)
(* Merge replaces the first of the weakest entries of a full set           *)
(* (common_monitor_init).                                                   *)
(***************************************************************************)
THEOREM RulesIndependentTheorem == Spec => []RulesIndependent
  BY InitMerge, StepMerge, MergeGivesRules, PTL DEF Spec
=============================================================================
