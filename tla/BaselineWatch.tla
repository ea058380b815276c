---------------------------- MODULE BaselineWatch ----------------------------
(***************************************************************************)
(* `monitor --db': the baseline of the database watched while files change *)
(* (baseline/monitor.cpp, monitor_baseline.cpp, bpf/lsm_file.bpf.c), with  *)
(* the alerts this raises going through AlertManager.                      *)
(*                                                                         *)
(* The LSM hooks run BEFORE the operation they announce, so an operation   *)
(* is two steps, HookOp and LandOp, and the consumer thread runs between   *)
(* and beside them.  A file is compared in two steps as well (lstat, then  *)
(* reading its content).  Losing events on a full queue is the subject of  *)
(* TelemetryPipeline and left out: the queue here takes every event.       *)
(*                                                                         *)
(* A file's data is whether each aspect is as in the baseline: `hash' the  *)
(* content, `perm' mode, uid and gid (chmod and chown are handled alike).  *)
(***************************************************************************)
EXTENDS AlertManager, Functions

CONSTANTS
  Files,           \* the paths of the baseline
  YamlRule,        \* [a subset of Files -> [id, mask]]: the YAML rules with a check
  kBaselineRuleId,
  kBaselineCheckRuleId,
  Debounce,        \* the 2 s between two comparisons of an inode
  MaxOps,          \* bound on the operations on files
  MaxRestarts      \* bound on crashes of the monitor

ASSUME BaselineWatchAssumption ==
  /\ IsFiniteSet(Files) /\ Debounce \in Nat /\ MaxOps \in Nat /\ MaxRestarts \in Nat
  /\ {kBaselineRuleId, kBaselineCheckRuleId} \subseteq RuleIds
  /\ DOMAIN YamlRule \subseteq Files
  /\ \A f \in DOMAIN YamlRule : YamlRule[f].id \in RuleIds

VARIABLES
  disk,                 \* [Files -> [ino, hash, perm] or Gone]
  next_ino,
  inode_to_baseline,    \* g_inode_to_baseline: inode -> file
  monitor_actions,      \* the kernel's map: inode -> kinds of events reported
  queue,                \* the events not yet consumed
  in_flight,            \* the operation between its hook and its effect, or NoOp
  ops, restarts,
  phase,                \* what the monitor does next
  event,                \* the event in hand, or NoOp
  to_check,             \* inodes the boot check has not come to yet
  st,                   \* what lstat said, between the two steps of a comparison
  devs,                 \* deviations found and not yet reported: <<rule, file, aspect>>
  last_baseline_check,  \* inode -> time
  compared,             \* history: inode -> when its file was last compared
  heard,                \* history: <<file, aspect>> reported since it deviates
  blind                 \* history: <<file, aspect>> the monitor had no way to see

diskVars == <<disk, next_ino, in_flight, ops>>
memVars == <<inode_to_baseline, monitor_actions, last_baseline_check, compared>>
cmpVars == <<event, to_check, st, devs>>
ghosts == <<heard, blind>>
vars == <<alertVars, diskVars, memVars, cmpVars, ghosts, queue, restarts, phase>>

Gone == [ino |-> 0, hash |-> FALSE, perm |-> FALSE]
NoOp == [kind |-> "none"]
Nowhere == [i \in {} |-> 0]

(* CompareWithBaseline on one consistent look at the file.                  *)
Deviations(d) ==
  IF d = Gone THEN {"missing"}
  ELSE (IF d.hash THEN {} ELSE {"hash"}) \union (IF d.perm THEN {} ELSE {"perm"})

Deviating(f) == {f} \X Deviations(disk[f])

--------------------------------------------------------------------------
(* Start.  Only files that exist are watched, under the inode they have now.*)
LoadBaseline ==
  /\ phase = "load"
  /\ LET there == {f \in Files : disk[f] # Gone}
         inodes == {disk[f].ino : f \in there}
     IN  /\ inode_to_baseline' = [i \in inodes |-> CHOOSE f \in there : disk[f].ino = i]
         /\ to_check' = inodes
         /\ blind' = blind \union UNION {Deviating(f) : f \in Files \ there}
  /\ phase' = "boot check"
  /\ UNCHANGED <<alertVars, diskVars, queue, monitor_actions, last_baseline_check, compared,
                 event, st, devs, heard, restarts>>

BootCheckNext ==
  /\ phase = "boot check" /\ devs = <<>> /\ to_check # {}
  /\ \E i \in to_check :
       /\ to_check' = to_check \ {i}
       /\ event' = [kind |-> "boot", ino |-> i]
  /\ phase' = "lstat"
  /\ UNCHANGED <<alertVars, diskVars, memVars, ghosts, queue, st, devs, restarts>>

(* The map the hooks consult is filled last; an inode with a YAML rule gets *)
(* that rule's mask and not the baseline's.                                 *)
EventsMask(i) ==
  LET f == inode_to_baseline[i]
  IN  IF f \in DOMAIN YamlRule THEN YamlRule[f].mask ELSE {"write", "chmod"}

FillMonitorActions ==
  /\ phase = "boot check" /\ devs = <<>> /\ to_check = {}
  /\ monitor_actions' = [i \in DOMAIN inode_to_baseline |-> EventsMask(i)]
  /\ phase' = "idle"
  /\ UNCHANGED <<alertVars, diskVars, ghosts, cmpVars, queue, inode_to_baseline,
                 last_baseline_check, compared, restarts>>

--------------------------------------------------------------------------
(* Operations on the files, by any process.  `replace' is a rename over the *)
(* path; the hook of a rename asks for the right to write.                  *)
Hooked(kind, i) ==
  /\ i \in DOMAIN monitor_actions
  /\ (IF kind = "replace" THEN "write" ELSE kind) \in monitor_actions[i]

HookOp ==
  /\ in_flight = NoOp /\ ops < MaxOps
  /\ \E f \in Files, kind \in {"write", "chmod", "unlink", "replace"}, good \in BOOLEAN :
       /\ disk[f] = Gone => kind = "replace"
       /\ LET op == [kind |-> kind, file |-> f, good |-> good, ino |-> disk[f].ino, n |-> ops + 1]
          IN  /\ in_flight' = op
              /\ queue' = IF Hooked(kind, disk[f].ino) THEN Append(queue, op) ELSE queue
  /\ ops' = ops + 1
  /\ UNCHANGED <<alertVars, disk, next_ino, memVars, cmpVars, ghosts, restarts, phase>>

After(op, d) ==
  CASE op.kind = "write"   -> [d EXCEPT !.hash = op.good]
    [] op.kind = "chmod"   -> [d EXCEPT !.perm = op.good]
    [] op.kind = "unlink"  -> Gone
    [] op.kind = "replace" -> [ino |-> next_ino, hash |-> op.good, perm |-> op.good]

(* What the event of this operation may still bring to light.               *)
StillToSee(op, bad) ==
  CASE op \in ToSet(queue) -> bad
    [] event = op /\ phase \in {"rule check", "debounce", "lstat"} -> bad
    [] event = op /\ phase = "hash" -> {p \in bad : p[2] # "perm"}
    [] event = op /\ phase = "report" -> bad \intersect {Tail(d) : d \in ToSet(devs)}
    [] OTHER -> {}

LandOp ==
  /\ in_flight # NoOp
  /\ LET op  == in_flight
         f   == op.file
         bad == {f} \X Deviations(After(op, disk[f]))
     IN  /\ disk' = [disk EXCEPT ![f] = After(op, @)]
         /\ next_ino' = IF op.kind = "replace" THEN next_ino + 1 ELSE next_ino
         /\ heard' = {p \in heard : p[1] = f => p \in bad}
         /\ blind' = {p \in blind : p[1] = f => p \in bad}
                       \union (bad \ (heard \union StillToSee(op, bad)))
  /\ in_flight' = NoOp
  /\ UNCHANGED <<alertVars, ops, memVars, cmpVars, queue, restarts, phase>>

--------------------------------------------------------------------------
(* process_event_core.                                                      *)

(* chmod, chown and unlink are judged by the event alone and end here, also *)
(* for inodes that only a YAML rule watches.                                *)
AttributeEvent(e) ==
  LET f    == inode_to_baseline[e.ino]
      devs0 == CASE e.kind = "unlink" -> <<<<kBaselineRuleId, f, "missing">>>>
                 [] e.kind = "chmod"  -> IF e.good THEN <<>> ELSE <<<<kBaselineRuleId, f, "perm">>>>
  IN  /\ devs' = devs0
      /\ phase' = "report"
      /\ UNCHANGED alertVars

(* Everything else first meets the YAML rules of the inode.                 *)
ContentEvent(e) ==
  LET f == inode_to_baseline[e.ino]
  IN  /\ devs' = <<>>
      /\ IF f \in DOMAIN YamlRule
           THEN ReportUnlessThrottled(YamlRule[f].id) /\ phase' = "rule check"
           ELSE UNCHANGED alertVars /\ phase' = "debounce"

TakeEvent ==
  /\ phase = "idle" /\ queue # <<>>
  /\ event' = Head(queue)
  /\ queue' = Tail(queue)
  /\ IF Head(queue).kind \in {"chmod", "unlink"}
       THEN AttributeEvent(Head(queue))
       ELSE ContentEvent(Head(queue))
  /\ UNCHANGED <<diskVars, memVars, ghosts, to_check, st, restarts>>

(* on_check_mismatch_detected, for writes: under the rule that has just     *)
(* been stamped, so its alert is throttled unless time passed in between.   *)
RuleCheck ==
  /\ phase = "rule check"
  /\ LET f == inode_to_baseline[event.ino]
     IN  IF event.kind = "write" /\ disk[f] # Gone /\ ~disk[f].hash
           THEN Report(YamlRule[f].id)
           ELSE UNCHANGED alertVars
  /\ phase' = "debounce"
  /\ UNCHANGED <<diskVars, memVars, cmpVars, ghosts, queue, restarts>>

CheckedLately(i) ==
  i \in DOMAIN last_baseline_check /\ now - last_baseline_check[i] < Debounce

(* The stamp is taken before the file is looked at.  A skipped event is     *)
(* excused only by a comparison of that very inode within the last 2 s.     *)
DebounceEvent ==
  /\ phase = "debounce"
  /\ IF CheckedLately(event.ino)
       THEN /\ phase' = "idle" /\ event' = NoOp
            /\ blind' = IF event.ino \in DOMAIN compared /\ now - compared[event.ino] < Debounce
                          THEN blind \union (Deviating(inode_to_baseline[event.ino]) \ heard)
                          ELSE blind
            /\ UNCHANGED last_baseline_check
       ELSE /\ last_baseline_check' =
                 [i \in DOMAIN last_baseline_check \union {event.ino} |->
                    IF i = event.ino THEN now ELSE last_baseline_check[i]]
            /\ phase' = "lstat"
            /\ UNCHANGED <<event, blind>>
  /\ UNCHANGED <<alertVars, diskVars, queue, inode_to_baseline, monitor_actions, compared,
                 to_check, st, devs, heard, restarts>>

DeviationRule == IF event.kind = "boot" THEN kBaselineCheckRuleId ELSE kBaselineRuleId

(* CompareWithBaseline: lstat ...                                           *)
CompareStat ==
  /\ phase = "lstat"
  /\ LET f == inode_to_baseline[event.ino]
     IN  /\ st' = disk[f]
         /\ IF disk[f] = Gone
              THEN devs' = <<<<DeviationRule, f, "missing">>>> /\ phase' = "report"
              ELSE UNCHANGED devs /\ phase' = "hash"
         /\ compared' = [i \in DOMAIN compared \union {event.ino} |->
                           IF i = event.ino THEN now ELSE compared[i]]
  /\ UNCHANGED <<alertVars, diskVars, ghosts, queue, inode_to_baseline, monitor_actions,
                 last_baseline_check, event, to_check, restarts>>

HashDeviations_FirstOnly(f) ==
  LET found(bad, aspect) == IF bad THEN <<<<DeviationRule, f, aspect>>>> ELSE <<>>
  IN  IF disk[f] = Gone THEN found(TRUE, "missing")
      ELSE found(~disk[f].hash, "hash") \o found(disk[f].hash /\ ~st.perm, "perm")

(* ... then the content, and the mode and owner as lstat saw them.          *)
HashDeviations(f) ==
  LET found(bad, aspect) == IF bad THEN <<<<DeviationRule, f, aspect>>>> ELSE <<>>
  IN  IF disk[f] = Gone THEN found(TRUE, "missing")    \* access_failed
      ELSE found(~disk[f].hash, "hash") \o found(~st.perm, "perm")

CompareHash ==
  /\ phase = "hash"
  /\ devs' = HashDeviations(inode_to_baseline[event.ino])
  /\ phase' = "report"
  /\ UNCHANGED <<alertVars, diskVars, memVars, ghosts, queue, event, to_check, st, restarts>>

(* HandleBaselineDeviation, one deviation after the other; a path may by    *)
(* now be as in the baseline again, and its report then says nothing of     *)
(* what comes later.                                                        *)
HandleDeviation ==
  /\ phase = "report" /\ devs # <<>>
  /\ Report(Head(devs)[1])
  /\ LET p == Tail(Head(devs))
         early == event = in_flight   \* the effect is still to come
     IN  heard' = IF p \in Deviating(p[1]) \/ early THEN heard \union {p} ELSE heard
  /\ devs' = Tail(devs)
  /\ UNCHANGED <<diskVars, memVars, queue, blind, event, to_check, st, restarts, phase>>

ReportsDone ==
  /\ phase = "report" /\ devs = <<>>
  /\ phase' = IF event.kind = "boot" THEN "boot check" ELSE "idle"
  /\ event' = NoOp
  /\ UNCHANGED <<alertVars, diskVars, memVars, ghosts, queue, to_check, st, devs, restarts>>

--------------------------------------------------------------------------
Time ==
  /\ Tick
  /\ UNCHANGED <<diskVars, memVars, cmpVars, ghosts, queue, restarts, phase>>

(* The monitor dies with its queue, its throttles and the kernel's map, and *)
(* is started again.                                                        *)
Restart ==
  /\ restarts < MaxRestarts
  /\ restarts' = restarts + 1
  /\ AlertManagerRestart
  /\ phase' = "load" /\ queue' = <<>> /\ event' = NoOp /\ devs' = <<>>
  /\ to_check' = {} /\ st' = Gone
  /\ inode_to_baseline' = Nowhere /\ monitor_actions' = Nowhere
  /\ last_baseline_check' = Nowhere /\ compared' = Nowhere
  /\ UNCHANGED <<diskVars, ghosts>>

Init ==
  /\ AlertManagerInit
  /\ \E there \in [Files -> BOOLEAN], ino \in {f \in [Files -> 1..Cardinality(Files)] : IsInjective(f)} :
       disk = [f \in Files |-> IF there[f] THEN [ino |-> ino[f], hash |-> TRUE, perm |-> TRUE] ELSE Gone]
  /\ next_ino = Cardinality(Files) + 1
  /\ inode_to_baseline = Nowhere /\ monitor_actions = Nowhere
  /\ queue = <<>> /\ in_flight = NoOp /\ ops = 0 /\ restarts = 0
  /\ phase = "load" /\ event = NoOp /\ to_check = {} /\ st = Gone /\ devs = <<>>
  /\ last_baseline_check = Nowhere /\ compared = Nowhere
  /\ heard = {} /\ blind = {}

Monitor ==
  \/ LoadBaseline \/ BootCheckNext \/ FillMonitorActions
  \/ TakeEvent \/ RuleCheck \/ DebounceEvent
  \/ CompareStat \/ CompareHash \/ HandleDeviation \/ ReportsDone

Next == Monitor \/ HookOp \/ LandOp \/ Time \/ Restart

Spec == Init /\ [][Next]_vars

--------------------------------------------------------------------------
(* CompareWithBaseline, handle_chmod_chown_event: when the monitor has      *)
(* nothing left to do, each way in which a file deviates from its baseline  *)
(* has been reported (or throttled) since it does, except for those the     *)
(* design cannot see: changed before the kernel's map was filled, on an     *)
(* inode or with an operation the map does not name, compared before the    *)
(* operation took effect, or within 2 s of a comparison of the same inode.  *)
SilenceIsExplained ==
  (phase = "idle" /\ queue = <<>> /\ in_flight = NoOp)
    => \A f \in Files : Deviating(f) \subseteq heard \union blind
=============================================================================
