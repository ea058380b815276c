---------------------------- MODULE AlertManager ----------------------------
(***************************************************************************)
(* alerts/alert_manager.cpp and the alert part of storage/baseline_db.cpp: *)
(* the throttle in front of every alert, what is stored of an alert, and   *)
(* the retention that thins the table `alerts' out again.                  *)
(*                                                                         *)
(* One thread calls all of it (the consumer thread; before that thread     *)
(* exists, the main thread for the boot check), so each call is one step.  *)
(* The table is shared with the command line, whose `baseline check' adds  *)
(* rows of its own and may hold the write lock when the monitor wants it.  *)
(*                                                                         *)
(* `now' counts abstract time units; a year is YearLen of them.  The text  *)
(* of a date is kept as what its comparison depends on: the year, and      *)
(* whether a '-' follows it.                                               *)
(***************************************************************************)
EXTENDS Integers, FiniteSets, Sequences, SequencesExt

CONSTANTS
  RuleIds,            \* the throttle keys
  throttle_seconds,
  retention_days,     \* 0: for ever
  retention_max,      \* retention_max_records, 0: without limit
  SaveInterval,       \* alerts between two looks at the table (1000)
  YearLen,
  MaxClock,           \* bound
  MaxCliRows,         \* bound on the rows the command line adds
  MaxRaised           \* bound on the alerts of a process, and on those not throttled

ASSUME AlertManagerAssumption ==
  /\ throttle_seconds \in Nat /\ retention_days \in Nat /\ retention_max \in Nat
  /\ SaveInterval \in Nat \ {0} /\ YearLen \in Nat \ {0}
  /\ MaxClock \in Nat /\ MaxCliRows \in Nat /\ MaxRaised \in Nat

VARIABLES
  now,
  last_alert_time,    \* [RuleIds -> Nat \cup {Never}]
  throttled_total,
  alerts,             \* the table: rows [id, at, iso]
  next_id,
  insert_count,
  cli_rows,           \* rows added by the command line so far
  raised,             \* history: alerts the callers had to report
  stored,             \* history: of these, how many were inserted ...
  refused,            \* ... and how many the database would not take
  passed,             \* history: [RuleIds -> times an alert got past the throttle]
  quiet               \* history: <<rule, time>> of the throttled alerts

throttleVars == <<last_alert_time, throttled_total, passed, quiet>>
tableVars == <<alerts, next_id, insert_count, stored, refused>>
alertVars == <<now, throttleVars, tableVars, cli_rows, raised>>

Never == -1

(* NowString writes 20260131-10:00:00, NowIso 2026-01-31T10:00:00 and       *)
(* SQLite's datetime() 2026-01-31 10:00:00; recorded_at is compared as      *)
(* text, and '-' sorts before every digit.                                  *)
NowString(t) == [id |-> next_id, at |-> t, iso |-> FALSE]
NowIso(t)    == [id |-> next_id, at |-> t, iso |-> TRUE]

TextBefore(r, s) ==
  LET year(x) == x.at \div YearLen
  IN  \/ year(r) < year(s)
      \/ year(r) = year(s) /\ r.iso /\ ~s.iso
      \/ year(r) = year(s) /\ r.iso = s.iso /\ r.at < s.at

--------------------------------------------------------------------------
ThrottledNow(rule) ==
  /\ throttle_seconds > 0
  /\ last_alert_time[rule] # Never
  /\ now - last_alert_time[rule] < throttle_seconds

NoteThrottled(rule) ==
  /\ throttled_total' = throttled_total + 1
  /\ quiet' = quiet \union {<<rule, now>>}

(* DELETE ... WHERE recorded_at < datetime('now', '-N days').               *)
PurgeAlertsByAge(rows) ==
  LET cutoff == [at |-> now - retention_days, iso |-> TRUE]
  IN  IF retention_days = 0 \/ cutoff.at < 0 THEN rows
      ELSE {r \in rows : ~TextBefore(r, cutoff)}

PurgeAlertsByCount_Oldest(rows) ==
  IF retention_max = 0 \/ Cardinality(rows) <= retention_max THEN {rows}
  ELSE {keep \in SUBSET rows :
          /\ Cardinality(keep) = retention_max
          /\ \A k \in keep, d \in rows \ keep : ~TextBefore(d, k)}

(* ... NOT IN (SELECT id ... ORDER BY recorded_at DESC LIMIT N): which rows *)
(* of one instant stay is SQLite's choice.                                  *)
PurgeAlertsByCount(rows) ==
  IF retention_max = 0 \/ Cardinality(rows) <= retention_max THEN {rows}
  ELSE {keep \in SUBSET rows :
          /\ Cardinality(keep) = retention_max
          /\ \A k \in keep, d \in rows \ keep : ~TextBefore(k, d)}

(* The tables RunRetention may leave: each DELETE is refused as a whole     *)
(* when another process holds the lock, and nobody looks at that.           *)
RunRetention(rows) ==
  UNION {PurgeAlertsByCount(r) \union {r} : r \in {rows, PurgeAlertsByAge(rows)}}

(* Stores the alert unless the INSERT is refused (only a log line then),    *)
(* and looks at the size of the table every SaveInterval calls.             *)
SaveAlertToDB ==
  \E taken \in BOOLEAN :
    LET rows == IF taken THEN alerts \union {NowString(now)} ELSE alerts
        due  == insert_count + 1 >= SaveInterval
    IN  /\ next_id' = next_id + 1
        /\ stored' = IF taken THEN stored + 1 ELSE stored
        /\ refused' = IF taken THEN refused ELSE refused + 1
        /\ insert_count' = IF due THEN 0 ELSE insert_count + 1
        /\ IF due /\ retention_max > 0 /\ 10 * Cardinality(rows) > 12 * retention_max
             THEN alerts' \in RunRetention(rows)
             ELSE alerts' = rows

SendDingTalk_StampedOnce(rule) ==
  IF ThrottledNow(rule)
    THEN NoteThrottled(rule) /\ UNCHANGED <<last_alert_time, passed, tableVars>>
    ELSE /\ last_alert_time' = [last_alert_time EXCEPT ![rule] = IF @ = Never THEN now ELSE @]
         /\ passed' = [passed EXCEPT ![rule] = Append(@, now)]
         /\ SaveAlertToDB
         /\ UNCHANGED <<throttled_total, quiet>>

(* IsThrottled stamps the rule before anything is sent or stored; what the  *)
(* webhooks answer changes nothing here.                                    *)
SendDingTalk(rule) ==
  IF ThrottledNow(rule)
    THEN NoteThrottled(rule) /\ UNCHANGED <<last_alert_time, passed, tableVars>>
    ELSE /\ last_alert_time' = [last_alert_time EXCEPT ![rule] = now]
         /\ passed' = [passed EXCEPT ![rule] = Append(@, now)]
         /\ SaveAlertToDB
         /\ UNCHANGED <<throttled_total, quiet>>

(* A caller with something to report: on_check_mismatch_detected and        *)
(* HandleBaselineDeviation go straight to SendDingTalk ...                  *)
Report(rule) ==
  /\ raised' = raised + 1
  /\ SendDingTalk(rule)
  /\ UNCHANGED <<now, cli_rows>>

ReportUnlessThrottled_Uncounted(rule) ==
  /\ raised' = raised + 1
  /\ IF ThrottledNow(rule)
       THEN UNCHANGED <<throttleVars, tableVars>>
       ELSE SendDingTalk(rule)
  /\ UNCHANGED <<now, cli_rows>>

(* ... on_violation_detected and send_dsl_alert look at the throttle first. *)
ReportUnlessThrottled(rule) ==
  /\ raised' = raised + 1
  /\ IF ThrottledNow(rule)
       THEN NoteThrottled(rule) /\ UNCHANGED <<last_alert_time, passed, tableVars>>
       ELSE SendDingTalk(rule)
  /\ UNCHANGED <<now, cli_rows>>

(* The consumer thread's hourly call.                                       *)
HourlyRetention ==
  /\ alerts' \in RunRetention(alerts)
  /\ UNCHANGED <<now, throttleVars, next_id, insert_count, stored, refused, cli_rows, raised>>

(* `baseline check', another process: a row dated by NowIso.                *)
CliCheckAlert ==
  /\ cli_rows < MaxCliRows
  /\ cli_rows' = cli_rows + 1
  /\ alerts' = alerts \union {NowIso(now)}
  /\ next_id' = next_id + 1
  /\ UNCHANGED <<now, throttleVars, insert_count, stored, refused, raised>>

Tick ==
  /\ now < MaxClock
  /\ now' = now + 1
  /\ UNCHANGED <<throttleVars, tableVars, cli_rows, raised>>

(* A new process starts with empty throttles and counters; the table stays. *)
AlertManagerRestart ==
  /\ last_alert_time' = [r \in RuleIds |-> Never]
  /\ throttled_total' = 0 /\ insert_count' = 0
  /\ raised' = 0 /\ stored' = 0 /\ refused' = 0
  /\ passed' = [r \in RuleIds |-> <<>>] /\ quiet' = {}
  /\ UNCHANGED <<now, alerts, next_id, cli_rows>>

AlertManagerInit ==
  /\ now = 0
  /\ last_alert_time = [r \in RuleIds |-> Never]
  /\ throttled_total = 0 /\ insert_count = 0 /\ cli_rows = 0
  /\ alerts = {} /\ next_id = 1
  /\ raised = 0 /\ stored = 0 /\ refused = 0
  /\ passed = [r \in RuleIds |-> <<>>] /\ quiet = {}

(* Alone: the callers report whatever they like whenever they like.         *)
Caller ==
  /\ raised < MaxRaised /\ next_id <= MaxRaised
  /\ \E rule \in RuleIds : Report(rule) \/ ReportUnlessThrottled(rule)

AlertManagerNext == Caller \/ HourlyRetention \/ CliCheckAlert \/ Tick \/ AlertManagerRestart

AlertManagerSpec == AlertManagerInit /\ [][AlertManagerNext]_alertVars

--------------------------------------------------------------------------
(* Every alert a caller reports ends in exactly one of three ways: a row,   *)
(* an INSERT the database refused, or one count of throttled_total          *)
(* ("每条被抑制告警恰好计一次", alert_manager.hpp:79).                       *)
EveryAlertAccounted == raised = stored + refused + throttled_total

(* IsThrottled: alerts of one rule that get past the throttle are at least  *)
(* throttle_seconds apart, and each one that is held back has one of the    *)
(* same rule that got past less than throttle_seconds before it.            *)
ThrottleIsHonest ==
  /\ \A r \in RuleIds : \A i, j \in DOMAIN passed[r] :
       i < j => passed[r][j] - passed[r][i] >= throttle_seconds
  /\ \A q \in quiet : \E t \in ToSet(passed[q[1]]) :
       t <= q[2] /\ q[2] - t < throttle_seconds

(* RunRetention: of the rows one program wrote, none is purged while an     *)
(* older one stays.                                                         *)
OldestOfAWriterGoFirst ==
  [][\A d \in alerts \ alerts', k \in alerts \intersect alerts' :
       d.iso = k.iso => d.at <= k.at]_alerts
=============================================================================
