------------------------ MODULE AlertManager_proofs ------------------------
(***************************************************************************)
(* Proofs about the alert side: AlertManager and, on top of it,            *)
(* BaselineWatch, for every set of rules and files, every throttle,        *)
(* retention and debounce window; then NotifyDispatcher, for every set of  *)
(* keys and configurations, every limit of its queue and tables; and all   *)
(* for every bound.                                                        *)
(*   - IInv: no alert is lost to the count and the throttle keeps its      *)
(*     promise, since last_alert_time is the last entry of the rule's      *)
(*     history and no entry lies in the future.  The watch raises its      *)
(*     alerts under known rules only, so the invariant is the watch's too. *)
(*   - The retention takes the oldest rows of a program, since text order  *)
(*     is the order of time between rows of one format.                    *)
(*   - WatchInv: a deviation that is neither heard nor blind is pending,   *)
(*     that is, a step the monitor still has to take will look at it.      *)
(*   - DispatcherInv: every accepted alert is counted once and the worker  *)
(*     never sleeps past its work, for every size of the tables; merged    *)
(*     alerts reach a digest if the table has room for every key.          *)
(***************************************************************************)
EXTENDS BaselineWatch, NotifyDispatcher, FiniteSetTheorems, WellFoundedInduction,
        TLAPS

CounterType ==
  /\ now \in Nat
  /\ raised \in Nat /\ stored \in Nat /\ refused \in Nat /\ throttled_total \in Nat

ThrottleType ==
  /\ last_alert_time \in [RuleIds -> Nat \union {Never}]
  /\ passed \in [RuleIds -> Seq(Nat)]
  /\ quiet \subseteq RuleIds \X Nat

(* What a rule's history h and stamp l say at time t.                       *)
Stamped(h, l, t) ==
  /\ l = IF h = <<>> THEN Never ELSE h[Len(h)]
  /\ \A i \in DOMAIN h : h[i] <= t
  /\ \A i, j \in DOMAIN h : i < j => h[j] - h[i] >= throttle_seconds

HeldBack(q, h) ==
  \E i \in DOMAIN h : h[i] <= q[2] /\ q[2] - h[i] < throttle_seconds

ThrottleInv ==
  /\ \A r \in RuleIds : Stamped(passed[r], last_alert_time[r], now)
  /\ \A q \in quiet : HeldBack(q, passed[q[1]])

(* The inductive invariant.                                                *)
IInv == CounterType /\ ThrottleType /\ ThrottleInv /\ EveryAlertAccounted

(* An alert that gets past the throttle extends its rule's history.         *)
LEMMA StampedAppend ==
  ASSUME NEW h \in Seq(Nat), NEW l, NEW t \in Nat, Stamped(h, l, t),
         h # <<>> => t - l >= throttle_seconds
  PROVE  Stamped(Append(h, t), t, t)
<1> DEFINE g == Append(h, t)
<1>0. Len(h) \in Nat /\ DOMAIN h = 1..Len(h)
  OBVIOUS
<1>a. g \in Seq(Nat) /\ Len(g) = Len(h) + 1 /\ g[Len(h) + 1] = t
  OBVIOUS
<1>b. \A i \in 1..Len(h) : g[i] = h[i]
  OBVIOUS
<1>c. DOMAIN g = 1..(Len(h) + 1) /\ g # <<>>
  BY <1>a, <1>0
<1>1. /\ g[Len(h) + 1] = t /\ g # <<>> /\ Len(g) = Len(h) + 1
      /\ \A i \in 1..Len(h) : g[i] = h[i]
      /\ DOMAIN g = 1..(Len(h) + 1) /\ DOMAIN h = 1..Len(h) /\ Len(h) \in Nat
  BY <1>0, <1>a, <1>b, <1>c
<1>2. throttle_seconds \in Nat
  BY AlertManagerAssumption
<1>3. \A i \in 1..Len(h) : h[i] \in Nat /\ h[i] <= t
  BY <1>1 DEF Stamped
<1>4. \A i \in 1..Len(h) : t - h[i] >= throttle_seconds
  <2> SUFFICES ASSUME NEW i \in 1..Len(h) PROVE t - h[i] >= throttle_seconds
    OBVIOUS
  <2>1. h # <<>> /\ l = h[Len(h)] /\ Len(h) \in 1..Len(h)
    BY DEF Stamped
  <2>2. t - h[Len(h)] >= throttle_seconds
    BY <2>1
  <2>3. CASE i = Len(h)
    BY <2>2, <2>3
  <2>4. CASE i < Len(h)
    <3>1. h[Len(h)] - h[i] >= throttle_seconds
      BY <1>1, <2>1, <2>4 DEF Stamped
    <3> QED
      BY <1>2, <1>3, <2>1, <2>2, <3>1
  <2>5. i = Len(h) \/ i < Len(h)
    <3>1. \A n \in Nat : \A k \in 1..n : k = n \/ k < n
      OBVIOUS
    <3> QED
      BY <1>0, <3>1
  <2> QED
    BY <2>3, <2>4, <2>5
<1>5. \A i \in DOMAIN g : g[i] <= t
  BY <1>1, <1>3
<1>6. ASSUME NEW i \in DOMAIN g, NEW j \in DOMAIN g, i < j
      PROVE  g[j] - g[i] >= throttle_seconds
  <2>1. CASE j = Len(h) + 1
    BY <1>1, <1>4, <1>6, <2>1
  <2>2. CASE j # Len(h) + 1
    BY <1>1, <1>6, <2>2 DEF Stamped
  <2> QED
    BY <2>1, <2>2
<1> QED
  BY <1>1, <1>5, <1>6 DEF Stamped

(* What is held back stays explained when a history grows.                  *)
LEMMA HeldBackAppend ==
  ASSUME NEW h \in Seq(Nat), NEW t \in Nat, NEW q, HeldBack(q, h)
  PROVE  HeldBack(q, Append(h, t))
  BY DEF HeldBack

(* The counting and stamping an alert does, whichever way it came.          *)
LEMMA SendPreserves ==
  ASSUME IInv, NEW rule \in RuleIds, raised' = raised + 1, now' = now, SendDingTalk(rule)
  PROVE  IInv'
<1> USE DEF CounterType, EveryAlertAccounted
<1>0. throttle_seconds \in Nat /\ now \in Nat
  BY AlertManagerAssumption DEF IInv
<1>1. CASE ThrottledNow(rule)
  <2>1. /\ throttled_total' = throttled_total + 1
        /\ quiet' = quiet \union {<<rule, now>>}
        /\ UNCHANGED <<last_alert_time, passed, stored, refused>>
    BY <1>1 DEF SendDingTalk, NoteThrottled, tableVars
  <2>2. CounterType' /\ ThrottleType' /\ EveryAlertAccounted'
    BY <2>1, <1>0 DEF IInv, ThrottleType
  <2>3. HeldBack(<<rule, now>>, passed[rule])
    <3>1. passed[rule] \in Seq(Nat) /\ Stamped(passed[rule], last_alert_time[rule], now)
      BY DEF IInv, ThrottleInv, ThrottleType
    <3>2. last_alert_time[rule] # Never /\ now - last_alert_time[rule] < throttle_seconds
      BY <1>1 DEF ThrottledNow
    <3>3. /\ Len(passed[rule]) \in DOMAIN passed[rule]
          /\ passed[rule][Len(passed[rule])] = last_alert_time[rule]
          /\ last_alert_time[rule] <= now
      BY <3>1, <3>2 DEF Stamped
    <3> QED
      BY <3>2, <3>3 DEF HeldBack
  <2>4. ThrottleInv'
    BY <2>1, <2>3 DEF IInv, ThrottleInv
  <2> QED
    BY <2>2, <2>4 DEF IInv
<1>2. CASE ~ThrottledNow(rule)
  <2>1. /\ last_alert_time' = [last_alert_time EXCEPT ![rule] = now]
        /\ passed' = [passed EXCEPT ![rule] = Append(passed[rule], now)]
        /\ UNCHANGED <<throttled_total, quiet>>
        /\ SaveAlertToDB
    BY <1>2 DEF SendDingTalk
  <2>2. \/ stored' = stored + 1 /\ refused' = refused
        \/ stored' = stored /\ refused' = refused + 1
    BY <2>1 DEF SaveAlertToDB
  <2>3. CounterType' /\ EveryAlertAccounted'
    BY <2>1, <2>2 DEF IInv
  <2>4. passed[rule] \in Seq(Nat) /\ last_alert_time[rule] \in Nat \union {Never}
    BY DEF IInv, ThrottleType
  <2>5. ThrottleType'
    BY <2>1, <2>4, <1>0 DEF IInv, ThrottleType
  <2>6. Stamped(passed[rule], last_alert_time[rule], now)
    BY DEF IInv, ThrottleInv
  <2>7. passed[rule] # <<>> => now - last_alert_time[rule] >= throttle_seconds
    <3> SUFFICES ASSUME passed[rule] # <<>>
                 PROVE  now - last_alert_time[rule] >= throttle_seconds
      OBVIOUS
    <3>1. last_alert_time[rule] \in Nat /\ last_alert_time[rule] <= now
      BY <2>4, <2>6 DEF Stamped
    <3>2. last_alert_time[rule] # Never
      BY <3>1 DEF Never
    <3> QED
      BY <1>0, <1>2, <3>1, <3>2 DEF ThrottledNow
  <2>8. Stamped(Append(passed[rule], now), now, now)
    BY <1>0, <2>4, <2>6, <2>7, StampedAppend
  <2>9. ASSUME NEW r \in RuleIds PROVE Stamped(passed'[r], last_alert_time'[r], now')
    <3>1. CASE r = rule
      <4>1. passed'[r] = Append(passed[rule], now) /\ last_alert_time'[r] = now
        BY <2>1, <3>1 DEF IInv, ThrottleType
      <4> QED
        BY <4>1, <2>8
    <3>2. CASE r # rule
      <4>1. passed'[r] = passed[r] /\ last_alert_time'[r] = last_alert_time[r]
        BY <2>1, <3>2 DEF IInv, ThrottleType
      <4>2. Stamped(passed[r], last_alert_time[r], now)
        BY DEF IInv, ThrottleInv
      <4> QED
        BY <4>1, <4>2
    <3> QED
      BY <3>1, <3>2
  <2>10. ASSUME NEW q \in quiet' PROVE HeldBack(q, passed'[q[1]])
    <3>1. q \in quiet /\ q[1] \in RuleIds
      BY <2>1 DEF IInv, ThrottleType
    <3>2. HeldBack(q, passed[q[1]])
      BY <3>1 DEF IInv, ThrottleInv
    <3>3. CASE q[1] = rule
      <4>1. passed'[q[1]] = Append(passed[rule], now)
        BY <2>1, <3>1, <3>3 DEF IInv, ThrottleType
      <4> QED
        BY <4>1, <3>2, <3>3, <2>4, <1>0, HeldBackAppend
    <3>4. CASE q[1] # rule
      <4>1. passed'[q[1]] = passed[q[1]]
        BY <2>1, <3>1, <3>4 DEF IInv, ThrottleType
      <4> QED
        BY <4>1, <3>2
    <3> QED
      BY <3>3, <3>4
  <2>11. ThrottleInv'
    BY <2>9, <2>10 DEF ThrottleInv
  <2> QED
    BY <2>3, <2>5, <2>11 DEF IInv
<1> QED
  BY <1>1, <1>2

(* A caller that looks at the throttle first counts as SendDingTalk does.   *)
LEMMA PeekIsSend ==
  ASSUME NEW rule \in RuleIds, ReportUnlessThrottled(rule) PROVE SendDingTalk(rule)
  BY DEF ReportUnlessThrottled, SendDingTalk

LEMMA InitIInv == AlertManagerInit => IInv
<1> SUFFICES ASSUME AlertManagerInit PROVE IInv
  OBVIOUS
<1>1. CounterType /\ EveryAlertAccounted
  BY DEF AlertManagerInit, CounterType, EveryAlertAccounted
<1>2. ThrottleType
  BY DEF AlertManagerInit, ThrottleType
<1>3. ThrottleInv
  BY DEF AlertManagerInit, ThrottleInv, Stamped
<1> QED
  BY <1>1, <1>2, <1>3 DEF IInv

LEMMA StepIInv == IInv /\ [AlertManagerNext]_alertVars => IInv'
<1> SUFFICES ASSUME IInv, [AlertManagerNext]_alertVars PROVE IInv'
  OBVIOUS
<1> USE DEF IInv, CounterType, ThrottleType, ThrottleInv, EveryAlertAccounted
<1>1. CASE Caller
  <2>1. PICK rule \in RuleIds : Report(rule) \/ ReportUnlessThrottled(rule)
    BY <1>1 DEF Caller
  <2>2. SendDingTalk(rule)
    BY <2>1, PeekIsSend DEF Report
  <2>3. raised' = raised + 1 /\ now' = now
    BY <2>1 DEF Report, ReportUnlessThrottled
  <2> HIDE DEF IInv
  <2> QED
    BY <2>2, <2>3, SendPreserves
<1>2. CASE HourlyRetention
  BY <1>2 DEF HourlyRetention, throttleVars
<1>3. CASE CliCheckAlert
  BY <1>3 DEF CliCheckAlert, throttleVars
<1>4. CASE Tick
  <2>1. now' = now + 1 /\ UNCHANGED <<last_alert_time, throttled_total, passed, quiet,
                                       stored, refused, raised>>
    BY <1>4 DEF Tick, throttleVars, tableVars
  <2>2. ASSUME NEW r \in RuleIds PROVE Stamped(passed[r], last_alert_time[r], now + 1)
    <3>1. Stamped(passed[r], last_alert_time[r], now) /\ passed[r] \in Seq(Nat)
      OBVIOUS
    <3> QED
      BY <3>1 DEF Stamped
  <2>3. ThrottleInv'
    BY <2>1, <2>2
  <2> QED
    BY <2>1, <2>3
<1>5. CASE AlertManagerRestart
  <2>1. /\ last_alert_time' = [r \in RuleIds |-> Never]
        /\ passed' = [r \in RuleIds |-> <<>>] /\ quiet' = {} /\ now' = now
        /\ throttled_total' = 0 /\ raised' = 0 /\ stored' = 0 /\ refused' = 0
    BY <1>5 DEF AlertManagerRestart
  <2>2. ThrottleInv'
    BY <2>1 DEF Stamped
  <2>3. ThrottleType'
    BY <2>1
  <2> QED
    BY <2>1, <2>2, <2>3
<1>6. CASE UNCHANGED alertVars
  BY <1>6 DEF alertVars, throttleVars, tableVars
<1> QED
  BY <1>1, <1>2, <1>3, <1>4, <1>5, <1>6 DEF AlertManagerNext

(* EveryAlertAccounted: SaveAlertToDB and NoteThrottled together count each *)
(* alert once, whichever caller it comes from, whatever the database does.  *)
THEOREM AlertsAccounted == AlertManagerSpec => []EveryAlertAccounted
<1>1. IInv => EveryAlertAccounted
  BY DEF IInv
<1> QED
  BY <1>1, InitIInv, StepIInv, PTL DEF AlertManagerSpec

LEMMA HonestByInvariant == IInv => ThrottleIsHonest
<1> SUFFICES ASSUME IInv PROVE ThrottleIsHonest
  OBVIOUS
<1>1. ASSUME NEW r \in RuleIds, NEW i \in DOMAIN passed[r], NEW j \in DOMAIN passed[r], i < j
      PROVE  passed[r][j] - passed[r][i] >= throttle_seconds
  BY <1>1 DEF IInv, ThrottleInv, Stamped
<1>2. ASSUME NEW q \in quiet
      PROVE  \E t \in ToSet(passed[q[1]]) : t <= q[2] /\ q[2] - t < throttle_seconds
  BY DEF IInv, ThrottleInv, HeldBack, ToSet
<1> QED
  BY <1>1, <1>2 DEF ThrottleIsHonest

(* ThrottleIsHonest: IsThrottled spaces the alerts of a rule and holds none *)
(* back without one that got past within the window, for every throttle     *)
(* (none is held back when it is 0).                                        *)
THEOREM ThrottleKeepsItsWord == AlertManagerSpec => []ThrottleIsHonest
  BY HonestByInvariant, InitIInv, StepIInv, PTL DEF AlertManagerSpec

-----------------------------------------------------------------------------
(* The retention. *)

LEMMA MulMono ==
  ASSUME NEW y \in Nat, NEW q \in Nat, NEW r \in Nat, r + 1 <= q
  PROVE  y * r + y <= y * q
<1>1. y * q = y * r + y * (q - r)
  OBVIOUS
<1>2. PICK m \in Nat : q - r = m + 1
  <2>1. q - r - 1 \in Nat /\ q - r = (q - r - 1) + 1
    OBVIOUS
  <2> QED
    BY <2>1
<1>3. y * (m + 1) = y * m + y /\ y * m \in Nat
  OBVIOUS
<1>4. y * r \in Nat
  OBVIOUS
<1> QED
  BY <1>1, <1>2, <1>3, <1>4

LEMMA DivFacts ==
  ASSUME NEW a \in Nat, NEW y \in Nat \ {0}
  PROVE  a \div y \in Nat /\ y * (a \div y) <= a /\ a < y * (a \div y) + y
  OBVIOUS

(* A later time is in no earlier year.                                     *)
LEMMA DivMono ==
  ASSUME NEW a \in Nat, NEW b \in Nat, NEW y \in Nat \ {0}, a <= b
  PROVE  a \div y <= b \div y
<1> DEFINE q == a \div y
           r == b \div y
<1>1. q \in Nat /\ y * q <= a
  BY DivFacts
<1>2. r \in Nat /\ b < y * r + y
  BY DivFacts
<1> HIDE DEF q, r
<1>3. ~(r + 1 <= q)
  <2> SUFFICES ASSUME r + 1 <= q PROVE FALSE
    OBVIOUS
  <2>1. y * r + y <= y * q
    BY <1>1, <1>2, MulMono
  <2>2. y * r \in Nat /\ y * q \in Nat
    BY <1>1, <1>2
  <2> QED
    BY <1>1, <1>2, <2>1, <2>2
<1>4. q <= r
  BY <1>1, <1>2, <1>3
<1> QED
  BY <1>4 DEF q, r

Dated == \A r \in alerts : r.at \in Nat /\ r.iso \in BOOLEAN

(* Text order is the order of time between rows of one format, and a text   *)
(* before an ISO one has before it every older text of its own format.      *)
LEMMA TextOrder ==
  ASSUME NEW d, NEW k, d.at \in Nat, k.at \in Nat, d.iso \in BOOLEAN, d.iso = k.iso
  PROVE  /\ ~TextBefore(k, d) => d.at <= k.at
         /\ \A c : c.at \in Nat /\ c.iso = TRUE /\ TextBefore(d, c) /\ ~TextBefore(k, c)
                     => d.at <= k.at
<1> DEFINE yd == d.at \div YearLen
           yk == k.at \div YearLen
<1>1. YearLen \in Nat \ {0}
  BY AlertManagerAssumption
<1>2. yd \in Nat /\ yk \in Nat /\ (k.at <= d.at => yk <= yd)
  BY <1>1, DivFacts, DivMono
<1>3. TextBefore(k, d) <=> yk < yd \/ (yk = yd /\ k.at < d.at)
  BY DEF TextBefore
<1>4. ASSUME NEW c, c.at \in Nat, c.iso = TRUE
      PROVE  LET yc == c.at \div YearLen
             IN  /\ yc \in Nat
                 /\ TextBefore(d, c) <=> yd < yc \/ (yd = yc /\ d.iso /\ d.at < c.at)
                 /\ TextBefore(k, c) <=> yk < yc \/ (yk = yc /\ k.iso /\ k.at < c.at)
  BY <1>1, <1>4, DivFacts DEF TextBefore
<1> HIDE DEF yd, yk
<1>5. ~TextBefore(k, d) => d.at <= k.at
  BY <1>2, <1>3
<1>6. ASSUME NEW c, c.at \in Nat, c.iso = TRUE, TextBefore(d, c), ~TextBefore(k, c)
      PROVE  d.at <= k.at
  <2> DEFINE yc == c.at \div YearLen
  <2>1. /\ yc \in Nat
        /\ yd < yc \/ (yd = yc /\ d.iso /\ d.at < c.at)
        /\ ~(yk < yc \/ (yk = yc /\ k.iso /\ k.at < c.at))
    BY <1>4, <1>6
  <2> HIDE DEF yc
  <2>2. SUFFICES ASSUME k.at < d.at PROVE FALSE
    OBVIOUS
  <2>3. yk <= yd
    BY <1>2, <2>2
  <2>4. CASE yd < yc
    BY <1>2, <2>1, <2>3, <2>4
  <2>5. CASE yd = yc /\ d.iso /\ d.at < c.at
    <3>1. yk = yc /\ k.iso
      BY <1>2, <2>1, <2>3, <2>5
    <3>2. k.at < c.at
      BY <1>6, <2>2, <2>5
    <3> QED
      BY <2>1, <3>1, <3>2
  <2> QED
    BY <2>1, <2>4, <2>5
<1> QED
  BY <1>5, <1>6

(* Of the rows one program wrote, RunRetention takes the oldest.           *)
LEMMA RetentionOrder ==
  ASSUME now \in Nat, NEW rows, \A r \in rows : r.at \in Nat /\ r.iso \in BOOLEAN,
         NEW keep \in RunRetention(rows)
  PROVE  /\ keep \subseteq rows
         /\ \A d \in rows \ keep, k \in keep : d.iso = k.iso => d.at <= k.at
<1>1. PICK r \in {rows, PurgeAlertsByAge(rows)} : keep \in PurgeAlertsByCount(r) \/ keep = r
  BY DEF RunRetention
<1>2. r \subseteq rows /\ \A d \in rows \ r, k \in r : d.iso = k.iso => d.at <= k.at
  <2>1. CASE r = rows
    BY <2>1
  <2>2. CASE r # rows
    <3> DEFINE cutoff == [at |-> now - retention_days, iso |-> TRUE]
    <3>1. cutoff.at \in Nat /\ cutoff.iso = TRUE /\ r = {x \in rows : ~TextBefore(x, cutoff)}
      <4>1. retention_days \in Nat
        BY AlertManagerAssumption
      <4>2. cutoff.at = now - retention_days /\ cutoff.iso = TRUE
        OBVIOUS
      <4>3. r = IF retention_days = 0 \/ cutoff.at < 0 THEN rows
                ELSE {x \in rows : ~TextBefore(x, cutoff)}
        BY <1>1, <2>2 DEF PurgeAlertsByAge
      <4> HIDE DEF cutoff
      <4>4. ~(cutoff.at < 0) /\ r = {x \in rows : ~TextBefore(x, cutoff)}
        BY <2>2, <4>3
      <4> QED
        BY <4>1, <4>2, <4>4
    <3> HIDE DEF cutoff
    <3> QED
      BY <3>1, TextOrder
  <2> QED
    BY <2>1, <2>2
<1>3. keep \subseteq r /\ \A d \in r \ keep, k \in keep : d.iso = k.iso => d.at <= k.at
  <2>1. CASE keep = r
    BY <2>1
  <2>2. CASE keep # r
    <3>1. keep \subseteq r /\ \A k \in keep, d \in r \ keep : ~TextBefore(k, d)
      BY <1>1, <2>2 DEF PurgeAlertsByCount
    <3> QED
      BY <1>2, <3>1, TextOrder
  <2> QED
    BY <2>1, <2>2
<1> QED
  BY <1>2, <1>3

(* What a step makes of the table: a row more, or what a retention leaves.  *)
LEMMA TableStep ==
  ASSUME now \in Nat, Dated, [AlertManagerNext]_alertVars
  PROVE  /\ Dated'
         /\ \A d \in alerts \ alerts', k \in alerts \intersect alerts' :
              d.iso = k.iso => d.at <= k.at
<1>1. \A iso \in BOOLEAN : LET r == [id |-> next_id, at |-> now, iso |-> iso]
                           IN  r.at \in Nat /\ r.iso \in BOOLEAN
  OBVIOUS
<1>2. ASSUME NEW rows, alerts \subseteq rows, alerts' = rows \/ alerts' \in RunRetention(rows),
             \A r \in rows : r.at \in Nat /\ r.iso \in BOOLEAN
      PROVE  /\ Dated'
             /\ \A d \in alerts \ alerts', k \in alerts \intersect alerts' :
                  d.iso = k.iso => d.at <= k.at
  <2>1. CASE alerts' = rows
    BY <1>2, <2>1 DEF Dated
  <2>2. CASE alerts' \in RunRetention(rows)
    <3>1. /\ alerts' \subseteq rows
          /\ \A d \in rows \ alerts', k \in alerts' : d.iso = k.iso => d.at <= k.at
      BY <1>2, <2>2, RetentionOrder
    <3> QED
      BY <1>2, <3>1 DEF Dated
  <2> QED
    BY <1>2, <2>1, <2>2
<1>3. CASE SaveAlertToDB
  <2>1. NowString(now).at \in Nat /\ NowString(now).iso \in BOOLEAN
    BY <1>1 DEF NowString
  <2>2. PICK taken \in BOOLEAN :
          LET rows == IF taken THEN alerts \union {NowString(now)} ELSE alerts
          IN  alerts' = rows \/ alerts' \in RunRetention(rows)
    BY <1>3 DEF SaveAlertToDB
  <2> QED
    BY <1>2, <2>1, <2>2 DEF Dated
<1>4. CASE HourlyRetention
  BY <1>2, <1>4 DEF HourlyRetention, Dated
<1>5. CASE CliCheckAlert
  <2>1. NowIso(now).at \in Nat /\ NowIso(now).iso \in BOOLEAN
    BY <1>1 DEF NowIso
  <2>2. alerts' = alerts \union {NowIso(now)}
    BY <1>5 DEF CliCheckAlert
  <2> QED
    BY <1>2, <2>1, <2>2 DEF Dated
<1>6. CASE alerts' = alerts
  BY <1>6 DEF Dated
<1>7. Caller => SaveAlertToDB \/ alerts' = alerts
  BY DEF Caller, Report, ReportUnlessThrottled, SendDingTalk, tableVars
<1> QED
  BY <1>3, <1>4, <1>5, <1>6, <1>7
     DEF AlertManagerNext, Tick, AlertManagerRestart, alertVars, tableVars

(* OldestOfAWriterGoFirst: whatever of its two DELETEs the database lets    *)
(* through, RunRetention purges no row while an older one of the same       *)
(* program stays, for every retention and every length of the year.         *)
THEOREM OldestGoFirst == AlertManagerSpec => OldestOfAWriterGoFirst
<1>1. AlertManagerInit => Dated
  BY DEF AlertManagerInit, Dated
<1>2. IInv => now \in Nat
  BY DEF IInv, CounterType
<1>3. IInv /\ Dated /\ [AlertManagerNext]_alertVars =>
        /\ Dated'
        /\ [\A d \in alerts \ alerts', k \in alerts \intersect alerts' :
              d.iso = k.iso => d.at <= k.at]_alerts
  BY <1>2, TableStep
<1> QED
  BY <1>1, <1>3, InitIInv, StepIInv, PTL DEF AlertManagerSpec, OldestOfAWriterGoFirst

-----------------------------------------------------------------------------
(* The watch. *)

OpSet == [kind : {"write", "chmod", "unlink", "replace"}, file : Files,
          good : BOOLEAN, ino : Nat, n : Nat]
BootSet == [kind : {"boot"}, ino : Nat]
Aspects == {"missing", "hash", "perm"}
DevSet == RuleIds \X Files \X Aspects
FileData == [ino : Nat, hash : BOOLEAN, perm : BOOLEAN]

Busy == {"rule check", "debounce", "lstat", "hash", "report"}

WatchType ==
  /\ disk \in [Files -> FileData] /\ next_ino \in Nat
  /\ ops \in Nat /\ (in_flight = NoOp \/ in_flight \in OpSet)
  /\ queue \in Seq(OpSet) /\ devs \in Seq(DevSet)
  /\ phase \in Busy \union {"load", "boot check", "idle"}
  /\ phase \in Busy => event \in OpSet \union BootSet
  /\ st \in FileData
  /\ \A i \in DOMAIN last_baseline_check : last_baseline_check[i] \in 0..now
  /\ \A i \in DOMAIN compared : compared[i] \in 0..now

(* Inodes are not reused; an inode in the map leads to the file it is.      *)
InodeInv ==
  /\ next_ino > 0
  /\ \A f \in Files : disk[f] = Gone \/ (disk[f].ino > 0 /\ disk[f].ino < next_ino)
  /\ \A f, g \in Files : disk[f] # Gone /\ disk[f].ino = disk[g].ino => f = g
  /\ \A i \in DOMAIN inode_to_baseline :
       /\ i \in Nat /\ i > 0 /\ i < next_ino /\ inode_to_baseline[i] \in Files
       /\ \A f \in Files : disk[f].ino = i => inode_to_baseline[i] = f
  /\ DOMAIN monitor_actions \subseteq DOMAIN inode_to_baseline
  /\ to_check \subseteq DOMAIN inode_to_baseline

Leads(i, f) == i \in DOMAIN inode_to_baseline /\ inode_to_baseline[i] = f

(* The event of an operation leads to its file.                             *)
OpInv ==
  /\ phase = "load" => DOMAIN inode_to_baseline = {}
  /\ in_flight # NoOp =>
       /\ in_flight.ino = disk[in_flight.file].ino
       /\ disk[in_flight.file] = Gone => in_flight.kind = "replace"
  /\ \A e \in ToSet(queue) : Leads(e.ino, e.file)
  /\ phase \in Busy => /\ event.ino \in DOMAIN inode_to_baseline
                       /\ event \in OpSet => Leads(event.ino, event.file)
  /\ phase = "rule check" => inode_to_baseline[event.ino] \in DOMAIN YamlRule
  /\ to_check # {} => \/ phase = "boot check"
                      \/ phase \in {"lstat", "hash", "report"} /\ event.kind = "boot"

(* A stamp without a comparison is that of the event in hand.               *)
StampInv ==
  \A i \in DOMAIN last_baseline_check :
    \/ phase = "lstat" /\ event.ino = i
    \/ i \in DOMAIN compared /\ last_baseline_check[i] <= compared[i]

(* Events that are judged by themselves see one aspect, the others all.     *)
Sees(e, a) ==
  /\ e.kind = "chmod" => a = "perm" /\ ~e.good
  /\ e.kind = "unlink" => a = "missing"

(* What will bring a deviation to light.                                    *)
Pending(f, a) ==
  \/ \E i \in to_check : inode_to_baseline[i] = f
  \/ phase \in {"rule check", "debounce", "lstat"} /\ inode_to_baseline[event.ino] = f
  \/ phase = "hash" /\ inode_to_baseline[event.ino] = f /\ (a = "perm" => ~st.perm)
  \/ phase = "report" /\ \E d \in ToSet(devs) : d[2] = f /\ d[3] = a
  \/ \E e \in ToSet(queue) : e.file = f /\ Sees(e, a)

Explained(f, a) == <<f, a>> \in heard \union blind \/ Pending(f, a)

SilenceInv ==
  phase # "load" => \A f \in Files : \A a \in Deviations(disk[f]) : Explained(f, a)

WatchInv == WatchType /\ InodeInv /\ OpInv /\ StampInv /\ SilenceInv

(* Sequences and what is in them.                                          *)
LEMMA ToSetFacts ==
  ASSUME NEW D, NEW s \in Seq(D)
  PROVE  /\ ToSet(s) \subseteq D
         /\ \A e \in D : Append(s, e) \in Seq(D) /\ ToSet(Append(s, e)) = ToSet(s) \union {e}
         /\ \A t \in Seq(D) : s \o t \in Seq(D) /\ ToSet(s \o t) = ToSet(s) \union ToSet(t)
         /\ s # <<>> => /\ Head(s) \in D /\ Tail(s) \in Seq(D)
                        /\ ToSet(s) = {Head(s)} \union ToSet(Tail(s))
<1>0. Len(s) \in Nat /\ DOMAIN s = 1..Len(s)
  OBVIOUS
<1>1. ToSet(s) \subseteq D
  BY DEF ToSet
<1>2. ASSUME NEW e \in D
      PROVE  Append(s, e) \in Seq(D) /\ ToSet(Append(s, e)) = ToSet(s) \union {e}
  <2> DEFINE t == Append(s, e)
  <2>1. /\ t \in Seq(D) /\ DOMAIN t = 1..(Len(s) + 1) /\ t[Len(s) + 1] = e
        /\ \A i \in 1..Len(s) : t[i] = s[i]
    OBVIOUS
  <2> HIDE DEF t
  <2>2. ToSet(t) = ToSet(s) \union {e}
    BY <1>0, <2>1 DEF ToSet
  <2> QED
    BY <2>1, <2>2 DEF t
<1>3. ASSUME NEW t \in Seq(D)
      PROVE  s \o t \in Seq(D) /\ ToSet(s \o t) = ToSet(s) \union ToSet(t)
  <2> DEFINE u == s \o t
  <2>0. Len(t) \in Nat /\ DOMAIN t = 1..Len(t)
    OBVIOUS
  <2>1. /\ u \in Seq(D) /\ DOMAIN u = 1..(Len(s) + Len(t))
        /\ \A i \in 1..(Len(s) + Len(t)) :
             u[i] = IF i <= Len(s) THEN s[i] ELSE t[i - Len(s)]
    OBVIOUS
  <2> HIDE DEF u
  <2>2. ASSUME NEW x \in ToSet(u) PROVE x \in ToSet(s) \union ToSet(t)
    <3>1. PICK i \in 1..(Len(s) + Len(t)) : x = u[i]
      BY <2>1, <2>2 DEF ToSet
    <3>2. CASE i <= Len(s)
      BY <1>0, <2>1, <3>1, <3>2 DEF ToSet
    <3>3. CASE ~(i <= Len(s))
      <4>1. i - Len(s) \in 1..Len(t)
        BY <1>0, <2>0, <3>1, <3>3
      <4> QED
        BY <2>0, <2>1, <3>1, <3>3, <4>1 DEF ToSet
    <3> QED
      BY <3>2, <3>3
  <2>3. ASSUME NEW x \in ToSet(s) PROVE x \in ToSet(u)
    <3>1. PICK i \in 1..Len(s) : x = s[i]
      BY <1>0, <2>3 DEF ToSet
    <3>2. i \in 1..(Len(s) + Len(t)) /\ u[i] = s[i]
      BY <1>0, <2>0, <2>1, <3>1
    <3> QED
      BY <2>1, <3>1, <3>2 DEF ToSet
  <2>4. ASSUME NEW x \in ToSet(t) PROVE x \in ToSet(u)
    <3>1. PICK i \in 1..Len(t) : x = t[i]
      BY <2>0, <2>4 DEF ToSet
    <3>2. /\ Len(s) + i \in 1..(Len(s) + Len(t)) /\ ~(Len(s) + i <= Len(s))
          /\ (Len(s) + i) - Len(s) = i
      BY <1>0, <2>0, <3>1
    <3>3. u[Len(s) + i] = t[i]
      BY <2>1, <3>2
    <3> QED
      BY <2>1, <3>1, <3>2, <3>3 DEF ToSet
  <2> QED
    BY <2>1, <2>2, <2>3, <2>4 DEF u
<1>4. ASSUME s # <<>>
      PROVE  /\ Head(s) \in D /\ Tail(s) \in Seq(D)
             /\ ToSet(s) = {Head(s)} \union ToSet(Tail(s))
  <2> DEFINE t == Tail(s)
  <2>1. /\ Len(s) # 0 /\ Head(s) = s[1] /\ t \in Seq(D) /\ DOMAIN t = 1..(Len(s) - 1)
        /\ \A i \in 1..(Len(s) - 1) : t[i] = s[i + 1]
    BY <1>4
  <2> HIDE DEF t
  <2>2. 1 \in 1..Len(s) /\ s[1] \in D
    BY <1>0, <2>1
  <2>3. \A i \in 1..Len(s) : i = 1 \/ (i - 1 \in 1..(Len(s) - 1) /\ s[i] = t[i - 1])
    <3>1. \A i \in 1..Len(s) : i = 1 \/ (i - 1 \in 1..(Len(s) - 1) /\ (i - 1) + 1 = i)
      BY <1>0
    <3> QED
      BY <2>1, <3>1
  <2>4. \A i \in 1..(Len(s) - 1) : i + 1 \in 1..Len(s)
    BY <1>0
  <2>5. ASSUME NEW x \in ToSet(s) PROVE x = s[1] \/ x \in ToSet(t)
    <3>1. PICK i \in 1..Len(s) : x = s[i]
      BY <1>0, <2>5 DEF ToSet
    <3> QED
      BY <2>1, <2>3, <3>1 DEF ToSet
  <2>6. ASSUME NEW x \in ToSet(t) PROVE x \in ToSet(s)
    <3>1. PICK i \in 1..(Len(s) - 1) : x = t[i]
      BY <2>1, <2>6 DEF ToSet
    <3> QED
      BY <1>0, <2>1, <2>4, <3>1 DEF ToSet
  <2>7. s[1] \in ToSet(s)
    BY <1>0, <2>2 DEF ToSet
  <2>8. ToSet(s) = {s[1]} \union ToSet(t)
    BY <2>5, <2>6, <2>7
  <2> QED
    BY <2>1, <2>2, <2>8 DEF t
<1> QED
  BY <1>1, <1>2, <1>3, <1>4

LEMMA ToSetShort ==
  ASSUME NEW D
  PROVE  /\ <<>> \in Seq(D) /\ ToSet(<<>>) = {}
         /\ \A e \in D : <<e>> \in Seq(D) /\ ToSet(<<e>>) = {e}
<1>1. <<>> \in Seq(D) /\ DOMAIN <<>> = {}
  OBVIOUS
<1>2. \A e \in D : <<e>> \in Seq(D) /\ DOMAIN <<e>> = {1} /\ <<e>>[1] = e
  OBVIOUS
<1> QED
  BY <1>1, <1>2 DEF ToSet

(* A deviation as it is queued for the report.                             *)
LEMMA DevFacts ==
  /\ \A r \in RuleIds, f \in Files, a \in Aspects :
       /\ <<r, f, a>> \in DevSet /\ <<r, f, a>>[2] = f /\ <<r, f, a>>[3] = a
  /\ \A d \in DevSet : d[1] \in RuleIds /\ d[2] \in Files /\ Tail(d) = <<d[2], d[3]>>
<1>1. \A r \in RuleIds, f \in Files, a \in Aspects :
        /\ <<r, f, a>> \in DevSet /\ <<r, f, a>>[2] = f /\ <<r, f, a>>[3] = a
  BY DEF DevSet
<1>2. ASSUME NEW d \in DevSet
      PROVE  d[1] \in RuleIds /\ d[2] \in Files /\ Tail(d) = <<d[2], d[3]>>
  <2>1. PICK r \in RuleIds, f \in Files, a \in Aspects : d = <<r, f, a>>
    BY DEF DevSet
  <2>2. Tail(<<r, f, a>>) = <<f, a>>
    OBVIOUS
  <2> QED
    BY <2>1, <2>2
<1> QED
  BY <1>1, <1>2

(* The records.                                                            *)
LEMMA RecordFacts ==
  /\ \A e \in OpSet : /\ e.kind \in {"write", "chmod", "unlink", "replace"}
                       /\ e.file \in Files /\ e.good \in BOOLEAN /\ e.ino \in Nat
  /\ \A e \in BootSet : e.kind = "boot" /\ e.ino \in Nat
  /\ \A e \in BootSet : e \notin OpSet
  /\ NoOp \notin OpSet
  /\ \A d \in FileData : d.ino \in Nat /\ d.hash \in BOOLEAN /\ d.perm \in BOOLEAN
  /\ Gone \in FileData /\ Gone.ino = 0
<1>1. \A e \in OpSet : /\ e.kind \in {"write", "chmod", "unlink", "replace"}
                       /\ e.file \in Files /\ e.good \in BOOLEAN /\ e.ino \in Nat
  BY DEF OpSet
<1>2. \A e \in BootSet : e.kind = "boot" /\ e.ino \in Nat
  BY DEF BootSet
<1>3. NoOp.kind = "none"
  BY DEF NoOp
<1>4. NoOp \notin OpSet /\ \A e \in BootSet : e \notin OpSet
  BY <1>1, <1>2, <1>3
<1>5. \A d \in FileData : d.ino \in Nat /\ d.hash \in BOOLEAN /\ d.perm \in BOOLEAN
  BY DEF FileData
<1>6. Gone \in FileData /\ Gone.ino = 0
  BY DEF Gone, FileData
<1> QED
  BY <1>1, <1>2, <1>4, <1>5, <1>6

LEMMA DeviationFacts ==
  /\ \A d, a : a \in Deviations(d) <=>
       \/ d = Gone /\ a = "missing"
       \/ d # Gone /\ a = "hash" /\ ~d.hash
       \/ d # Gone /\ a = "perm" /\ ~d.perm
  /\ \A d : Deviations(d) \subseteq Aspects
  BY DEF Deviations, Aspects

(* The watch raises its alerts under known rules, so it keeps AlertManager's *)
(* invariant.                                                              *)
LEMMA RuleOfFile ==
  ASSUME NEW f \in DOMAIN YamlRule PROVE YamlRule[f].id \in RuleIds
  BY BaselineWatchAssumption

LEMMA ReportKeeps ==
  ASSUME IInv, NEW rule \in RuleIds, Report(rule) \/ ReportUnlessThrottled(rule)
  PROVE  IInv' /\ now' = now
<1>1. SendDingTalk(rule) /\ raised' = raised + 1 /\ now' = now
  BY PeekIsSend DEF Report, ReportUnlessThrottled
<1> QED
  BY <1>1, SendPreserves

LEMMA AlertsUnchanged == IInv /\ UNCHANGED alertVars => IInv' /\ now' = now
<1> SUFFICES ASSUME IInv, UNCHANGED alertVars PROVE IInv' /\ now' = now
  OBVIOUS
<1>1. [AlertManagerNext]_alertVars
  OBVIOUS
<1> QED
  BY <1>1, StepIInv DEF alertVars

LEMMA InitWatch == Init => WatchInv
<1> SUFFICES ASSUME Init PROVE WatchInv
  OBVIOUS
<1>1. Cardinality(Files) \in Nat
  BY BaselineWatchAssumption, FS_CardinalityType
<1>2. PICK there \in [Files -> BOOLEAN],
           ino \in {f \in [Files -> 1..Cardinality(Files)] : IsInjective(f)} :
        disk = [f \in Files |-> IF there[f] THEN [ino |-> ino[f], hash |-> TRUE, perm |-> TRUE]
                                            ELSE Gone]
  BY DEF Init
<1>3. \A f \in Files : /\ ino[f] \in 1..Cardinality(Files)
                       /\ \A g \in Files : ino[f] = ino[g] => f = g
  BY <1>2 DEF IsInjective
<1>4. \A f \in Files :
        \/ disk[f] = Gone
        \/ disk[f] \in FileData /\ disk[f].ino = ino[f] /\ disk[f].ino # 0
  BY <1>1, <1>2, <1>3 DEF FileData
<1>5. disk \in [Files -> FileData]
  BY <1>2, <1>4, RecordFacts
<1>6. /\ next_ino = Cardinality(Files) + 1 /\ ops = 0 /\ in_flight = NoOp /\ queue = <<>>
      /\ devs = <<>> /\ phase = "load" /\ st = Gone /\ to_check = {}
      /\ DOMAIN inode_to_baseline = {} /\ DOMAIN monitor_actions = {}
      /\ DOMAIN last_baseline_check = {} /\ DOMAIN compared = {}
  BY DEF Init, Nowhere
<1>7. WatchType
  BY <1>1, <1>5, <1>6, RecordFacts, ToSetShort DEF WatchType, Busy
<1>8. InodeInv
  <2>1. \A f \in Files : disk[f] = Gone \/ (disk[f].ino > 0 /\ disk[f].ino < next_ino)
    BY <1>1, <1>3, <1>4, <1>6
  <2>2. \A f, g \in Files : disk[f] # Gone /\ disk[f].ino = disk[g].ino => f = g
    BY <1>3, <1>4, RecordFacts
  <2> QED
    BY <1>1, <1>6, <2>1, <2>2 DEF InodeInv
<1>9. OpInv /\ StampInv /\ SilenceInv
  BY <1>6, ToSetShort DEF OpInv, StampInv, SilenceInv, Busy
<1> QED
  BY <1>7, <1>8, <1>9 DEF WatchInv

(* What a step leaves alone.                                               *)
LEMMA InodesKept ==
  ASSUME InodeInv, UNCHANGED <<disk, next_ino, inode_to_baseline, monitor_actions>>,
         to_check' \subseteq to_check
  PROVE  InodeInv'
  BY DEF InodeInv

LEMMA StampsKept ==
  ASSUME StampInv, UNCHANGED <<last_baseline_check, compared>>,
         phase = "lstat" => phase' = "lstat" /\ event' = event
  PROVE  StampInv'
  BY DEF StampInv

LEMMA SilenceKept ==
  ASSUME SilenceInv, phase # "load", disk' = disk,
         heard \subseteq heard', blind \subseteq blind',
         \A f \in Files : \A a \in Deviations(disk[f]) :
           Pending(f, a) => <<f, a>> \in heard' \union blind' \/ Pending(f, a)'
  PROVE  SilenceInv'
  BY DEF SilenceInv, Explained

LEMMA LoadKeeps == WatchInv /\ now' = now /\ LoadBaseline => WatchInv'
<1> SUFFICES ASSUME WatchInv, now' = now, LoadBaseline PROVE WatchInv'
  OBVIOUS
<1> DEFINE there == {f \in Files : disk[f] # Gone}
           inodes == {disk[f].ino : f \in there}
<1>1. /\ inode_to_baseline' = [i \in inodes |-> CHOOSE f \in there : disk[f].ino = i]
      /\ to_check' = inodes
      /\ blind' = blind \union UNION {Deviating(f) : f \in Files \ there}
  BY DEF LoadBaseline
<1>2. /\ phase = "load" /\ phase' = "boot check"
      /\ UNCHANGED <<disk, next_ino, in_flight, ops, queue, monitor_actions,
                     last_baseline_check, compared, event, st, devs, heard>>
  BY DEF LoadBaseline, diskVars
<1>3. WatchType /\ InodeInv /\ OpInv /\ StampInv
  BY DEF WatchInv
<1>4. \A i \in DOMAIN inode_to_baseline' :
        /\ inode_to_baseline'[i] \in there /\ disk[inode_to_baseline'[i]].ino = i
  <2> SUFFICES ASSUME NEW i \in inodes
               PROVE  LET g == CHOOSE f \in there : disk[f].ino = i
                      IN  g \in there /\ disk[g].ino = i
    BY <1>1
  <2>1. \E f \in there : disk[f].ino = i
    OBVIOUS
  <2> QED
    BY <2>1
<1>5. DOMAIN inode_to_baseline' = inodes
  BY <1>1
<1>6. \A f \in there : disk[f].ino \in inodes
  OBVIOUS
<1>7. DOMAIN inode_to_baseline = {} /\ DOMAIN monitor_actions = {} /\ ToSet(queue) = {}
  BY <1>2, <1>3 DEF OpInv, InodeInv, Leads
<1> HIDE DEF inodes
<1>8. WatchType'
  BY <1>2, <1>3 DEF WatchType, Busy
<1>9. InodeInv'
  <2>1. ASSUME NEW i \in DOMAIN inode_to_baseline'
        PROVE  /\ i \in Nat /\ i > 0 /\ i < next_ino /\ inode_to_baseline'[i] \in Files
               /\ \A f \in Files : disk[f].ino = i => inode_to_baseline'[i] = f
    <3>1. PICK g \in there : inode_to_baseline'[i] = g /\ disk[g].ino = i
      BY <1>4, <2>1
    <3>2. g \in Files /\ disk[g] # Gone /\ disk[g] \in FileData
      BY <1>3 DEF WatchType
    <3>3. i \in Nat
      BY <3>1, <3>2, RecordFacts
    <3>4. disk[g].ino > 0 /\ disk[g].ino < next_ino
      BY <1>3, <3>2 DEF InodeInv
    <3> QED
      BY <1>3, <3>1, <3>2, <3>3, <3>4 DEF InodeInv
  <2> QED
    BY <1>1, <1>2, <1>3, <1>5, <1>7, <2>1 DEF InodeInv
<1>10. OpInv'
  BY <1>2, <1>3, <1>7 DEF OpInv, Busy
<1>11. StampInv'
  BY <1>2, <1>3 DEF StampInv
<1>12. SilenceInv'
  <2> SUFFICES ASSUME NEW f \in Files, NEW a \in Deviations(disk[f])
               PROVE  Explained(f, a)'
    BY <1>2 DEF SilenceInv
  <2>1. CASE disk[f] = Gone
    BY <1>1, <2>1 DEF Deviating, Explained
  <2>2. CASE disk[f] # Gone
    <3>1. f \in there
      BY <2>2
    <3>2. disk[f].ino \in to_check' /\ disk[f].ino \in DOMAIN inode_to_baseline'
      BY <1>1, <1>5, <1>6, <3>1
    <3>3. inode_to_baseline'[disk[f].ino] = f
      BY <1>2, <1>9, <3>2 DEF InodeInv
    <3> QED
      BY <3>2, <3>3 DEF Explained, Pending
  <2> QED
    BY <2>1, <2>2
<1> QED
  BY <1>8, <1>9, <1>10, <1>11, <1>12 DEF WatchInv

LEMMA BootNextKeeps == WatchInv /\ now' = now /\ BootCheckNext => WatchInv'
<1> SUFFICES ASSUME WatchInv, now' = now, BootCheckNext PROVE WatchInv'
  OBVIOUS
<1>1. PICK i \in to_check : /\ to_check' = to_check \ {i}
                            /\ event' = [kind |-> "boot", ino |-> i]
  BY DEF BootCheckNext
<1>2. /\ phase = "boot check" /\ phase' = "lstat"
      /\ UNCHANGED <<disk, next_ino, in_flight, ops, queue, inode_to_baseline, monitor_actions,
                     last_baseline_check, compared, st, devs, heard, blind>>
  BY DEF BootCheckNext, diskVars, memVars, ghosts
<1>3. WatchType /\ InodeInv /\ OpInv /\ StampInv /\ SilenceInv
  BY DEF WatchInv
<1>4. i \in DOMAIN inode_to_baseline /\ i \in Nat
  BY <1>3 DEF InodeInv
<1>5. event' \in BootSet /\ event'.ino = i /\ event'.kind = "boot" /\ event' \notin OpSet
  BY <1>1, <1>4, RecordFacts DEF BootSet
<1>6. WatchType'
  BY <1>2, <1>3, <1>5 DEF WatchType, Busy
<1>7. InodeInv'
  BY <1>1, <1>2, <1>3, InodesKept
<1>8. OpInv'
  BY <1>2, <1>3, <1>4, <1>5 DEF OpInv, Busy, Leads
<1>9. StampInv'
  BY <1>2, <1>3, StampsKept
<1>10. ASSUME NEW f \in Files, NEW a, Pending(f, a) PROVE Pending(f, a)'
  BY <1>1, <1>2, <1>5, <1>10 DEF Pending
<1>11. SilenceInv'
  BY <1>2, <1>3, <1>10, SilenceKept
<1> QED
  BY <1>6, <1>7, <1>8, <1>9, <1>11 DEF WatchInv

LEMMA FillKeeps == WatchInv /\ now' = now /\ FillMonitorActions => WatchInv'
<1> SUFFICES ASSUME WatchInv, now' = now, FillMonitorActions PROVE WatchInv'
  OBVIOUS
<1>1. /\ phase = "boot check" /\ to_check = {} /\ phase' = "idle"
      /\ DOMAIN monitor_actions' = DOMAIN inode_to_baseline
      /\ UNCHANGED <<disk, next_ino, in_flight, ops, queue, inode_to_baseline, to_check, event,
                     last_baseline_check, compared, st, devs, heard, blind>>
  BY DEF FillMonitorActions, diskVars, ghosts, cmpVars
<1>2. WatchType /\ InodeInv /\ OpInv /\ StampInv /\ SilenceInv
  BY DEF WatchInv
<1>3. WatchType'
  BY <1>1, <1>2 DEF WatchType, Busy
<1>4. InodeInv'
  BY <1>1, <1>2 DEF InodeInv
<1>5. OpInv'
  BY <1>1, <1>2 DEF OpInv, Busy, Leads
<1>6. StampInv'
  BY <1>1, <1>2, StampsKept
<1>7. ASSUME NEW f \in Files, NEW a, Pending(f, a) PROVE Pending(f, a)'
  BY <1>1, <1>7 DEF Pending
<1>8. SilenceInv'
  BY <1>1, <1>2, <1>7, SilenceKept
<1> QED
  BY <1>3, <1>4, <1>5, <1>6, <1>8 DEF WatchInv

LEMMA HookKeeps == WatchInv /\ now' = now /\ HookOp => WatchInv'
<1> SUFFICES ASSUME WatchInv, now' = now, HookOp PROVE WatchInv'
  OBVIOUS
<1>1. PICK f \in Files, kind \in {"write", "chmod", "unlink", "replace"}, good \in BOOLEAN :
        /\ disk[f] = Gone => kind = "replace"
        /\ in_flight' = [kind |-> kind, file |-> f, good |-> good, ino |-> disk[f].ino,
                         n |-> ops + 1]
        /\ queue' = IF Hooked(kind, disk[f].ino) THEN Append(queue, in_flight') ELSE queue
  BY DEF HookOp
<1>2. /\ ops' = ops + 1
      /\ UNCHANGED <<disk, next_ino, phase, inode_to_baseline, monitor_actions, event, to_check,
                     last_baseline_check, compared, st, devs, heard, blind>>
  BY DEF HookOp, memVars, cmpVars, ghosts
<1>3. WatchType /\ InodeInv /\ OpInv /\ StampInv /\ SilenceInv
  BY DEF WatchInv
<1>4. ops \in Nat /\ disk[f] \in FileData /\ disk[f].ino \in Nat /\ queue \in Seq(OpSet)
  BY <1>3, RecordFacts DEF WatchType
<1>5. /\ in_flight' \in OpSet /\ in_flight'.file = f /\ in_flight'.ino = disk[f].ino
      /\ in_flight'.kind = kind
  BY <1>1, <1>4 DEF OpSet
<1>6. /\ queue' \in Seq(OpSet)
      /\ ToSet(queue) \subseteq ToSet(queue')
      /\ \A e \in ToSet(queue') :
           e \in ToSet(queue) \/ (e = in_flight' /\ Hooked(kind, disk[f].ino))
  BY <1>1, <1>4, <1>5, ToSetFacts
<1>7. WatchType'
  <2>1. ops' \in Nat
    BY <1>2, <1>4
  <2>2. in_flight' \in OpSet /\ queue' \in Seq(OpSet)
    BY <1>5, <1>6
  <2> QED
    BY <1>2, <1>3, <2>1, <2>2 DEF WatchType, Busy
<1>8. InodeInv'
  BY <1>2, <1>3, InodesKept
<1>9. Hooked(kind, disk[f].ino) => Leads(disk[f].ino, f)
  BY <1>3 DEF Hooked, InodeInv, Leads
<1>10. OpInv'
  <2>1. \A e \in ToSet(queue') : Leads(e.ino, e.file)'
    BY <1>2, <1>3, <1>5, <1>6, <1>9 DEF OpInv, Leads
  <2> QED
    BY <1>1, <1>2, <1>3, <1>5, <2>1 DEF OpInv, Busy, Leads
<1>11. StampInv'
  BY <1>2, <1>3, StampsKept
<1>12. ASSUME NEW g \in Files, NEW a, Pending(g, a) PROVE Pending(g, a)'
  BY <1>2, <1>6, <1>12 DEF Pending
<1>13. SilenceInv'
  BY <1>2, <1>3, <1>12 DEF SilenceInv, Explained
<1> QED
  BY <1>7, <1>8, <1>10, <1>11, <1>13 DEF WatchInv

(* What an operation makes of a file.                                      *)
LEMMA AfterFacts ==
  ASSUME NEW op \in OpSet, NEW d \in FileData
  PROVE  LET b == After(op, d)
         IN  /\ op.kind = "write" => /\ b.ino = d.ino /\ b.perm = d.perm /\ b.hash = op.good
                                     /\ b \in FileData
             /\ op.kind = "chmod" => /\ b.ino = d.ino /\ b.hash = d.hash /\ b.perm = op.good
                                     /\ b \in FileData
             /\ op.kind = "unlink" => b = Gone
             /\ op.kind = "replace" => /\ b.ino = next_ino /\ (next_ino \in Nat => b \in FileData)
<1>1. op.kind \in {"write", "chmod", "unlink", "replace"} /\ op.good \in BOOLEAN
  BY RecordFacts
<1>2. CASE op.kind = "write"
  BY <1>1, <1>2 DEF After, FileData
<1>3. CASE op.kind = "chmod"
  BY <1>1, <1>3 DEF After, FileData
<1>4. CASE op.kind = "unlink"
  BY <1>4 DEF After
<1>5. CASE op.kind = "replace"
  BY <1>1, <1>5 DEF After, FileData
<1> QED
  BY <1>1, <1>2, <1>3, <1>4, <1>5

(* What is still to be seen will be looked at.                             *)
LEMMA StillCases ==
  ASSUME NEW op, NEW bad, NEW p \in StillToSee(op, bad)
  PROVE  \/ op \in ToSet(queue)
         \/ event = op /\ phase \in {"rule check", "debounce", "lstat"}
         \/ event = op /\ phase = "hash" /\ p[2] # "perm"
         \/ event = op /\ phase = "report" /\ p \in {Tail(d) : d \in ToSet(devs)}
  BY DEF StillToSee

LEMMA LandKeeps == WatchInv /\ now' = now /\ LandOp => WatchInv'
<1> SUFFICES ASSUME WatchInv, now' = now, LandOp PROVE WatchInv'
  OBVIOUS
<1>1. WatchType /\ InodeInv /\ OpInv /\ StampInv /\ SilenceInv
  BY DEF WatchInv
<1>a. PICK op \in OpSet : in_flight = op
  BY <1>1 DEF LandOp, WatchType
<1>b. PICK f \in Files : op.file = f
  BY RecordFacts
<1> DEFINE b   == After(op, disk[f])
           bad == {f} \X Deviations(b)
<1>2. /\ disk' = [disk EXCEPT ![f] = b]
      /\ next_ino' = IF op.kind = "replace" THEN next_ino + 1 ELSE next_ino
      /\ heard' = {p \in heard : p[1] = f => p \in bad}
      /\ blind' = {p \in blind : p[1] = f => p \in bad}
                    \union (bad \ (heard \union StillToSee(op, bad)))
  BY <1>a, <1>b DEF LandOp
<1>3. /\ in_flight # NoOp /\ in_flight' = NoOp
      /\ UNCHANGED <<ops, phase, inode_to_baseline, monitor_actions, event, to_check,
                     last_baseline_check, compared, st, devs, queue>>
  BY DEF LandOp, memVars, cmpVars
<1>4. /\ op \in OpSet /\ f \in Files /\ disk[f] \in FileData /\ next_ino \in Nat
      /\ op.kind \in {"write", "chmod", "unlink", "replace"}
      /\ disk[f] = Gone => op.kind = "replace"
  BY <1>1, <1>3, <1>a, <1>b, RecordFacts DEF WatchType, OpInv
<1>5. /\ op.kind = "write" => /\ b.ino = disk[f].ino /\ b.hash = op.good /\ b \in FileData
                              /\ b.perm = disk[f].perm
      /\ op.kind = "chmod" => /\ b.ino = disk[f].ino /\ b.hash = disk[f].hash /\ b \in FileData
                              /\ b.perm = op.good
      /\ op.kind = "unlink" => b = Gone
      /\ op.kind = "replace" => b.ino = next_ino /\ b \in FileData
  BY <1>4, AfterFacts
<1>6. b \in FileData /\ b.ino \in Nat /\ (b # Gone => b.ino = disk[f].ino \/ b.ino = next_ino)
  BY <1>4, <1>5, RecordFacts
<1>7. op.kind \in {"write", "chmod"} => disk[f] # Gone /\ disk[f].ino > 0 /\ disk[f].ino < next_ino
  BY <1>1, <1>4 DEF InodeInv
<1>8. /\ disk' \in [Files -> FileData] /\ disk'[f] = b
      /\ \A g \in Files \ {f} : disk'[g] = disk[g]
  <2> HIDE DEF b
  <2> QED
    BY <1>1, <1>2, <1>4, <1>6 DEF WatchType
<1>9. next_ino' \in Nat /\ next_ino <= next_ino' /\ (op.kind = "replace" => next_ino' = next_ino + 1)
  BY <1>2, <1>4
<1> HIDE DEF b, bad
<1>10. WatchType'
  BY <1>1, <1>3, <1>8, <1>9 DEF WatchType, Busy
<1>11. b = Gone \/ (b.ino > 0 /\ b.ino < next_ino')
  <2>1. CASE op.kind \in {"write", "chmod"}
    BY <1>4, <1>5, <1>6, <1>7, <1>9, <2>1, RecordFacts
  <2>2. CASE op.kind = "unlink"
    BY <1>5, <2>2
  <2>3. CASE op.kind = "replace"
    <3>1. next_ino > 0
      BY <1>1 DEF InodeInv
    <3> QED
      BY <1>4, <1>5, <1>9, <2>3, <3>1
  <2> QED
    BY <1>4, <2>1, <2>2, <2>3
<1>12. \A g, h \in Files : disk'[g] # Gone /\ disk'[g].ino = disk'[h].ino => g = h
  <2>1. \A g \in Files \ {f} : /\ disk'[g] = disk[g] /\ disk[g].ino < next_ino
                               /\ disk[g].ino \in Nat /\ disk[g] \in FileData
                               /\ disk[g] # Gone => disk[g].ino > 0
    <3> SUFFICES ASSUME NEW g \in Files \ {f}
                 PROVE  /\ disk[g].ino < next_ino /\ disk[g].ino \in Nat
                        /\ disk[g] \in FileData
                        /\ disk[g] # Gone => disk[g].ino > 0
      BY <1>8
    <3>1. disk[g] \in FileData /\ disk[g].ino \in Nat
      BY <1>1, RecordFacts DEF WatchType
    <3> QED
      BY <1>1, <3>1, RecordFacts DEF InodeInv
  <2>2. \A g \in Files \ {f} : disk[g].ino = disk[f].ino => disk[g] = Gone \/ disk[f] = Gone
    BY <1>1, <1>4 DEF InodeInv
  <2>3. \A g \in Files \ {f} : disk[g].ino = b.ino => disk[g] = Gone
    <3> SUFFICES ASSUME NEW g \in Files \ {f}, disk[g].ino = b.ino, disk[g] # Gone
                 PROVE  FALSE
      OBVIOUS
    <3>1. b # Gone
      BY <2>1, RecordFacts
    <3>2. b.ino = disk[f].ino \/ b.ino = next_ino
      BY <1>6, <3>1
    <3>3. b.ino = disk[f].ino
      BY <1>4, <2>1, <3>2
    <3> QED
      BY <1>1, <1>4, <3>3 DEF InodeInv
  <2>4. \A g \in Files \ {f} : disk[g].ino = b.ino => b = Gone
    BY <1>11, <2>3, RecordFacts, <1>6
  <2> QED
    BY <1>1, <1>8, <2>3, <2>4 DEF InodeInv
<1>13. InodeInv'
  <2>1. next_ino' > 0
    BY <1>1, <1>4, <1>9 DEF InodeInv
  <2>2. \A g \in Files : disk'[g] = Gone \/ (disk'[g].ino > 0 /\ disk'[g].ino < next_ino')
    <3> SUFFICES ASSUME NEW g \in Files \ {f}, disk[g] # Gone
                 PROVE  disk[g].ino > 0 /\ disk[g].ino < next_ino'
      BY <1>8, <1>11
    <3>1. disk[g].ino > 0 /\ disk[g].ino < next_ino /\ disk[g].ino \in Nat
      BY <1>1, RecordFacts DEF InodeInv, WatchType
    <3> QED
      BY <1>4, <1>9, <3>1
  <2>3. ASSUME NEW i \in DOMAIN inode_to_baseline
        PROVE  /\ i \in Nat /\ i > 0 /\ i < next_ino' /\ inode_to_baseline[i] \in Files
               /\ \A g \in Files : disk'[g].ino = i => inode_to_baseline[i] = g
    <3>1. /\ i \in Nat /\ i > 0 /\ i < next_ino /\ inode_to_baseline[i] \in Files
          /\ \A g \in Files : disk[g].ino = i => inode_to_baseline[i] = g
      BY <1>1 DEF InodeInv
    <3>2. i < next_ino' /\ i # next_ino /\ i # 0
      BY <1>4, <1>9, <3>1
    <3>3. b.ino = i => disk[f].ino = i
      BY <1>6, <3>2, RecordFacts
    <3> QED
      BY <1>8, <3>1, <3>2, <3>3
  <2> QED
    BY <1>1, <1>3, <1>12, <2>1, <2>2, <2>3 DEF InodeInv
<1>14. OpInv'
  BY <1>1, <1>3 DEF OpInv, Busy, Leads
<1>15. StampInv'
  BY <1>1, <1>3, StampsKept
<1>16. ASSUME NEW g \in Files, NEW a PROVE Pending(g, a) => Pending(g, a)'
  BY <1>3 DEF Pending
<1>17. ASSUME phase # "load", NEW a \in Deviations(b) PROVE Explained(f, a)'
  <2> DEFINE p == <<f, a>>
  <2>1. p \in bad /\ p[1] = f /\ p[2] = a
    BY <1>17 DEF bad
  <2>2. a \in Aspects
    BY <1>17, DeviationFacts
  <2> HIDE DEF p
  <2>3. CASE p \in heard \/ p \in blind \/ p \notin StillToSee(op, bad)
    <3>1. p \in heard' \union blind'
      BY <1>2, <2>1, <2>3
    <3> QED
      BY <3>1 DEF Explained, p
  <2>4. CASE p \in StillToSee(op, bad)
    <3>1. \/ op \in ToSet(queue)
          \/ event = op /\ phase \in {"rule check", "debounce", "lstat"}
          \/ event = op /\ phase = "hash" /\ p[2] # "perm"
          \/ event = op /\ phase = "report" /\ p \in {Tail(d) : d \in ToSet(devs)}
      BY <2>4, StillCases
    <3>2. event = op /\ phase \in Busy => inode_to_baseline[event.ino] = f
      BY <1>1, <1>4, <1>b DEF OpInv, Leads
    <3>3. CASE op \in ToSet(queue) /\ Sees(op, a)
      <4>1. Pending(f, a)
        BY <1>b, <3>3 DEF Pending
      <4> QED
        BY <1>4, <1>16, <4>1 DEF Explained
    <3>4. CASE op \in ToSet(queue) /\ ~Sees(op, a)
      <4>1. op.kind = "chmod" /\ a = "hash" /\ ~disk[f].hash /\ disk[f] # Gone
        BY <1>4, <1>5, <1>7, <1>17, <3>4, DeviationFacts, RecordFacts DEF Sees
      <4>2. Explained(f, a)
        BY <1>1, <1>4, <1>17, <4>1, DeviationFacts DEF SilenceInv
      <4>3. CASE p \in heard \/ p \in blind
        BY <2>3, <4>3
      <4>4. CASE Pending(f, a)
        BY <1>4, <1>16, <4>4 DEF Explained
      <4> QED
        BY <4>2, <4>3, <4>4 DEF Explained, p
    <3>5. CASE event = op /\ phase \in {"rule check", "debounce", "lstat"}
      <4>1. Pending(f, a)
        BY <3>2, <3>5 DEF Pending, Busy
      <4> QED
        BY <1>4, <1>16, <4>1 DEF Explained
    <3>6. CASE event = op /\ phase = "hash" /\ p[2] # "perm"
      <4>1. Pending(f, a)
        BY <2>1, <3>2, <3>6 DEF Pending, Busy
      <4> QED
        BY <1>4, <1>16, <4>1 DEF Explained
    <3>7. CASE event = op /\ phase = "report" /\ p \in {Tail(d) : d \in ToSet(devs)}
      <4>1. PICK d \in ToSet(devs) : p = Tail(d)
        BY <3>7
      <4>2. d \in DevSet
        BY <1>1, ToSetFacts DEF WatchType
      <4>3. d[2] = f /\ d[3] = a
        <5>1. Tail(d) = <<d[2], d[3]>>
          BY <4>2, DevFacts, Zenon
        <5>2. p = <<d[2], d[3]>>
          BY <4>1, <5>1, Zenon
        <5>3. p[1] = d[2] /\ p[2] = d[3]
          BY ONLY <5>2
        <5> QED
          BY <2>1, <5>3, Zenon
      <4>4. Pending(f, a)
        BY <3>7, <4>3 DEF Pending
      <4> QED
        BY <1>4, <1>16, <4>4 DEF Explained
    <3> QED
      BY <3>1, <3>3, <3>4, <3>5, <3>6, <3>7
  <2> QED
    BY <2>3, <2>4
<1>18. SilenceInv'
  <2> SUFFICES ASSUME phase # "load", NEW g \in Files, NEW a \in Deviations(disk'[g])
               PROVE  Explained(g, a)'
    BY <1>3 DEF SilenceInv
  <2>1. CASE g = f
    BY <1>8, <1>17, <2>1
  <2>2. CASE g # f
    <3>1. Explained(g, a)
      BY <1>1, <1>8, <2>2 DEF SilenceInv
    <3>2. <<g, a>> \in heard => <<g, a>> \in heard'
      BY <1>2, <2>2
    <3>3. <<g, a>> \in blind => <<g, a>> \in blind'
      BY <1>2, <2>2
    <3> QED
      BY <1>16, <3>1, <3>2, <3>3 DEF Explained
  <2> QED
    BY <2>1, <2>2
<1> QED
  BY <1>10, <1>13, <1>14, <1>15, <1>18 DEF WatchInv

LEMMA TakeKeeps == WatchInv /\ now' = now /\ TakeEvent => WatchInv'
<1> SUFFICES ASSUME WatchInv, now' = now, TakeEvent PROVE WatchInv'
  OBVIOUS
<1>1. WatchType /\ InodeInv /\ OpInv /\ StampInv /\ SilenceInv
  BY DEF WatchInv
<1>2. /\ phase = "idle" /\ queue # <<>> /\ event' = Head(queue) /\ queue' = Tail(queue)
      /\ UNCHANGED <<disk, next_ino, in_flight, ops, inode_to_baseline, monitor_actions,
                     last_baseline_check, compared, to_check, st, heard, blind>>
  BY DEF TakeEvent, diskVars, memVars, ghosts
<1>3. /\ Head(queue) \in OpSet /\ queue' \in Seq(OpSet)
      /\ ToSet(queue) = {Head(queue)} \union ToSet(queue')
  BY <1>1, <1>2, ToSetFacts DEF WatchType
<1>4. PICK e \in OpSet : Head(queue) = e
  BY <1>3
<1>5. PICK f \in Files : e.file = f
  BY RecordFacts
<1>6. Leads(e.ino, f) /\ inode_to_baseline[e.ino] = f /\ e.ino \in DOMAIN inode_to_baseline
  BY <1>1, <1>3, <1>4, <1>5 DEF OpInv, Leads
<1>7. to_check = {}
  BY <1>1, <1>2 DEF OpInv
<1>8. /\ <<kBaselineRuleId, f, "missing">> \in DevSet
      /\ <<kBaselineRuleId, f, "missing">>[2] = f /\ <<kBaselineRuleId, f, "missing">>[3] = "missing"
      /\ <<kBaselineRuleId, f, "perm">> \in DevSet
      /\ <<kBaselineRuleId, f, "perm">>[2] = f /\ <<kBaselineRuleId, f, "perm">>[3] = "perm"
  BY BaselineWatchAssumption, DevFacts DEF Aspects
<1>9. \/ e.kind = "unlink" /\ phase' = "report" /\ devs' = <<<<kBaselineRuleId, f, "missing">>>>
      \/ /\ e.kind = "chmod" /\ phase' = "report"
         /\ devs' = IF e.good THEN <<>> ELSE <<<<kBaselineRuleId, f, "perm">>>>
      \/ /\ e.kind \in {"write", "replace"} /\ phase' \in {"rule check", "debounce"}
         /\ devs' = <<>>
  <2>1. e.kind \in {"write", "chmod", "unlink", "replace"}
    BY RecordFacts
  <2>2. CASE e.kind = "unlink"
    BY <1>4, <1>6, <2>2 DEF TakeEvent, AttributeEvent
  <2>3. CASE e.kind = "chmod"
    BY <1>4, <1>6, <2>3 DEF TakeEvent, AttributeEvent
  <2>4. CASE e.kind \in {"write", "replace"}
    BY <1>4, <1>6, <2>4 DEF TakeEvent, ContentEvent
  <2> QED
    BY <2>1, <2>2, <2>3, <2>4
<1>10. devs' \in Seq(DevSet)
  BY <1>8, <1>9, ToSetShort
<1>11. WatchType'
  BY <1>1, <1>2, <1>3, <1>9, <1>10 DEF WatchType, Busy
<1>12. InodeInv'
  BY <1>1, <1>2, InodesKept
<1>13. OpInv'
  <2>1. phase' = "rule check" => f \in DOMAIN YamlRule
    BY <1>4, <1>6 DEF TakeEvent, AttributeEvent, ContentEvent
  <2> QED
    BY <1>1, <1>2, <1>3, <1>4, <1>5, <1>6, <1>7, <1>9, <2>1 DEF OpInv, Leads
<1>14. StampInv'
  BY <1>1, <1>2, StampsKept
<1>15. ASSUME NEW g \in Files, NEW a, Pending(g, a) PROVE Pending(g, a)'
  <2>1. PICK o \in ToSet(queue) : o.file = g /\ Sees(o, a)
    BY <1>2, <1>7, <1>15 DEF Pending
  <2>2. CASE o \in ToSet(queue')
    BY <2>1, <2>2 DEF Pending
  <2>3. CASE o = e
    <3>1. g = f /\ Sees(e, a)
      BY <1>5, <2>1, <2>3
    <3>2. CASE e.kind = "unlink"
      <4>1. a = "missing" /\ devs' = <<<<kBaselineRuleId, f, "missing">>>> /\ phase' = "report"
        BY <1>9, <3>1, <3>2 DEF Sees
      <4>2. <<kBaselineRuleId, f, "missing">> \in ToSet(devs')
        BY <1>8, <4>1, ToSetShort
      <4> QED
        BY <1>8, <3>1, <4>1, <4>2 DEF Pending
    <3>3. CASE e.kind = "chmod"
      <4>1. a = "perm" /\ devs' = <<<<kBaselineRuleId, f, "perm">>>> /\ phase' = "report"
        BY <1>9, <3>1, <3>3 DEF Sees
      <4>2. <<kBaselineRuleId, f, "perm">> \in ToSet(devs')
        BY <1>8, <4>1, ToSetShort
      <4> QED
        BY <1>8, <3>1, <4>1, <4>2 DEF Pending
    <3>4. CASE phase' \in {"rule check", "debounce"}
      <4>1. inode_to_baseline'[event'.ino] = g
        BY <1>2, <1>4, <1>6, <3>1
      <4> QED
        BY <3>4, <4>1 DEF Pending
    <3> QED
      BY <1>9, <3>2, <3>3, <3>4
  <2> QED
    BY <1>3, <1>4, <2>1, <2>2, <2>3
<1>16. SilenceInv'
  BY <1>1, <1>2, <1>15, SilenceKept
<1> QED
  BY <1>11, <1>12, <1>13, <1>14, <1>16 DEF WatchInv

LEMMA RuleCheckKeeps == WatchInv /\ now' = now /\ RuleCheck => WatchInv'
<1> SUFFICES ASSUME WatchInv, now' = now, RuleCheck PROVE WatchInv'
  OBVIOUS
<1>1. WatchType /\ InodeInv /\ OpInv /\ StampInv /\ SilenceInv
  BY DEF WatchInv
<1>2. /\ phase = "rule check" /\ phase' = "debounce"
      /\ UNCHANGED <<disk, next_ino, in_flight, ops, inode_to_baseline, monitor_actions,
                     last_baseline_check, compared, event, to_check, st, devs, heard, blind,
                     queue>>
  BY DEF RuleCheck, diskVars, memVars, cmpVars, ghosts
<1>3. WatchType'
  BY <1>1, <1>2 DEF WatchType, Busy
<1>4. InodeInv'
  BY <1>1, <1>2, InodesKept
<1>5. OpInv'
  BY <1>1, <1>2 DEF OpInv, Busy, Leads
<1>6. StampInv'
  BY <1>1, <1>2, StampsKept
<1>7. ASSUME NEW f \in Files, NEW a, Pending(f, a) PROVE Pending(f, a)'
  BY <1>2, <1>7 DEF Pending
<1>8. SilenceInv'
  BY <1>1, <1>2, <1>7, SilenceKept
<1> QED
  BY <1>3, <1>4, <1>5, <1>6, <1>8 DEF WatchInv

LEMMA StampFacts ==
  ASSUME WatchType, now \in Nat
  PROVE  /\ \A i \in DOMAIN last_baseline_check :
              /\ last_baseline_check[i] \in 0..now /\ last_baseline_check[i] \in Nat
              /\ last_baseline_check[i] <= now
         /\ \A i \in DOMAIN compared :
              compared[i] \in 0..now /\ compared[i] \in Nat /\ compared[i] <= now
<1>1. \A t \in 0..now : t \in Nat /\ t <= now
  OBVIOUS
<1>2. /\ \A i \in DOMAIN last_baseline_check : last_baseline_check[i] \in 0..now
      /\ \A i \in DOMAIN compared : compared[i] \in 0..now
  BY DEF WatchType
<1> QED
  BY <1>1, <1>2

(* A skipped event was preceded by a comparison: the stamp it met is that   *)
(* of one, and no older.                                                   *)
LEMMA DebounceKeeps == WatchInv /\ now \in Nat /\ now' = now /\ DebounceEvent => WatchInv'
<1> SUFFICES ASSUME WatchInv, now \in Nat, now' = now, DebounceEvent PROVE WatchInv'
  OBVIOUS
<1>1. WatchType /\ InodeInv /\ OpInv /\ StampInv /\ SilenceInv
  BY DEF WatchInv
<1>2. /\ phase = "debounce"
      /\ UNCHANGED <<disk, next_ino, in_flight, ops, inode_to_baseline, monitor_actions,
                     compared, to_check, st, devs, heard, queue>>
  BY DEF DebounceEvent, diskVars
<1>3. to_check = {} /\ event.ino \in DOMAIN inode_to_baseline
  BY <1>1, <1>2 DEF OpInv, Busy
<1>4. CASE CheckedLately(event.ino)
  <2>1. /\ phase' = "idle" /\ event' = NoOp /\ last_baseline_check' = last_baseline_check
        /\ blind' = IF event.ino \in DOMAIN compared /\ now - compared[event.ino] < Debounce
                      THEN blind \union (Deviating(inode_to_baseline[event.ino]) \ heard)
                      ELSE blind
    BY <1>4 DEF DebounceEvent
  <2>2. event.ino \in DOMAIN compared /\ now - compared[event.ino] < Debounce
    <3>1. /\ event.ino \in DOMAIN last_baseline_check
          /\ now - last_baseline_check[event.ino] < Debounce
      BY <1>4 DEF CheckedLately
    <3>2. /\ event.ino \in DOMAIN compared
          /\ last_baseline_check[event.ino] <= compared[event.ino]
      BY <1>1, <1>2, <3>1 DEF StampInv
    <3>3. last_baseline_check[event.ino] \in Nat /\ compared[event.ino] \in Nat
      BY <1>1, <3>1, <3>2, StampFacts
    <3>4. Debounce \in Nat
      BY BaselineWatchAssumption
    <3> QED
      BY <3>1, <3>2, <3>3, <3>4
  <2>3. blind' = blind \union (Deviating(inode_to_baseline[event.ino]) \ heard)
    BY <2>1, <2>2
  <2>4. WatchType'
    BY <1>1, <1>2, <2>1 DEF WatchType, Busy
  <2>5. InodeInv'
    BY <1>1, <1>2, InodesKept
  <2>6. OpInv'
    BY <1>1, <1>2, <1>3, <2>1 DEF OpInv, Busy, Leads
  <2>7. StampInv'
    BY <1>1, <1>2, <2>1, StampsKept
  <2>8. ASSUME NEW f \in Files, NEW a \in Deviations(disk[f]), Pending(f, a)
        PROVE  <<f, a>> \in heard' \union blind' \/ Pending(f, a)'
    <3>1. CASE inode_to_baseline[event.ino] = f
      <4>1. <<f, a>> \in Deviating(f)
        BY DEF Deviating
      <4> QED
        BY <1>2, <2>3, <3>1, <4>1
    <3>2. CASE inode_to_baseline[event.ino] # f
      BY <1>2, <1>3, <2>8, <3>2 DEF Pending
    <3> QED
      BY <3>1, <3>2
  <2>9. SilenceInv'
    BY <1>1, <1>2, <2>3, <2>8, SilenceKept
  <2> QED
    BY <2>4, <2>5, <2>6, <2>7, <2>9 DEF WatchInv
<1>5. CASE ~CheckedLately(event.ino)
  <2>1. /\ phase' = "lstat" /\ event' = event /\ blind' = blind
        /\ last_baseline_check' =
             [i \in DOMAIN last_baseline_check \union {event.ino} |->
                IF i = event.ino THEN now ELSE last_baseline_check[i]]
    BY <1>5 DEF DebounceEvent
  <2>2. \A i \in DOMAIN last_baseline_check' :
           \/ i = event.ino /\ last_baseline_check'[i] = now
           \/ /\ i # event.ino /\ i \in DOMAIN last_baseline_check
              /\ last_baseline_check'[i] = last_baseline_check[i]
    BY <2>1
  <2>3. WatchType'
    <3>1. \A i \in DOMAIN last_baseline_check' : last_baseline_check'[i] \in 0..now
      BY <1>1, <2>2, StampFacts
    <3> QED
      BY <1>1, <1>2, <2>1, <3>1 DEF WatchType, Busy
  <2>4. InodeInv'
    BY <1>1, <1>2, InodesKept
  <2>5. OpInv'
    BY <1>1, <1>2, <1>3, <2>1 DEF OpInv, Busy, Leads
  <2>6. StampInv'
    BY <1>1, <1>2, <2>1, <2>2 DEF StampInv
  <2>7. ASSUME NEW f \in Files, NEW a, Pending(f, a) PROVE Pending(f, a)'
    BY <1>2, <2>1, <2>7 DEF Pending
  <2>8. SilenceInv'
    BY <1>1, <1>2, <2>1, <2>7, SilenceKept
  <2> QED
    BY <2>3, <2>4, <2>5, <2>6, <2>8 DEF WatchInv
<1> QED
  BY <1>4, <1>5

LEMMA RuleOfDeviation == DeviationRule \in RuleIds
  BY BaselineWatchAssumption DEF DeviationRule

LEMMA StatKeeps == WatchInv /\ now \in Nat /\ now' = now /\ CompareStat => WatchInv'
<1> SUFFICES ASSUME WatchInv, now \in Nat, now' = now, CompareStat PROVE WatchInv'
  OBVIOUS
<1>1. WatchType /\ InodeInv /\ OpInv /\ StampInv /\ SilenceInv
  BY DEF WatchInv
<1>2. /\ phase = "lstat" /\ event.ino \in DOMAIN inode_to_baseline
      /\ UNCHANGED <<disk, next_ino, in_flight, ops, inode_to_baseline, monitor_actions,
                     last_baseline_check, event, to_check, heard, blind, queue>>
  BY <1>1 DEF CompareStat, diskVars, ghosts, OpInv, Busy
<1>3. PICK f \in Files : inode_to_baseline[event.ino] = f
  BY <1>1, <1>2 DEF InodeInv
<1>4. PICK r \in RuleIds : DeviationRule = r
  BY RuleOfDeviation
<1>5. /\ st' = disk[f]
      /\ IF disk[f] = Gone
           THEN devs' = <<<<r, f, "missing">>>> /\ phase' = "report"
           ELSE devs' = devs /\ phase' = "hash"
      /\ compared' = [i \in DOMAIN compared \union {event.ino} |->
                        IF i = event.ino THEN now ELSE compared[i]]
  BY <1>3, <1>4 DEF CompareStat
<1>6. /\ <<r, f, "missing">> \in DevSet /\ <<r, f, "missing">>[2] = f
      /\ <<r, f, "missing">>[3] = "missing"
  BY DevFacts DEF Aspects
<1>7. devs' \in Seq(DevSet) /\ (disk[f] = Gone => <<r, f, "missing">> \in ToSet(devs'))
  <2>1. CASE disk[f] = Gone
    <3>1. devs' = <<<<r, f, "missing">>>>
      BY <1>5, <2>1
    <3> QED
      BY <1>6, <3>1, ToSetShort
  <2>2. CASE disk[f] # Gone
    <3>1. devs' = devs
      BY <1>5, <2>2
    <3> QED
      BY <1>1, <2>2, <3>1 DEF WatchType
  <2> QED
    BY <2>1, <2>2
<1>8. \A i \in DOMAIN compared' :
        \/ i = event.ino /\ compared'[i] = now
        \/ i # event.ino /\ i \in DOMAIN compared /\ compared'[i] = compared[i]
  BY <1>5
<1>9. WatchType'
  <2>1. \A i \in DOMAIN compared' : compared'[i] \in 0..now
    BY <1>1, <1>8, StampFacts
  <2>2. st' \in FileData
    BY <1>1, <1>5 DEF WatchType
  <2>3. phase' \in Busy
    BY <1>5 DEF Busy
  <2>4. phase \in Busy
    BY <1>2 DEF Busy
  <2> QED
    BY <1>1, <1>2, <1>7, <2>1, <2>2, <2>3, <2>4 DEF WatchType
<1>10. InodeInv'
  BY <1>1, <1>2, InodesKept
<1>11. OpInv'
  BY <1>1, <1>2, <1>5 DEF OpInv, Busy, Leads
<1>12. StampInv'
  <2> SUFFICES ASSUME NEW i \in DOMAIN last_baseline_check
               PROVE  i \in DOMAIN compared' /\ last_baseline_check[i] <= compared'[i]
    BY <1>2 DEF StampInv
  <2>1. CASE i = event.ino
    <3>1. i \in DOMAIN compared' /\ compared'[i] = now
      BY <1>5, <2>1
    <3> QED
      BY <1>1, <3>1, StampFacts
  <2>2. CASE i # event.ino
    <3>1. i \in DOMAIN compared /\ last_baseline_check[i] <= compared[i]
      BY <1>1, <2>2 DEF StampInv
    <3>2. i \in DOMAIN compared' /\ compared'[i] = compared[i]
      BY <1>5, <2>2, <3>1
    <3> QED
      BY <3>1, <3>2
  <2> QED
    BY <2>1, <2>2
<1>13. ASSUME NEW g \in Files, NEW a \in Deviations(disk[g]), Pending(g, a) PROVE Pending(g, a)'
  <2>1. CASE g = f
    <3>1. CASE disk[f] = Gone
      <4>1. a = "missing"
        BY <1>13, <2>1, <3>1, DeviationFacts
      <4> QED
        BY <1>5, <1>6, <1>7, <2>1, <3>1, <4>1 DEF Pending
    <3>2. CASE disk[f] # Gone
      <4>1. a = "perm" => ~st'.perm
        BY <1>5, <1>13, <2>1, <3>2, DeviationFacts
      <4>2. phase' = "hash" /\ inode_to_baseline'[event'.ino] = g
        BY <1>2, <1>3, <1>5, <2>1, <3>2
      <4> QED
        BY <4>1, <4>2 DEF Pending
    <3> QED
      BY <3>1, <3>2
  <2>2. CASE g # f
    BY <1>2, <1>3, <1>13, <2>2 DEF Pending
  <2> QED
    BY <2>1, <2>2
<1>14. SilenceInv'
  BY <1>1, <1>2, <1>13, SilenceKept
<1> QED
  BY <1>9, <1>10, <1>11, <1>12, <1>14 DEF WatchInv

(* What the two looks at a file bring to light.                            *)
LEMMA HashDeviationFacts ==
  ASSUME WatchType, NEW f \in Files, NEW r \in RuleIds, DeviationRule = r
  PROVE  /\ HashDeviations(f) \in Seq(DevSet)
         /\ \A a \in Deviations(disk[f]) : (a = "perm" => ~st.perm) =>
              \E d \in ToSet(HashDeviations(f)) : d[2] = f /\ d[3] = a
<1> DEFINE found(bad, aspect) == IF bad THEN <<<<r, f, aspect>>>> ELSE <<>>
<1>1. disk[f] \in FileData /\ disk[f].hash \in BOOLEAN /\ st.perm \in BOOLEAN
  BY RecordFacts DEF WatchType
<1>2. HashDeviations(f) =
        IF disk[f] = Gone THEN found(TRUE, "missing")
        ELSE found(~disk[f].hash, "hash") \o found(~st.perm, "perm")
  BY DEF HashDeviations
<1>3. ASSUME NEW bad \in BOOLEAN, NEW a \in Aspects
      PROVE  /\ found(bad, a) \in Seq(DevSet)
             /\ bad => \E d \in ToSet(found(bad, a)) : d[2] = f /\ d[3] = a
  <2>1. <<r, f, a>> \in DevSet /\ <<r, f, a>>[2] = f /\ <<r, f, a>>[3] = a
    BY DevFacts
  <2>2. CASE bad
    <3>1. found(bad, a) = <<<<r, f, a>>>>
      BY <2>2
    <3>2. <<<<r, f, a>>>> \in Seq(DevSet) /\ <<r, f, a>> \in ToSet(<<<<r, f, a>>>>)
      BY <2>1, ToSetShort
    <3> QED
      BY <2>1, <3>1, <3>2
  <2>3. CASE ~bad
    BY <2>3, ToSetShort
  <2> QED
    BY <2>2, <2>3
<1> HIDE DEF found
<1>4. CASE disk[f] = Gone
  <2>1. HashDeviations(f) = found(TRUE, "missing") /\ "missing" \in Aspects
    BY <1>2, <1>4 DEF Aspects
  <2>2. \A a \in Deviations(disk[f]) : a = "missing"
    BY <1>4, DeviationFacts
  <2>3. /\ found(TRUE, "missing") \in Seq(DevSet)
        /\ \E d \in ToSet(found(TRUE, "missing")) : d[2] = f /\ d[3] = "missing"
    BY <1>3, <2>1
  <2> QED
    BY <2>1, <2>2, <2>3
<1>5. CASE disk[f] # Gone
  <2> DEFINE h == found(~disk[f].hash, "hash")
             p == found(~st.perm, "perm")
  <2>1. HashDeviations(f) = h \o p /\ "hash" \in Aspects /\ "perm" \in Aspects
    BY <1>2, <1>5 DEF Aspects
  <2>2. (~disk[f].hash) \in BOOLEAN /\ (~st.perm) \in BOOLEAN
    BY <1>1
  <2>3. /\ h \in Seq(DevSet)
        /\ ~disk[f].hash => \E d \in ToSet(h) : d[2] = f /\ d[3] = "hash"
    BY <1>3, <2>1, <2>2
  <2>4. /\ p \in Seq(DevSet)
        /\ ~st.perm => \E d \in ToSet(p) : d[2] = f /\ d[3] = "perm"
    BY <1>3, <2>1, <2>2
  <2> HIDE DEF h, p
  <2>5. h \o p \in Seq(DevSet) /\ ToSet(h \o p) = ToSet(h) \union ToSet(p)
    BY <2>3, <2>4, ToSetFacts
  <2>6. \A a \in Deviations(disk[f]) : (a = "hash" /\ ~disk[f].hash) \/ a = "perm"
    BY <1>5, DeviationFacts
  <2> QED
    BY <2>1, <2>3, <2>4, <2>5, <2>6
<1> QED
  BY <1>4, <1>5

LEMMA HashKeeps == WatchInv /\ now' = now /\ CompareHash => WatchInv'
<1> SUFFICES ASSUME WatchInv, now' = now, CompareHash PROVE WatchInv'
  OBVIOUS
<1>1. WatchType /\ InodeInv /\ OpInv /\ StampInv /\ SilenceInv
  BY DEF WatchInv
<1>2. /\ phase = "hash" /\ phase' = "report" /\ event.ino \in DOMAIN inode_to_baseline
      /\ UNCHANGED <<disk, next_ino, in_flight, ops, inode_to_baseline, monitor_actions,
                     last_baseline_check, compared, event, to_check, st, heard, blind, queue>>
  BY <1>1 DEF CompareHash, diskVars, memVars, ghosts, OpInv, Busy
<1>3. PICK f \in Files : inode_to_baseline[event.ino] = f
  BY <1>1, <1>2 DEF InodeInv
<1>4. PICK r \in RuleIds : DeviationRule = r
  BY RuleOfDeviation
<1>5. devs' = HashDeviations(f)
  BY <1>3 DEF CompareHash
<1>6. /\ devs' \in Seq(DevSet)
      /\ \A a \in Deviations(disk[f]) : (a = "perm" => ~st.perm) =>
           \E d \in ToSet(devs') : d[2] = f /\ d[3] = a
  BY <1>1, <1>4, <1>5, HashDeviationFacts
<1>7. WatchType'
  BY <1>1, <1>2, <1>6 DEF WatchType, Busy
<1>8. InodeInv'
  BY <1>1, <1>2, InodesKept
<1>9. OpInv'
  BY <1>1, <1>2 DEF OpInv, Busy, Leads
<1>10. StampInv'
  BY <1>1, <1>2, StampsKept
<1>11. ASSUME NEW g \in Files, NEW a \in Deviations(disk[g]), Pending(g, a) PROVE Pending(g, a)'
  <2>1. CASE g = f /\ (a = "perm" => ~st.perm)
    BY <1>2, <1>6, <1>11, <2>1 DEF Pending
  <2>2. CASE ~(g = f /\ (a = "perm" => ~st.perm))
    BY <1>2, <1>3, <1>11, <2>2 DEF Pending
  <2> QED
    BY <2>1, <2>2
<1>12. SilenceInv'
  BY <1>1, <1>2, <1>11, SilenceKept
<1> QED
  BY <1>7, <1>8, <1>9, <1>10, <1>12 DEF WatchInv

LEMMA HandleKeeps == WatchInv /\ now' = now /\ HandleDeviation => WatchInv'
<1> SUFFICES ASSUME WatchInv, now' = now, HandleDeviation PROVE WatchInv'
  OBVIOUS
<1>1. WatchType /\ InodeInv /\ OpInv /\ StampInv /\ SilenceInv
  BY DEF WatchInv
<1>2. /\ phase = "report" /\ devs # <<>> /\ devs' = Tail(devs)
      /\ UNCHANGED <<disk, next_ino, in_flight, ops, inode_to_baseline, monitor_actions, phase,
                     last_baseline_check, compared, event, to_check, st, blind, queue>>
  BY DEF HandleDeviation, diskVars, memVars
<1>3. /\ Head(devs) \in DevSet /\ devs' \in Seq(DevSet)
      /\ ToSet(devs) = {Head(devs)} \union ToSet(devs')
  BY <1>1, <1>2, ToSetFacts DEF WatchType
<1>4. PICK d \in DevSet : Head(devs) = d
  BY <1>3
<1>5. Tail(d) = <<d[2], d[3]>> /\ d[2] \in Files
  BY DevFacts
<1>6. heard \subseteq heard' /\ (<<d[2], d[3]>> \in Deviating(d[2]) => <<d[2], d[3]>> \in heard')
  <2>1. heard' = IF Tail(d) \in Deviating(Tail(d)[1]) \/ event = in_flight
                   THEN heard \union {Tail(d)} ELSE heard
    BY <1>4 DEF HandleDeviation
  <2>2. Tail(d)[1] = d[2]
    BY <1>5
  <2>3. CASE heard' = heard \union {Tail(d)}
    BY <1>5, <2>3
  <2>4. CASE heard' # heard \union {Tail(d)}
    <3>1. heard' = heard /\ Tail(d) \notin Deviating(Tail(d)[1])
      BY <2>1, <2>4
    <3>2. Tail(d) \notin Deviating(d[2])
      BY <2>2, <3>1
    <3> QED
      BY <1>5, <3>1, <3>2
  <2> QED
    BY <2>3, <2>4
<1>7. WatchType'
  BY <1>1, <1>2, <1>3 DEF WatchType, Busy
<1>8. InodeInv'
  BY <1>1, <1>2, InodesKept
<1>9. OpInv'
  BY <1>1, <1>2 DEF OpInv, Busy, Leads
<1>10. StampInv'
  BY <1>1, <1>2, StampsKept
<1>11. ASSUME NEW f \in Files, NEW a \in Deviations(disk[f]), Pending(f, a)
       PROVE  <<f, a>> \in heard' \union blind' \/ Pending(f, a)'
  <2>1. CASE d[2] = f /\ d[3] = a
    <3>1. <<f, a>> \in Deviating(f)
      BY DEF Deviating
    <3> QED
      BY <1>6, <2>1, <3>1
  <2>2. CASE ~(d[2] = f /\ d[3] = a)
    BY <1>2, <1>3, <1>4, <1>11, <2>2 DEF Pending
  <2> QED
    BY <2>1, <2>2
<1>12. SilenceInv'
  BY <1>1, <1>2, <1>6, <1>11, SilenceKept
<1> QED
  BY <1>7, <1>8, <1>9, <1>10, <1>12 DEF WatchInv

LEMMA DoneKeeps == WatchInv /\ now' = now /\ ReportsDone => WatchInv'
<1> SUFFICES ASSUME WatchInv, now' = now, ReportsDone PROVE WatchInv'
  OBVIOUS
<1>1. WatchType /\ InodeInv /\ OpInv /\ StampInv /\ SilenceInv
  BY DEF WatchInv
<1>2. /\ phase = "report" /\ devs = <<>>
      /\ phase' = IF event.kind = "boot" THEN "boot check" ELSE "idle"
      /\ UNCHANGED <<disk, next_ino, in_flight, ops, inode_to_baseline, monitor_actions, devs,
                     last_baseline_check, compared, to_check, st, heard, blind, queue>>
  BY DEF ReportsDone, diskVars, memVars, ghosts
<1>3. WatchType'
  BY <1>1, <1>2 DEF WatchType, Busy
<1>4. InodeInv'
  BY <1>1, <1>2, InodesKept
<1>5. OpInv'
  BY <1>1, <1>2 DEF OpInv, Busy, Leads
<1>6. StampInv'
  BY <1>1, <1>2, StampsKept
<1>7. ToSet(devs) = {}
  BY <1>2, ToSetShort
<1>8. ASSUME NEW f \in Files, NEW a, Pending(f, a) PROVE Pending(f, a)'
  BY <1>2, <1>7, <1>8 DEF Pending
<1>9. SilenceInv'
  BY <1>1, <1>2, <1>8, SilenceKept
<1> QED
  BY <1>3, <1>4, <1>5, <1>6, <1>9 DEF WatchInv

LEMMA TimeKeeps ==
  ASSUME WatchInv, now \in Nat, now' \in Nat, now <= now',
         UNCHANGED <<diskVars, memVars, cmpVars, ghosts, queue, restarts, phase>>
  PROVE  WatchInv'
<1>1. WatchType /\ InodeInv /\ OpInv /\ StampInv /\ SilenceInv
  BY DEF WatchInv
<1>2. UNCHANGED <<disk, next_ino, in_flight, ops, inode_to_baseline, monitor_actions, devs, event,
                  last_baseline_check, compared, to_check, st, heard, blind, queue, phase>>
  BY DEF diskVars, memVars, cmpVars, ghosts
<1>3. WatchType'
  <2>1. \A t \in 0..now : t \in 0..now'
    OBVIOUS
  <2> QED
    BY <1>1, <1>2, <2>1 DEF WatchType, Busy
<1>4. InodeInv'
  BY <1>1, <1>2, InodesKept
<1>5. OpInv'
  BY <1>1, <1>2 DEF OpInv, Busy, Leads
<1>6. StampInv'
  BY <1>1, <1>2, StampsKept
<1>7. SilenceInv'
  BY <1>1, <1>2 DEF SilenceInv, Explained, Pending
<1> QED
  BY <1>3, <1>4, <1>5, <1>6, <1>7 DEF WatchInv

LEMMA RestartKeeps == WatchInv /\ Restart => WatchInv'
<1> SUFFICES ASSUME WatchInv, Restart PROVE WatchInv'
  OBVIOUS
<1>1. WatchType /\ InodeInv /\ OpInv
  BY DEF WatchInv
<1>2. /\ phase' = "load" /\ queue' = <<>> /\ devs' = <<>> /\ to_check' = {} /\ st' = Gone
      /\ DOMAIN inode_to_baseline' = {} /\ DOMAIN monitor_actions' = {}
      /\ DOMAIN last_baseline_check' = {} /\ DOMAIN compared' = {}
      /\ UNCHANGED <<disk, next_ino, in_flight, ops>>
  BY DEF Restart, Nowhere, diskVars
<1>3. WatchType'
  BY <1>1, <1>2, RecordFacts, ToSetShort DEF WatchType, Busy
<1>4. InodeInv'
  BY <1>1, <1>2 DEF InodeInv
<1>5. OpInv' /\ StampInv' /\ SilenceInv'
  BY <1>1, <1>2, ToSetShort DEF OpInv, StampInv, SilenceInv, Busy
<1> QED
  BY <1>3, <1>4, <1>5 DEF WatchInv

(* The throttle of AlertManager under the watch's steps.                   *)
LEMMA WatchStepAlerts ==
  ASSUME IInv, WatchInv, [Next]_vars
  PROVE  IInv' /\ (~Time => now' = now)
<1>1. CASE UNCHANGED alertVars
  BY <1>1, AlertsUnchanged
<1>2. CASE TakeEvent /\ ~UNCHANGED alertVars
  <2>1. PICK f \in DOMAIN YamlRule : ReportUnlessThrottled(YamlRule[f].id)
    BY <1>2 DEF TakeEvent, AttributeEvent, ContentEvent
  <2> QED
    BY <2>1, RuleOfFile, ReportKeeps
<1>3. CASE RuleCheck /\ ~UNCHANGED alertVars
  <2>1. /\ Report(YamlRule[inode_to_baseline[event.ino]].id)
        /\ inode_to_baseline[event.ino] \in DOMAIN YamlRule
    BY <1>3 DEF RuleCheck, WatchInv, OpInv
  <2> QED
    BY <2>1, RuleOfFile, ReportKeeps
<1>4. CASE HandleDeviation
  <2>1. Head(devs) \in DevSet
    BY <1>4, ToSetFacts DEF HandleDeviation, WatchInv, WatchType
  <2>2. Head(devs)[1] \in RuleIds /\ Report(Head(devs)[1])
    BY <1>4, <2>1, DevFacts DEF HandleDeviation
  <2> QED
    BY <2>2, ReportKeeps
<1>5. CASE Time
  BY <1>5, StepIInv DEF Time, AlertManagerNext
<1>6. CASE Restart
  <2>1. now' = now /\ AlertManagerRestart
    BY <1>6 DEF Restart, AlertManagerRestart
  <2> QED
    BY <2>1, StepIInv DEF AlertManagerNext
<1> QED
  BY <1>1, <1>2, <1>3, <1>4, <1>5, <1>6
     DEF Next, Monitor, LoadBaseline, BootCheckNext, FillMonitorActions, DebounceEvent,
         CompareStat, CompareHash, ReportsDone, HookOp, LandOp, vars

LEMMA WatchStep == IInv /\ WatchInv /\ [Next]_vars => IInv' /\ WatchInv'
<1> SUFFICES ASSUME IInv, WatchInv, [Next]_vars PROVE IInv' /\ WatchInv'
  OBVIOUS
<1>1. IInv' /\ now \in Nat /\ now' \in Nat /\ (~Time => now' = now)
  BY WatchStepAlerts DEF IInv, CounterType
<1>2. CASE Time
  <2>1. now' = now + 1 /\ UNCHANGED <<diskVars, memVars, cmpVars, ghosts, queue, restarts, phase>>
    BY <1>2 DEF Time, Tick
  <2> QED
    BY <1>1, <2>1, TimeKeeps
<1>3. CASE UNCHANGED vars
  BY <1>1, <1>3, TimeKeeps DEF vars, alertVars
<1>4. CASE Monitor /\ ~Time
  BY <1>1, <1>4, LoadKeeps, BootNextKeeps, FillKeeps, TakeKeeps, RuleCheckKeeps, DebounceKeeps,
     StatKeeps, HashKeeps, HandleKeeps, DoneKeeps DEF Monitor
<1>5. CASE (HookOp \/ LandOp) /\ ~Time
  BY <1>1, <1>5, HookKeeps, LandKeeps
<1>6. CASE Restart
  BY <1>1, <1>6, RestartKeeps
<1> QED
  BY <1>2, <1>3, <1>4, <1>5, <1>6 DEF Next

LEMMA WatchHolds == Spec => [](IInv /\ WatchInv)
<1>1. Init => IInv /\ WatchInv
  BY InitIInv, InitWatch DEF Init
<1> QED
  BY <1>1, WatchStep, PTL DEF Spec

(* SilenceIsExplained: for every set of files, every YAML rule on them,     *)
(* every debounce window and any number of operations and restarts, an idle *)
(* monitor has reported (or throttled) every deviation it had a way to see. *)
THEOREM SilenceExplained == Spec => []SilenceIsExplained
<1>1. WatchInv => SilenceIsExplained
  <2> SUFFICES ASSUME WatchInv, phase = "idle", queue = <<>>,
                      NEW f \in Files, NEW a \in Deviations(disk[f])
               PROVE  <<f, a>> \in heard \union blind
    BY DEF SilenceIsExplained, Deviating
  <2>1. to_check = {} /\ ToSet(queue) = {}
    BY ToSetShort DEF WatchInv, OpInv
  <2>2. ~Pending(f, a)
    BY <2>1 DEF Pending
  <2> QED
    BY <2>2 DEF WatchInv, SilenceInv, Explained
<1> QED
  BY <1>1, WatchHolds, PTL

(* EveryAlertAccounted and ThrottleIsHonest as the watch uses the manager:  *)
(* its alerts too end once each, and are held back only within the window.  *)
THEOREM WatchAlertsHonest == Spec => [](EveryAlertAccounted /\ ThrottleIsHonest)
<1>1. IInv => EveryAlertAccounted /\ ThrottleIsHonest
  BY HonestByInvariant DEF IInv
<1> QED
  BY <1>1, WatchHolds, PTL

(* a set of numbers it can be proved once and cited.                       *)

-----------------------------------------------------------------------------
(* Induction over a set of numbers, and functions defined by their first   *)
(* value and a step: what the recursive function of FlushWindows needs.    *)

LEMMA LeastNat ==
  ASSUME NEW T \in SUBSET Nat, T # {}
  PROVE  \E n \in T : \A m \in T : n <= m
<1> DEFINE R == OpToRel(<, Nat)
<1>1. IsWellFoundedOn(R, Nat)
  BY NatLessThanWellFounded, Zenon
<1>2. PICK n \in T : \A m \in T : <<m, n>> \notin R
  <2> HIDE DEF R
  <2> QED
    BY <1>1, WFMin, Zenon
<1>3. \A m \in T : ~(m < n)
  BY <1>2 DEF OpToRel
<1> QED
  BY <1>3

LEMMA Induct ==
  ASSUME NEW T, 0 \in T, \A n \in Nat : n \in T => n + 1 \in T
  PROVE  Nat \subseteq T
<1> SUFFICES ASSUME Nat \ T # {} PROVE FALSE
  OBVIOUS
<1>1. PICK n \in Nat \ T : \A m \in Nat \ T : n <= m
  BY LeastNat
<1>2. n - 1 \in Nat /\ n - 1 \in T /\ n = (n - 1) + 1
  BY <1>1
<1> QED
  BY <1>2

(* A function may be defined by its first value and a step.                *)
IsRecursive(g, b, moves, n) ==
  g = [i \in 0..n |-> IF i = 0 THEN b ELSE moves[i][g[i - 1]]]

LEMMA Recursion ==
  ASSUME NEW D, NEW b \in D, NEW moves \in [Nat -> [D -> D]], NEW n \in Nat
  PROVE  \E g \in [0..n -> D] : IsRecursive(g, b, moves, n)
<1> DEFINE Def(g, m) == IsRecursive(g, b, moves, m)
           T == {m \in Nat : \E g \in [0..m -> D] : Def(g, m)}
<1>1. 0 \in T
  <2> DEFINE g == [i \in 0..0 |-> b]
  <2>1. g \in [0..0 -> D] /\ Def(g, 0)
    BY DEF IsRecursive
  <2> QED
    BY <2>1
<1>2. ASSUME NEW m \in Nat, m \in T PROVE m + 1 \in T
  <2>1. PICK g \in [0..m -> D] : Def(g, m)
    BY <1>2
  <2> DEFINE h == [i \in 0..(m + 1) |-> IF i = m + 1 THEN moves[m + 1][g[m]] ELSE g[i]]
  <2>2. h \in [0..(m + 1) -> D]
    BY <1>2
  <2>3. ASSUME NEW i \in 0..(m + 1)
        PROVE  h[i] = IF i = 0 THEN b ELSE moves[i][h[i - 1]]
    <3>1. CASE i = m + 1
      <4>1. h[m] = g[m] /\ m + 1 # 0 /\ (m + 1) - 1 = m
        BY <1>2
      <4> QED
        BY <3>1, <4>1
    <3>2. CASE i \in 0..m
      <4>1. i # m + 1 /\ h[i] = g[i] /\ (i # 0 => i - 1 \in 0..m /\ i - 1 # m + 1)
        BY <1>2, <3>2
      <4>2. g[i] = IF i = 0 THEN b ELSE moves[i][g[i - 1]]
        BY <2>1, <3>2 DEF IsRecursive
      <4>3. i # 0 => h[i - 1] = g[i - 1]
        BY <4>1
      <4> QED
        BY <4>1, <4>2, <4>3
    <3> QED
      BY <3>1, <3>2
  <2>4. Def(h, m + 1)
    BY <2>2, <2>3 DEF IsRecursive
  <2>5. m + 1 \in Nat
    OBVIOUS
  <2> HIDE DEF h, Def
  <2> QED
    BY <2>2, <2>4, <2>5
<1> HIDE DEF T
<1>3. n \in T
  BY <1>1, <1>2, Induct
<1> QED
  BY <1>3 DEF T

-----------------------------------------------------------------------------
(* The dispatcher: its maps, and the way into its queue.                   *)

Stamps == [Keys -> {NoTime} \union Nat]
OutType == [queue : Seq(Keys), last : Stamps,
            suppressed : Nat, dropped : Nat, digests : Nat, digested : Nat]

Fits(f, absent) ==
  IsFiniteSet(Entries(f, absent)) /\ Cardinality(Entries(f, absent)) <= MaxWindows

(* out as the dispatcher keeps it: the queue and the silence map limited.  *)
GoodOut(o) == o \in OutType /\ Len(o.queue) <= MaxQueue /\ Fits(o.last, NoTime)

(* The digests less what became of them on the way into the queue: an      *)
(* attempt lowers it by one, a digest with its attempt leaves it alone.    *)
Owed(o) == o.digests - o.suppressed - o.dropped - Len(o.queue)

LEMMA EntriesExcept ==
  ASSUME NEW f, NEW absent, NEW k \in DOMAIN f, NEW v, IsFiniteSet(Entries(f, absent))
  PROVE  IsFiniteSet(Entries([f EXCEPT ![k] = v], absent))
<1> DEFINE E == Entries(f, absent)
           G == Entries([f EXCEPT ![k] = v], absent)
<1>1. G \in SUBSET (E \union {k})
  BY DEF Entries
<1>2. IsFiniteSet(E \union {k})
  BY FS_AddElement, Zenon
<1> HIDE DEF E, G
<1>3. IsFiniteSet(G)
  BY <1>1, <1>2, FS_Subset, Zenon
<1> QED
  BY <1>3 DEF G

(* A map is never left beyond its limit.                                   *)
LEMMA BoundedFits ==
  ASSUME NEW f, NEW absent, NEW k \in DOMAIN f, IsFiniteSet(Entries(f, absent))
  PROVE  Fits(Bounded(f, k, absent), absent)
<1>0. MaxWindows \in Nat /\ MaxWindows >= 1
  BY DispatcherAssumption
<1>1. CASE Cardinality(Entries(f, absent)) <= MaxWindows
  BY <1>1 DEF Fits, Bounded
<1>2. CASE ~(Cardinality(Entries(f, absent)) <= MaxWindows)
  <2> DEFINE g == [j \in DOMAIN f |-> IF j = k THEN f[j] ELSE absent]
  <2>1. Bounded(f, k, absent) = g
    BY <1>2 DEF Bounded
  <2>2. Entries(g, absent) \in SUBSET {k}
    BY DEF Entries
  <2> HIDE DEF g
  <2>3. IsFiniteSet({k}) /\ Cardinality({k}) = 1
    BY FS_Singleton, Zenon
  <2>4. /\ IsFiniteSet(Entries(g, absent))
        /\ Cardinality(Entries(g, absent)) <= 1
        /\ Cardinality(Entries(g, absent)) \in Nat
    BY <2>2, <2>3, FS_Subset, FS_CardinalityType
  <2> QED
    BY <1>0, <2>1, <2>4 DEF Fits
<1> QED
  BY <1>1, <1>2

LEMMA BoundedValue ==
  ASSUME NEW f, NEW absent, NEW k \in DOMAIN f
  PROVE  /\ DOMAIN Bounded(f, k, absent) = DOMAIN f
         /\ Bounded(f, k, absent)[k] = f[k]
         /\ \A j \in DOMAIN f : Bounded(f, k, absent)[j] \in {f[j], absent}
<1>1. CASE Cardinality(Entries(f, absent)) <= MaxWindows
  BY <1>1 DEF Bounded
<1>2. CASE ~(Cardinality(Entries(f, absent)) <= MaxWindows)
  BY <1>2 DEF Bounded
<1> QED
  BY <1>1, <1>2

LEMMA BoundedType ==
  ASSUME NEW V, NEW f \in [Keys -> V], NEW absent \in V, NEW k \in Keys
  PROVE  Bounded(f, k, absent) \in [Keys -> V]
<1> QED
  BY DEF Bounded

LEMMA OutFields ==
  ASSUME NEW o \in OutType
  PROVE  /\ o.queue \in Seq(Keys) /\ o.last \in Stamps
         /\ o.suppressed \in Nat /\ o.dropped \in Nat
         /\ o.digests \in Nat /\ o.digested \in Nat /\ Len(o.queue) \in Nat
<1> QED
  BY DEF OutType

(* The stamp that a queued key leaves in the silence map.                  *)
LEMMA StampFits ==
  ASSUME NEW f \in Stamps, Fits(f, NoTime), NEW k \in Keys, clock \in Nat, NEW silence
  PROVE  LET g == IF silence > 0 THEN Bounded([f EXCEPT ![k] = clock], k, NoTime) ELSE f
         IN  g \in Stamps /\ Fits(g, NoTime)
<1>1. [f EXCEPT ![k] = clock] \in Stamps /\ DOMAIN f = Keys /\ DOMAIN [f EXCEPT ![k] = clock] = Keys
  BY DEF Stamps
<1>2. IsFiniteSet(Entries([f EXCEPT ![k] = clock], NoTime))
  BY <1>1, EntriesExcept DEF Fits
<1>3. Fits(Bounded([f EXCEPT ![k] = clock], k, NoTime), NoTime)
  BY <1>1, <1>2, BoundedFits
<1>4. Bounded([f EXCEPT ![k] = clock], k, NoTime) \in Stamps
  BY <1>1, BoundedType DEF Stamps
<1> QED
  BY <1>3, <1>4

LEMMA OwedType ==
  ASSUME NEW o, o.digests \in Nat, o.suppressed \in Nat, o.dropped \in Nat,
         Len(o.queue) \in Nat
  PROVE  Owed(o) \in Int
<1> QED
  BY DEF Owed

LEMMA OwedLess ==
  ASSUME NEW o, NEW e, o.digests \in Nat, o.suppressed \in Nat, o.dropped \in Nat,
         Len(o.queue) \in Nat, e.digests = o.digests,
         \/ e.suppressed = o.suppressed + 1 /\ e.dropped = o.dropped /\ e.queue = o.queue
         \/ e.suppressed = o.suppressed /\ e.dropped = o.dropped + 1 /\ e.queue = o.queue
         \/ /\ e.suppressed = o.suppressed /\ e.dropped = o.dropped
            /\ Len(e.queue) = Len(o.queue) + 1
  PROVE  Owed(e) = Owed(o) - 1
<1>0. /\ Owed(o) = o.digests - o.suppressed - o.dropped - Len(o.queue)
      /\ Owed(e) = e.digests - e.suppressed - e.dropped - Len(e.queue)
  BY DEF Owed
<1>2. CASE e.suppressed = o.suppressed + 1 /\ e.dropped = o.dropped /\ e.queue = o.queue
  BY <1>0, <1>2
<1>3. CASE e.suppressed = o.suppressed /\ e.dropped = o.dropped + 1 /\ e.queue = o.queue
  <2>1. Owed(e) = o.digests - o.suppressed - (o.dropped + 1) - Len(o.queue)
    BY <1>0, <1>3
  <2>2. Owed(o) = o.digests - o.suppressed - o.dropped - Len(o.queue)
    BY <1>0
  <2> DEFINE a == o.digests
             b == o.suppressed
             c == o.dropped
             d == Len(o.queue)
  <2>3. a \in Nat /\ b \in Nat /\ c \in Nat /\ d \in Nat
    OBVIOUS
  <2> HIDE DEF a, b, c, d
  <2>4. a - b - (c + 1) - d = (a - b - c - d) - 1
    BY <2>3
  <2> QED
    BY <2>1, <2>2, <2>4 DEF a, b, c, d
<1>4. CASE /\ e.suppressed = o.suppressed /\ e.dropped = o.dropped
           /\ Len(e.queue) = Len(o.queue) + 1
  BY <1>0, <1>4
<1> QED
  BY <1>2, <1>3, <1>4

LEMMA OwedMore ==
  ASSUME NEW o, NEW e, o.digests \in Nat, o.suppressed \in Nat, o.dropped \in Nat,
         Len(o.queue) \in Nat, e.digests = o.digests + 1,
         e.suppressed = o.suppressed, e.dropped = o.dropped, e.queue = o.queue
  PROVE  Owed(e) = Owed(o) + 1
<1>0. /\ Owed(o) = o.digests - o.suppressed - o.dropped - Len(o.queue)
      /\ Owed(e) = e.digests - e.suppressed - e.dropped - Len(e.queue)
  BY DEF Owed
<1> QED
  BY <1>0

LEMMA EnqueueKeeps ==
  ASSUME NEW o, GoodOut(o), NEW k \in Keys, NEW silence \in Nat, clock \in Nat
  PROVE  LET e == Enqueue(o, k, silence)
         IN  /\ GoodOut(e)
             /\ Owed(e) = Owed(o) - 1
             /\ e.digested = o.digested
<1> DEFINE e == Enqueue(o, k, silence)
<1>0. /\ o \in OutType /\ o.queue \in Seq(Keys) /\ o.last \in Stamps
      /\ o.suppressed \in Nat /\ o.dropped \in Nat
      /\ o.digests \in Nat /\ o.digested \in Nat /\ Len(o.queue) \in Nat
      /\ Len(o.queue) <= MaxQueue /\ Fits(o.last, NoTime) /\ MaxQueue \in Nat
  BY OutFields, DispatcherAssumption DEF GoodOut
<1>1. CASE silence > 0 /\ o.last[k] # NoTime /\ WindowActive(o.last[k], silence)
  <2>1. e = [o EXCEPT !.suppressed = @ + 1]
    BY <1>1 DEF Enqueue
  <2>2. /\ e \in OutType /\ e.queue = o.queue /\ e.last = o.last
        /\ e.suppressed = o.suppressed + 1 /\ e.dropped = o.dropped
        /\ e.digests = o.digests /\ e.digested = o.digested
    BY <1>0, <2>1 DEF OutType
  <2> HIDE DEF e
  <2>3. GoodOut(e)
    BY <1>0, <2>2 DEF GoodOut
  <2>4. Owed(e) = Owed(o) - 1
    BY <1>0, <2>2, OwedLess
  <2> QED
    BY <2>2, <2>3, <2>4 DEF e
<1>2. CASE /\ ~(silence > 0 /\ o.last[k] # NoTime /\ WindowActive(o.last[k], silence))
           /\ Len(o.queue) >= MaxQueue
  <2>1. e = [o EXCEPT !.dropped = @ + 1]
    BY <1>2 DEF Enqueue
  <2>2. /\ e \in OutType /\ e.queue = o.queue /\ e.last = o.last
        /\ e.suppressed = o.suppressed /\ e.dropped = o.dropped + 1
        /\ e.digests = o.digests /\ e.digested = o.digested
    BY <1>0, <2>1 DEF OutType
  <2> HIDE DEF e
  <2>3. GoodOut(e)
    BY <1>0, <2>2 DEF GoodOut
  <2>4. Owed(e) = Owed(o) - 1
    BY <1>0, <2>2, OwedLess
  <2> QED
    BY <2>2, <2>3, <2>4 DEF e
<1>3. CASE /\ ~(silence > 0 /\ o.last[k] # NoTime /\ WindowActive(o.last[k], silence))
           /\ ~(Len(o.queue) >= MaxQueue)
  <2> DEFINE g == IF silence > 0 THEN Bounded([o.last EXCEPT ![k] = clock], k, NoTime)
                  ELSE o.last
  <2>1. e = [o EXCEPT !.queue = Append(@, k), !.last = g]
    BY <1>3 DEF Enqueue
  <2>2. g \in Stamps /\ Fits(g, NoTime)
    BY <1>0, StampFits
  <2> HIDE DEF g
  <2>3. Append(o.queue, k) \in Seq(Keys) /\ Len(Append(o.queue, k)) = Len(o.queue) + 1
    BY <1>0
  <2>4. /\ e \in OutType /\ e.queue = Append(o.queue, k) /\ e.last = g
        /\ e.suppressed = o.suppressed /\ e.dropped = o.dropped
        /\ e.digests = o.digests /\ e.digested = o.digested
    BY <1>0, <2>1, <2>2, <2>3 DEF OutType
  <2> HIDE DEF e
  <2>5. Len(e.queue) <= MaxQueue
    BY <1>0, <1>3, <2>3, <2>4
  <2>6. GoodOut(e)
    BY <1>0, <2>2, <2>4, <2>5 DEF GoodOut
  <2>7. Owed(e) = Owed(o) - 1
    BY <1>0, <2>3, <2>4, OwedLess
  <2> QED
    BY <2>4, <2>6, <2>7 DEF e
<1> QED
  BY <1>1, <1>2, <1>3

(* A window that is closed gives its merged alerts to a digest.            *)
LEMMA FlushKeeps ==
  ASSUME NEW o, GoodOut(o), NEW k \in Keys, NEW silence \in Nat, clock \in Nat,
         windows[k].pending \in Nat
  PROVE  LET e == FlushWindow(o, k, silence)
         IN  /\ GoodOut(e)
             /\ Owed(e) = Owed(o)
             /\ e.digested = o.digested + windows[k].pending
<1>0. /\ o \in OutType /\ o.queue \in Seq(Keys) /\ o.last \in Stamps
      /\ o.suppressed \in Nat /\ o.dropped \in Nat
      /\ o.digests \in Nat /\ o.digested \in Nat /\ Len(o.queue) \in Nat
      /\ Len(o.queue) <= MaxQueue /\ Fits(o.last, NoTime)
  BY OutFields DEF GoodOut
<1>1. CASE windows[k].pending = 0
  BY <1>0, <1>1 DEF FlushWindow
<1>2. CASE windows[k].pending # 0
  <2> DEFINE n == windows[k].pending
             d == [o EXCEPT !.digests = @ + 1, !.digested = @ + n]
             e == Enqueue(d, k, silence)
  <2>1. FlushWindow(o, k, silence) = e
    BY <1>2 DEF FlushWindow
  <2>n. n \in Nat
    OBVIOUS
  <2> HIDE DEF n
  <2>2. /\ d \in OutType /\ d.queue = o.queue /\ d.last = o.last
        /\ d.suppressed = o.suppressed /\ d.dropped = o.dropped
        /\ d.digests = o.digests + 1 /\ d.digested = o.digested + n
    <3>1. o.digests + 1 \in Nat /\ o.digested + n \in Nat
      BY <2>n, <1>0
    <3> DEFINE a == o.digests + 1
               b == o.digested + n
    <3>2. d = [o EXCEPT !.digests = a, !.digested = b]
      BY <1>0 DEF OutType
    <3> HIDE DEF a, b, n
    <3>3. a \in Nat /\ b \in Nat
      BY <3>1 DEF a, b
    <3> HIDE DEF d
    <3>4. /\ d \in OutType /\ d.queue = o.queue /\ d.last = o.last
          /\ d.suppressed = o.suppressed /\ d.dropped = o.dropped
          /\ d.digests = a /\ d.digested = b
      BY <1>0, <3>2, <3>3 DEF OutType
    <3> QED
      BY <3>4 DEF a, b
  <2> HIDE DEF d
  <2>3. GoodOut(d)
    BY <1>0, <2>2 DEF GoodOut
  <2>0. Owed(d) = Owed(o) + 1
    BY <1>0, <2>2, OwedMore
  <2>4. GoodOut(e) /\ Owed(e) = Owed(d) - 1 /\ e.digested = d.digested
    BY <2>3, EnqueueKeeps, Zenon
  <2>5. Owed(o) \in Int
    BY <1>0, OwedType
  <2> HIDE DEF e
  <2>6. e.digested = o.digested + n /\ Owed(e) = Owed(o)
    BY <1>0, <2>0, <2>2, <2>4, <2>5
  <2> QED
    BY <2>1, <2>4, <2>6 DEF n
<1> QED
  BY <1>1, <1>2

-----------------------------------------------------------------------------
(* Merged alerts: what waits in a set of windows, window by window.        *)

LEMMA WaitingAdd ==
  ASSUME NEW w, NEW P, NEW k, k \notin P, w[k].pending \in Nat, IsFiniteSet(Waiting(w, P))
  PROVE  /\ IsFiniteSet(Waiting(w, P \union {k}))
         /\ Cardinality(Waiting(w, P \union {k})) = Cardinality(Waiting(w, P)) + w[k].pending
<1> DEFINE n == w[k].pending
           A == Waiting(w, P)
           B == {k} \X (1..n)
<1>1. Waiting(w, P \union {k}) = A \union B
  BY DEF Waiting
<1>2. A \cap B = {}
  BY DEF Waiting
<1>3. n \in Nat /\ IsFiniteSet(1..n) /\ Cardinality(1..n) = n
  <2>1. n \in Nat /\ 1 \in Int /\ n \in Int
    OBVIOUS
  <2> HIDE DEF n
  <2>2. IsFiniteSet(1..n) /\ Cardinality(1..n) = IF 1 > n THEN 0 ELSE n - 1 + 1
    BY <2>1, FS_Interval, Zenon
  <2> QED
    BY <2>1, <2>2
<1>4. IsFiniteSet({k}) /\ Cardinality({k}) = 1
  BY FS_Singleton, Zenon
<1> HIDE DEF n, A
<1>5. IsFiniteSet(B) /\ Cardinality(B) = 1 * n
  BY <1>3, <1>4, FS_Product
<1> HIDE DEF B
<1>6. IsFiniteSet(A) /\ Cardinality(A) \in Nat
  BY FS_CardinalityType DEF A
<1>7. /\ IsFiniteSet(A \union B)
      /\ Cardinality(A \union B) = Cardinality(A) + Cardinality(B) - Cardinality(A \cap B)
  BY <1>5, <1>6, FS_Union, Zenon
<1>8. Cardinality(A \cap B) = 0
  BY <1>2, FS_EmptySet
<1>9. Cardinality(A \union B) = Cardinality(A) + n
  BY <1>3, <1>5, <1>6, <1>7, <1>8
<1> QED
  BY <1>1, <1>7, <1>9 DEF A, n

LEMMA WaitingFinite ==
  ASSUME NEW S, IsFiniteSet(S), NEW w, \A k \in S : w[k].pending \in Nat
  PROVE  IsFiniteSet(Waiting(w, S))
<1> DEFINE B(k) == {k} \X (1..w[k].pending)
           T == {B(k) : k \in S}
           f == [k \in S |-> B(k)]
<1>1. f \in Surjection(S, T)
  BY DEF Surjection
<1>2. IsFiniteSet(T)
  <2> HIDE DEF f, T
  <2> QED
    BY <1>1, FS_Surjection
<1>3. ASSUME NEW k \in S PROVE IsFiniteSet(B(k))
  <2>1. IsFiniteSet(1..w[k].pending)
    BY FS_Interval
  <2>2. IsFiniteSet({k})
    BY FS_Singleton, Zenon
  <2> QED
    BY <2>1, <2>2, FS_Product
<1>4. \A R \in T : IsFiniteSet(R)
  <2> HIDE DEF B
  <2> QED
    BY <1>3
<1>5. Waiting(w, S) = UNION T
  BY DEF Waiting
<1> HIDE DEF T
<1> QED
  BY <1>2, <1>4, <1>5, FS_UNION

LEMMA WaitingSplit ==
  ASSUME NEW w, NEW S, NEW T, S \subseteq T, IsFiniteSet(Waiting(w, T))
  PROVE  /\ IsFiniteSet(Waiting(w, S)) /\ IsFiniteSet(Waiting(w, T \ S))
         /\ Cardinality(Waiting(w, T))
              = Cardinality(Waiting(w, S)) + Cardinality(Waiting(w, T \ S))
<1> DEFINE A == Waiting(w, S)
           B == Waiting(w, T \ S)
<1>1. Waiting(w, T) = A \union B
  BY DEF Waiting
<1>2. A \cap B = {}
  BY DEF Waiting
<1> HIDE DEF A, B
<1>3. IsFiniteSet(A) /\ IsFiniteSet(B)
  BY <1>1, FS_Subset
<1>4. Cardinality(A) \in Nat /\ Cardinality(B) \in Nat
  BY <1>3, FS_CardinalityType
<1>7. Cardinality(A \cap B) = 0
  BY <1>2, FS_EmptySet
<1>5. Cardinality(A \union B) = Cardinality(A) + Cardinality(B) - Cardinality(A \cap B)
  BY <1>3, FS_Union, Zenon
<1>6. Cardinality(A \union B) = Cardinality(A) + Cardinality(B)
  BY <1>4, <1>5, <1>7
<1> QED
  BY <1>1, <1>3, <1>6 DEF A, B

(* Windows that agree on S keep the same alerts waiting there; windows     *)
(* with nothing pending keep none.                                         *)
LEMMA WaitingSame ==
  ASSUME NEW v, NEW w, NEW S, \A k \in S : v[k].pending = w[k].pending
  PROVE  Waiting(v, S) = Waiting(w, S)
<1>1. \A k \in S : {k} \X (1..v[k].pending) = {k} \X (1..w[k].pending)
  OBVIOUS
<1> QED
  BY <1>1 DEF Waiting

LEMMA WaitingNone ==
  ASSUME NEW w, NEW S, \A k \in S : w[k].pending = 0
  PROVE  Waiting(w, S) = {}
<1>1. \A k \in S : {k} \X (1..w[k].pending) = {}
  OBVIOUS
<1> QED
  BY <1>1 DEF Waiting

-----------------------------------------------------------------------------
(* Several windows closed one after the other, in any order of the table.  *)

LEMMA OrderFacts ==
  ASSUME NEW S, IsFiniteSet(S), NEW order \in SetToSeqs(S)
  PROVE  /\ order \in Seq(S) /\ Len(order) \in Nat
         /\ \A i \in 1..Len(order) : order[i] \in S
         /\ \A i, j \in 1..Len(order) : i # j => order[i] # order[j]
         /\ S = {order[i] : i \in 1..Len(order)}
<1> DEFINE n == Cardinality(S)
<1>1. n \in Nat /\ order \in [1..n -> S] /\ \A i, j \in 1..n : i # j => order[i] # order[j]
  BY FS_CardinalityType DEF SetToSeqs
<1>2. order \in Seq(S) /\ Len(order) = n
  <2> HIDE DEF n
  <2> QED
    BY <1>1
<1>3. order \in Injection(1..n, S)
  BY <1>1 DEF Injection, IsInjective
<1>4. Cardinality(1..n) = n
  <2>1. n \in Nat
    BY <1>1
  <2> HIDE DEF n
  <2>2. Cardinality(1..n) = IF 1 > n THEN 0 ELSE n - 1 + 1
    BY <2>1, FS_Interval
  <2> QED
    BY <2>1, <2>2
<1>5. order \in Surjection(1..n, S)
  BY <1>3, <1>4, FS_Injection
<1>6. S = {order[i] : i \in 1..n}
  <2> HIDE DEF n
  <2> QED
    BY <1>1, <1>5 DEF Surjection
<1> HIDE DEF n
<1> QED
  BY <1>1, <1>2, <1>6

(* The recursive function of FlushWindows exists and steps as written.     *)
IsWalk(h, o, order, silence) ==
  h = [i \in 0..Len(order) |->
         IF i = 0 THEN o ELSE FlushWindow(h[i - 1], order[i], silence)]

LEMMA WalkExists ==
  ASSUME NEW o, GoodOut(o), NEW order \in Seq(Keys), NEW silence \in Nat, clock \in Nat,
         \A k \in Keys : windows[k].pending \in Nat
  PROVE  \E h : IsWalk(h, o, order, silence)
<1> DEFINE n == Len(order)
           D == {x \in OutType : GoodOut(x)}
           move(i, x) == IF i \in 1..n THEN FlushWindow(x, order[i], silence) ELSE x
           moves == [i \in Nat |-> [x \in D |-> move(i, x)]]
<1>1. o \in D /\ n \in Nat
  BY DEF GoodOut
<1>2. ASSUME NEW i \in Nat, NEW x \in D PROVE move(i, x) \in D
  <2>1. CASE i \in 1..n
    <3>1. order[i] \in Keys
      BY <2>1
    <3>2. GoodOut(FlushWindow(x, order[i], silence))
      BY <3>1, FlushKeeps
    <3> QED
      BY <2>1, <3>2 DEF GoodOut
  <2>2. CASE i \notin 1..n
    BY <2>2
  <2> QED
    BY <2>1, <2>2
<1> HIDE DEF D, move
<1>3. moves \in [Nat -> [D -> D]]
  BY <1>2
<1> HIDE DEF moves
<1>4. PICK h \in [0..n -> D] : IsRecursive(h, o, moves, n)
  BY <1>1, <1>3, Recursion
<1>5. ASSUME NEW i \in 0..n, i # 0 PROVE moves[i][h[i - 1]] = FlushWindow(h[i - 1], order[i], silence)
  <2>1. i \in Nat /\ i \in 1..n /\ h[i - 1] \in D
    BY <1>1, <1>4, <1>5
  <2>2. moves[i][h[i - 1]] = move(i, h[i - 1])
    BY <2>1 DEF moves
  <2> QED
    BY <2>1, <2>2 DEF move
<1>6. h = [i \in 0..n |-> IF i = 0 THEN o ELSE FlushWindow(h[i - 1], order[i], silence)]
  <2>1. h = [i \in 0..n |-> IF i = 0 THEN o ELSE moves[i][h[i - 1]]]
    BY <1>4, Zenon DEF IsRecursive
  <2> HIDE DEF n
  <2> QED
    BY <1>5, <2>1
<1> QED
  BY <1>6 DEF IsWalk

LEMMA FlushAllKeep ==
  ASSUME NEW o, GoodOut(o), NEW S \in SUBSET Keys, IsFiniteSet(S),
         NEW order \in SetToSeqs(S), NEW silence \in Nat, clock \in Nat,
         \A k \in Keys : windows[k].pending \in Nat
  PROVE  LET e == FlushWindows(o, order, silence)
         IN  /\ GoodOut(e)
             /\ Owed(e) = Owed(o)
             /\ e.digested = o.digested + Cardinality(Waiting(windows, S))
<1> DEFINE n == Len(order)
           h == CHOOSE f : IsWalk(f, o, order, silence)
           P(i) == {order[j] : j \in 1..i}
           W(i) == Waiting(windows, P(i))
           T == {i \in Nat : i <= n =>
                   /\ GoodOut(h[i]) /\ Owed(h[i]) = Owed(o)
                   /\ IsFiniteSet(W(i)) /\ h[i].digested = o.digested + Cardinality(W(i))}
<1>0. /\ n \in Nat /\ order \in Seq(Keys) /\ \A i \in 1..n : order[i] \in Keys
      /\ \A i, j \in 1..n : i # j => order[i] # order[j]
      /\ S = P(n)
  BY OrderFacts
<1>1. IsWalk(h, o, order, silence)
  BY <1>0, WalkExists
<1>2. FlushWindows(o, order, silence) = h[n]
  BY Zenon DEF FlushWindows, IsWalk
<1> HIDE DEF h
<1>3. h[0] = o
  BY <1>0, <1>1 DEF IsWalk
<1>4. ASSUME NEW i \in Nat, i + 1 <= n
      PROVE  h[i + 1] = FlushWindow(h[i], order[i + 1], silence)
  <2>1. i + 1 \in 0..n /\ i + 1 # 0 /\ (i + 1) - 1 = i
    BY <1>0, <1>4
  <2> QED
    BY <2>1, <1>1 DEF IsWalk
<1>5. 0 \in T
  <2>1. P(0) = {}
    OBVIOUS
  <2>2. W(0) = {}
    BY <2>1 DEF Waiting
  <2>3. IsFiniteSet(W(0)) /\ Cardinality(W(0)) = 0
    BY <2>2, FS_EmptySet
  <2>4. o.digested = o.digested + 0
    BY OutFields DEF GoodOut
  <2> HIDE DEF W
  <2> QED
    BY <1>3, <2>3, <2>4
<1>6. ASSUME NEW i \in Nat, i \in T PROVE i + 1 \in T
  <2> SUFFICES ASSUME i + 1 <= n
               PROVE  /\ GoodOut(h[i + 1]) /\ Owed(h[i + 1]) = Owed(o)
                      /\ IsFiniteSet(W(i + 1))
                      /\ h[i + 1].digested = o.digested + Cardinality(W(i + 1))
    OBVIOUS
  <2> DEFINE k == order[i + 1]
  <2>1. /\ GoodOut(h[i]) /\ Owed(h[i]) = Owed(o)
        /\ IsFiniteSet(W(i)) /\ h[i].digested = o.digested + Cardinality(W(i))
    BY <1>0, <1>6
  <2>2. k \in Keys /\ k \notin P(i)
    BY <1>0
  <2>3. P(i + 1) = P(i) \union {k}
    OBVIOUS
  <2>4. windows[k].pending \in Nat
    BY <2>2
  <2> HIDE DEF k, P
  <2>5. IsFiniteSet(W(i + 1)) /\ Cardinality(W(i + 1)) = Cardinality(W(i)) + windows[k].pending
    <3>1. /\ IsFiniteSet(Waiting(windows, P(i) \union {k}))
          /\ Cardinality(Waiting(windows, P(i) \union {k}))
               = Cardinality(Waiting(windows, P(i))) + windows[k].pending
      BY <2>1, <2>2, <2>4, WaitingAdd
    <3> QED
      BY <2>3, <3>1
  <2>6. /\ GoodOut(FlushWindow(h[i], k, silence))
        /\ Owed(FlushWindow(h[i], k, silence)) = Owed(h[i])
        /\ FlushWindow(h[i], k, silence).digested = h[i].digested + windows[k].pending
    BY <2>1, <2>2, <2>4, FlushKeeps
  <2>7. h[i + 1] = FlushWindow(h[i], k, silence)
    BY <1>4 DEF k
  <2>8. o.digested \in Nat /\ Cardinality(W(i)) \in Nat
    BY <2>1, OutFields, FS_CardinalityType DEF GoodOut
  <2> HIDE DEF W
  <2> QED
    BY <2>1, <2>4, <2>5, <2>6, <2>7, <2>8
<1>7. n \in T
  <2> HIDE DEF T
  <2> QED
    BY <1>0, <1>5, <1>6, Induct
<1> HIDE DEF P
<1> QED
  BY <1>0, <1>2, <1>7

-----------------------------------------------------------------------------
(* The dispatcher's inductive invariant.                                   *)

Window == [start : {NoTime} \union Nat, pending : Nat]
Sending == [key : Keys \union {""}, notifier : STRING \union {NoUrl}, attempts : 0..MaxRetries]

(* The tables: out, the windows, the configuration.  A key without a start *)
(* has no window at all.                                                   *)
TablesOK ==
  /\ cfg \in Configs /\ notifier = cfg.url
  /\ GoodOut(out)
  /\ windows \in [Keys -> Window] /\ Fits(windows, NoWindow)
  /\ \A k \in Keys : windows[k].start = NoTime => windows[k] = NoWindow

WorkerOK ==
  /\ stop \in BOOLEAN /\ notified \in BOOLEAN
  /\ wpc \in {"top", "waiting", "send", "exited", "crashed"}
  /\ deadline \in {NoTime} \union Nat
  /\ sending \in Sending
  /\ sent \in Nat /\ failed \in Nat /\ merged \in Nat /\ accepted \in Nat
  /\ reloads \in Nat /\ clock \in Nat

(* CountedOnce with the counters of out on one side.                       *)
InHand == IF wpc \in {"send", "crashed"} THEN 1 ELSE 0
Balanced == accepted + Owed(out) = sent + failed + merged + InHand

DispatcherInv == TablesOK /\ WorkerOK /\ Balanced /\ NeverOversleeps

LEMMA InvCountedOnce == TablesOK /\ WorkerOK /\ Balanced => CountedOnce
<1> SUFFICES ASSUME TablesOK, WorkerOK, Balanced PROVE CountedOnce
  OBVIOUS
<1>1. /\ out.suppressed \in Nat /\ out.dropped \in Nat
      /\ out.digests \in Nat /\ Len(out.queue) \in Nat
  BY OutFields DEF TablesOK, GoodOut
<1>2. sent \in Nat /\ failed \in Nat /\ merged \in Nat /\ accepted \in Nat /\ InHand \in Nat
  BY DEF WorkerOK, InHand
<1>3. accepted + (out.digests - out.suppressed - out.dropped - Len(out.queue))
        = sent + failed + merged + InHand
  BY DEF Balanced, Owed
<1>4. OnItsWay = Len(out.queue) + InHand
  BY DEF OnItsWay, InHand
<1> DEFINE a == out.digests
           b == out.suppressed
           c == out.dropped
           d == Len(out.queue)
<1>5. /\ a \in Nat /\ b \in Nat /\ c \in Nat /\ d \in Nat
      /\ accepted + (a - b - c - d) = sent + failed + merged + InHand
  BY <1>1, <1>3
<1> HIDE DEF InHand, a, b, c, d
<1>6. accepted + a = sent + failed + b + c + merged + (d + InHand)
  BY <1>2, <1>5
<1> QED
  BY <1>4, <1>6 DEF CountedOnce, a, b, c, d

LEMMA InvTypeOK == TablesOK /\ WorkerOK => TypeOK
<1> SUFFICES ASSUME TablesOK, WorkerOK PROVE TypeOK
  OBVIOUS
<1>1. /\ out \in OutType /\ Len(out.queue) <= MaxQueue
      /\ Cardinality(Entries(out.last, NoTime)) <= MaxWindows
      /\ Cardinality(Open) <= MaxWindows
  BY DEF TablesOK, GoodOut, Fits, Open
<1>2. sending.key \in Keys \union {""} /\ sending.attempts \in 0..MaxRetries
  BY DEF WorkerOK, Sending
<1> QED
  BY <1>1, <1>2 DEF TypeOK, TablesOK, WorkerOK, OutType, Stamps, Window

LEMMA CfgFacts ==
  ASSUME NEW c \in Configs
  PROVE  c.agg \in Nat /\ c.silence \in Nat /\ c.url \in STRING
<1> QED
  BY DispatcherAssumption DEF ConfigType

LEMMA WindowFacts ==
  ASSUME TablesOK, NEW k \in Keys
  PROVE  /\ windows[k].pending \in Nat /\ windows[k].start \in {NoTime} \union Nat
         /\ k \in Open <=> windows[k].start # NoTime
         /\ k \notin Open => windows[k].pending = 0
         /\ IsFiniteSet(Open) /\ Open \subseteq Keys /\ Expired \subseteq Open
<1>1. windows[k] \in Window /\ DOMAIN windows = Keys
  BY DEF TablesOK
<1>2. windows[k].pending \in Nat /\ windows[k].start \in {NoTime} \union Nat
  BY <1>1 DEF Window
<1>3. NoWindow.start = NoTime /\ NoWindow.pending = 0
  BY DEF NoWindow
<1>4. k \in Open <=> windows[k] # NoWindow
  BY <1>1 DEF Open, Entries
<1>5. windows[k].start = NoTime => windows[k] = NoWindow
  BY DEF TablesOK
<1>6. IsFiniteSet(Open)
  BY DEF TablesOK, Fits, Open
<1>7. Open \subseteq Keys /\ Expired \subseteq Open
  BY <1>1 DEF Open, Entries, Expired
<1> QED
  BY <1>2, <1>3, <1>4, <1>5, <1>6, <1>7

LEMMA ErasedFacts ==
  ASSUME TablesOK, NEW S \in SUBSET Keys
  PROVE  /\ Erased(S) \in [Keys -> Window] /\ Fits(Erased(S), NoWindow)
         /\ \A k \in Keys : Erased(S)[k].start = NoTime => Erased(S)[k] = NoWindow
         /\ \A k \in Keys : k \in S => Erased(S)[k].pending = 0
         /\ \A k \in Keys : k \notin S => Erased(S)[k] = windows[k]
<1> DEFINE w == Erased(S)
<1>1. NoWindow \in Window /\ NoWindow.start = NoTime /\ NoWindow.pending = 0
  BY DEF NoWindow, Window, NoTime
<1>2. /\ \A k \in Keys : w[k] = IF k \in S THEN NoWindow ELSE windows[k]
      /\ DOMAIN w = Keys
  BY DEF Erased
<1>3. w \in [Keys -> Window]
  BY <1>1 DEF Erased, TablesOK
<1>4. Entries(w, NoWindow) \in SUBSET Open
  BY <1>2 DEF Entries, Open, TablesOK
<1>5. IsFiniteSet(Open) /\ Cardinality(Open) <= MaxWindows /\ MaxWindows \in Nat
  BY DispatcherAssumption DEF TablesOK, Fits, Open
<1> HIDE DEF w
<1>6. Fits(w, NoWindow)
  <2>1. /\ IsFiniteSet(Entries(w, NoWindow))
        /\ Cardinality(Entries(w, NoWindow)) <= Cardinality(Open)
    BY <1>4, <1>5, FS_Subset
  <2>2. Cardinality(Entries(w, NoWindow)) \in Nat /\ Cardinality(Open) \in Nat
    BY <1>5, <2>1, FS_CardinalityType
  <2> QED
    BY <1>5, <2>1, <2>2 DEF Fits
<1>7. \A k \in Keys : w[k].start = NoTime => w[k] = NoWindow
  BY <1>2 DEF TablesOK
<1> QED
  BY <1>1, <1>2, <1>3, <1>6, <1>7 DEF w

(* Both uses of FlushWindows: the windows closed are open ones.            *)
LEMMA SettleKeeps ==
  ASSUME TablesOK, clock \in Nat, NEW S \in SUBSET Open, NEW order \in SetToSeqs(S),
         NEW silence \in Nat
  PROVE  /\ GoodOut(FlushWindows(out, order, silence))
         /\ Owed(FlushWindows(out, order, silence)) = Owed(out)
         /\ FlushWindows(out, order, silence).digested
              = out.digested + Cardinality(Waiting(windows, S))
<1>1. IsFiniteSet(Open) /\ Open \subseteq Keys /\ \A k \in Keys : windows[k].pending \in Nat
  <2>1. DOMAIN windows = Keys /\ \A k \in Keys : windows[k] \in Window
    BY DEF TablesOK
  <2> QED
    BY <2>1 DEF TablesOK, Fits, Open, Entries, Window
<1>2. S \in SUBSET Keys /\ IsFiniteSet(S)
  BY <1>1, FS_Subset
<1>3. GoodOut(out)
  BY DEF TablesOK
<1> QED
  BY <1>1, <1>2, <1>3, FlushAllKeep, Zenon

Opened(k) == Bounded([windows EXCEPT ![k] = [start |-> clock, pending |-> 0]], k, NoWindow)

LEMMA OpenedFacts ==
  ASSUME TablesOK, clock \in Nat, NEW k \in Keys
  PROVE  /\ Opened(k) \in [Keys -> Window] /\ Fits(Opened(k), NoWindow)
         /\ \A j \in Keys : Opened(k)[j].start = NoTime => Opened(k)[j] = NoWindow
<1> DEFINE f == [windows EXCEPT ![k] = [start |-> clock, pending |-> 0]]
<1>1. NoWindow \in Window /\ [start |-> clock, pending |-> 0] \in Window
  BY DEF NoWindow, Window, NoTime
<1>2. /\ f \in [Keys -> Window] /\ DOMAIN f = Keys
      /\ f[k] = [start |-> clock, pending |-> 0] /\ f[k].start # NoTime
      /\ \A j \in Keys : j # k => f[j] = windows[j]
  BY <1>1 DEF TablesOK, NoTime
<1>3. IsFiniteSet(Entries(f, NoWindow))
  <2>1. DOMAIN windows = Keys /\ IsFiniteSet(Entries(windows, NoWindow))
    BY DEF TablesOK, Fits
  <2> QED
    BY <2>1, EntriesExcept
<1>4. Opened(k) = Bounded(f, k, NoWindow)
  BY DEF Opened
<1> HIDE DEF f
<1>5. Bounded(f, k, NoWindow) \in [Keys -> Window] /\ Fits(Bounded(f, k, NoWindow), NoWindow)
  BY <1>1, <1>2, <1>3, BoundedFits, BoundedType
<1>6. ASSUME NEW j \in Keys, Bounded(f, k, NoWindow)[j].start = NoTime
      PROVE  Bounded(f, k, NoWindow)[j] = NoWindow
  <2>1. /\ Bounded(f, k, NoWindow)[k] = f[k]
        /\ Bounded(f, k, NoWindow)[j] \in {f[j], NoWindow}
    BY <1>2, BoundedValue
  <2>2. f[j].start = NoTime => f[j] = NoWindow
    BY <1>2 DEF TablesOK
  <2> QED
    BY <1>6, <2>1, <2>2
<1> QED
  BY <1>4, <1>5, <1>6

(* The alert of OpenWindow: the old window settled, then the new attempt.  *)
LEMMA OpenKeeps ==
  ASSUME TablesOK, clock \in Nat, NEW k \in Keys
  PROVE  LET e == Enqueue(FlushWindow(out, k, cfg.silence), k, cfg.silence)
         IN  /\ GoodOut(e)
             /\ Owed(e) = Owed(out) - 1
             /\ e.digested = out.digested + windows[k].pending
<1> DEFINE f == FlushWindow(out, k, cfg.silence)
<1>1. cfg.silence \in Nat /\ GoodOut(out) /\ windows[k].pending \in Nat
  BY CfgFacts, WindowFacts DEF TablesOK
<1>2. /\ GoodOut(f) /\ Owed(f) = Owed(out)
      /\ f.digested = out.digested + windows[k].pending
  BY <1>1, FlushKeeps, Zenon
<1> HIDE DEF f
<1>3. /\ GoodOut(Enqueue(f, k, cfg.silence))
      /\ Owed(Enqueue(f, k, cfg.silence)) = Owed(f) - 1
      /\ Enqueue(f, k, cfg.silence).digested = f.digested
  BY <1>1, <1>2, EnqueueKeeps, Zenon
<1> QED
  BY <1>2, <1>3 DEF f

LEMMA PlainKeeps ==
  ASSUME TablesOK, clock \in Nat, NEW k \in Keys
  PROVE  /\ GoodOut(Enqueue(out, k, cfg.silence))
         /\ Owed(Enqueue(out, k, cfg.silence)) = Owed(out) - 1
         /\ Enqueue(out, k, cfg.silence).digested = out.digested
<1>1. cfg.silence \in Nat /\ GoodOut(out)
  BY CfgFacts DEF TablesOK
<1> QED
  BY <1>1, EnqueueKeeps, Zenon

(* An item taken from the queue.                                           *)
LEMMA TakenKeeps ==
  ASSUME NEW o, GoodOut(o), o.queue # <<>>
  PROVE  LET e == [o EXCEPT !.queue = Tail(@)]
         IN  /\ GoodOut(e)
             /\ Owed(e) = Owed(o) + 1
             /\ e.digested = o.digested
             /\ Head(o.queue) \in Keys
<1> DEFINE e == [o EXCEPT !.queue = Tail(@)]
<1>0. /\ o \in OutType /\ o.queue \in Seq(Keys) /\ o.last \in Stamps
      /\ o.suppressed \in Nat /\ o.dropped \in Nat
      /\ o.digests \in Nat /\ o.digested \in Nat /\ Len(o.queue) \in Nat
      /\ Len(o.queue) <= MaxQueue /\ Fits(o.last, NoTime) /\ MaxQueue \in Nat
  BY OutFields, DispatcherAssumption DEF GoodOut
<1>1. /\ Tail(o.queue) \in Seq(Keys) /\ Len(Tail(o.queue)) = Len(o.queue) - 1
      /\ Head(o.queue) \in Keys
  BY <1>0
<1>2. /\ e \in OutType /\ e.queue = Tail(o.queue) /\ e.last = o.last
      /\ e.suppressed = o.suppressed /\ e.dropped = o.dropped
      /\ e.digests = o.digests /\ e.digested = o.digested
  BY <1>0, <1>1 DEF OutType
<1> HIDE DEF e
<1>3. GoodOut(e)
  <2>1. Len(e.queue) <= MaxQueue
    BY <1>0, <1>1, <1>2
  <2> QED
    BY <1>0, <1>2, <2>1 DEF GoodOut
<1>4. /\ Owed(o) = o.digests - o.suppressed - o.dropped - Len(o.queue)
      /\ Owed(e) = o.digests - o.suppressed - o.dropped - (Len(o.queue) - 1)
  BY <1>1, <1>2 DEF Owed
<1>5. Owed(e) = Owed(o) + 1
  BY <1>0, <1>4
<1> QED
  BY <1>1, <1>2, <1>3, <1>5 DEF e

(* The end of the next window.                                             *)
Ends(w, agg) == {w[k].start + agg : k \in Entries(w, NoWindow)}
FirstOf(E, agg) ==
  IF agg = 0 \/ E = {} THEN NoTime
  ELSE CHOOSE e \in E : \A f \in E : e <= f

LEMMA DeadlineIsFirst ==
  /\ \A w : NextDeadline(w) = FirstOf(Ends(w, cfg.agg), cfg.agg)
  /\ NextDeadline(windows)' = FirstOf(Ends(windows', cfg'.agg), cfg'.agg)
<1> QED
  BY DEF NextDeadline, FirstOf, Ends

LEMMA FirstType ==
  ASSUME NEW E \in SUBSET Nat, NEW agg
  PROVE  FirstOf(E, agg) \in {NoTime} \union Nat
<1>1. CASE agg = 0 \/ E = {}
  BY <1>1 DEF FirstOf
<1>2. CASE ~(agg = 0 \/ E = {})
  <2>1. \E e \in E : \A f \in E : e <= f
    BY <1>2, LeastNat
  <2> QED
    BY <1>2, <2>1 DEF FirstOf
<1> QED
  BY <1>1, <1>2

LEMMA EndsType ==
  ASSUME NEW w \in [Keys -> Window], NEW agg \in Nat,
         \A k \in Keys : w[k].start = NoTime => w[k] = NoWindow
  PROVE  Ends(w, agg) \subseteq Nat
<1> SUFFICES ASSUME NEW k \in Entries(w, NoWindow) PROVE w[k].start + agg \in Nat
  BY DEF Ends
<1>1. k \in Keys /\ w[k] \in Window /\ w[k] # NoWindow
  BY DEF Entries
<1>2. w[k].start \in Nat
  BY <1>1 DEF Window
<1> QED
  BY <1>2

-----------------------------------------------------------------------------
(* Every step keeps it.                                                    *)

LEMMA OwedOut == TablesOK => Owed(out) \in Int /\ out.digested \in Nat
<1> QED
  BY OutFields, OwedType DEF TablesOK, GoodOut

(* A call of the consumer adds one alert and one attempt.                  *)
LEMMA OneMore ==
  ASSUME TablesOK, WorkerOK, Balanced, accepted' = accepted + 1,
         Owed(out') = Owed(out) - 1, UNCHANGED <<sent, failed, merged, wpc>>
  PROVE  Balanced'
<1>1. Owed(out) \in Int
  BY OwedOut
<1>2. sent \in Nat /\ failed \in Nat /\ merged \in Nat /\ accepted \in Nat /\ InHand \in Nat
  BY DEF WorkerOK, InHand
<1>3. InHand' = InHand
  BY DEF InHand
<1>4. accepted + 1 + (Owed(out) - 1) = accepted + Owed(out)
  BY <1>1, <1>2
<1> QED
  BY <1>1, <1>2, <1>3, <1>4 DEF Balanced

LEMMA MergeStep ==
  ASSUME DispatcherInv, NEW k \in Keys, DispatchMerge(k)
  PROVE  DispatcherInv'
<1> DEFINE v == [windows EXCEPT ![k].pending = @ + 1]
<1>0. /\ TablesOK /\ WorkerOK /\ Balanced /\ NeverOversleeps
      /\ windows \in [Keys -> Window] /\ DOMAIN windows = Keys
      /\ k \in Open /\ windows' = v /\ accepted' = accepted + 1 /\ merged' = merged + 1
      /\ UNCHANGED <<cfg, notifier, out, stop, wpc, deadline, notified, sending,
                     sent, failed, reloads, clock>>
  BY DEF DispatcherInv, DispatchMerge, TablesOK, wvars
<1>1. windows[k].start \in Nat /\ windows[k].start # NoTime /\ windows[k].pending \in Nat
  BY <1>0, WindowFacts DEF NoTime
<1>2. /\ v[k] = [start |-> windows[k].start, pending |-> windows[k].pending + 1]
      /\ \A j \in Keys : j # k => v[j] = windows[j]
      /\ v \in [Keys -> Window] /\ DOMAIN v = Keys
  BY <1>0, <1>1 DEF Window
<1> HIDE DEF v
<1>3. v[k].start = windows[k].start /\ v[k].start # NoTime /\ v[k] # NoWindow
  BY <1>1, <1>2 DEF NoWindow
<1>4. \A j \in Keys : v[j].start = windows[j].start
  BY <1>2, <1>3
<1>5. Entries(v, NoWindow) = Entries(windows, NoWindow)
  BY <1>0, <1>2, <1>3 DEF Entries, Open
<1>6. TablesOK'
  BY <1>0, <1>2, <1>3, <1>5 DEF TablesOK, Fits
<1>7. WorkerOK'
  BY <1>0 DEF WorkerOK
<1>8. Balanced'
  <2>1. accepted \in Nat /\ sent \in Nat /\ failed \in Nat /\ merged \in Nat /\ InHand \in Nat
    BY <1>0 DEF WorkerOK, InHand
  <2>2. Owed(out) \in Int /\ Owed(out') = Owed(out) /\ InHand' = InHand
    BY <1>0, OwedOut DEF InHand
  <2> DEFINE owed == Owed(out)
  <2>3. accepted + owed = sent + failed + merged + InHand
    BY <1>0 DEF Balanced
  <2>4. owed \in Int /\ Owed(out') = owed
    BY <2>2
  <2> HIDE DEF owed
  <2>5. (accepted + 1) + owed = sent + failed + (merged + 1) + InHand
    BY <2>1, <2>3, <2>4
  <2> QED
    BY <1>0, <2>2, <2>4, <2>5 DEF Balanced
<1>9. NeverOversleeps'
  <2>1. Ends(windows', cfg'.agg) = Ends(windows, cfg.agg)
    BY <1>0, <1>4, <1>5 DEF Ends, Entries
  <2>2. NextDeadline(windows)' = NextDeadline(windows)
    BY <1>0, <2>1, DeadlineIsFirst
  <2> QED
    BY <1>0, <2>2 DEF NeverOversleeps
<1> QED
  BY <1>6, <1>7, <1>8, <1>9 DEF DispatcherInv

LEMMA OpenStep ==
  ASSUME DispatcherInv, NEW k \in Keys, DispatchOpen(k)
  PROVE  DispatcherInv'
<1>0. /\ TablesOK /\ WorkerOK /\ Balanced /\ clock \in Nat
      /\ accepted' = accepted + 1 /\ windows' = Opened(k)
      /\ out' = Enqueue(FlushWindow(out, k, cfg.silence), k, cfg.silence)
      /\ notified' = (notified \/ wpc = "waiting")
      /\ UNCHANGED <<cfg, notifier, stop, wpc, deadline, sending, sent, failed,
                     merged, reloads, clock>>
  BY DEF DispatcherInv, WorkerOK, DispatchOpen, OpenWindow, Notify, Opened
<1>1. GoodOut(out') /\ Owed(out') = Owed(out) - 1
  BY <1>0, OpenKeeps
<1>2. TablesOK'
  BY <1>0, <1>1, OpenedFacts DEF TablesOK
<1>3. WorkerOK'
  <2>1. notified' \in BOOLEAN
    BY <1>0, Zenon DEF WorkerOK
  <2> QED
    BY <1>0, <2>1 DEF WorkerOK
<1>4. Balanced'
  BY <1>0, <1>1, OneMore
<1>5. NeverOversleeps'
  BY <1>0 DEF NeverOversleeps
<1> QED
  BY <1>2, <1>3, <1>4, <1>5 DEF DispatcherInv

LEMMA PlainStep ==
  ASSUME DispatcherInv, NEW k \in Keys, DispatchPlain(k)
  PROVE  DispatcherInv'
<1>0. /\ TablesOK /\ WorkerOK /\ Balanced /\ NeverOversleeps /\ clock \in Nat
      /\ cfg.agg = 0 /\ accepted' = accepted + 1
      /\ out' = Enqueue(out, k, cfg.silence)
      /\ IF out'.queue # out.queue THEN notified' = (notified \/ wpc = "waiting")
                                   ELSE notified' = notified
      /\ UNCHANGED <<cfg, notifier, windows, stop, wpc, deadline, sending, sent,
                     failed, merged, reloads, clock>>
  BY DEF DispatcherInv, WorkerOK, DispatchPlain, Notify
<1>1. GoodOut(out') /\ Owed(out') = Owed(out) - 1
  BY <1>0, PlainKeeps
<1>2. TablesOK'
  BY <1>0, <1>1 DEF TablesOK
<1>3. WorkerOK'
  <2>1. notified' \in BOOLEAN
    BY <1>0, Zenon DEF WorkerOK
  <2> QED
    BY <1>0, <2>1 DEF WorkerOK
<1>4. Balanced'
  BY <1>0, <1>1, OneMore
<1>5. NeverOversleeps'
  <2>1. NextDeadline(windows)' = NoTime
    BY <1>0, DeadlineIsFirst DEF FirstOf
  <2> QED
    BY <1>0, <2>1 DEF NeverOversleeps
<1> QED
  BY <1>2, <1>3, <1>4, <1>5 DEF DispatcherInv

LEMMA ConfigStep ==
  ASSUME DispatcherInv, NEW c \in Configs, UpdateConfig(c)
  PROVE  DispatcherInv'
<1>0. /\ TablesOK /\ WorkerOK /\ Balanced /\ clock \in Nat
      /\ reloads' = reloads + 1 /\ cfg' = c /\ notifier' = c.url
      /\ notified' = (notified \/ wpc = "waiting")
      /\ UNCHANGED <<stop, wpc, deadline, sending, sent, failed, merged, accepted, clock>>
  BY DEF DispatcherInv, WorkerOK, UpdateConfig, Notify
<1>1. /\ GoodOut(out') /\ Owed(out') = Owed(out)
      /\ windows' \in [Keys -> Window] /\ Fits(windows', NoWindow)
      /\ \A k \in Keys : windows'[k].start = NoTime => windows'[k] = NoWindow
  <2>1. CASE cfg.agg > 0 /\ c.agg = 0
    <3>1. PICK order \in SetToSeqs(Open) : out' = FlushWindows(out, order, c.silence)
      BY <2>1 DEF UpdateConfig
    <3>2. windows' = Erased(Open)
      BY <2>1 DEF UpdateConfig
    <3>3. GoodOut(out') /\ Owed(out') = Owed(out)
      BY <1>0, <3>1, SettleKeeps, CfgFacts
    <3>4. Open \in SUBSET Keys
      BY <1>0 DEF TablesOK, Open, Entries
    <3> QED
      BY <1>0, <3>2, <3>3, <3>4, ErasedFacts
  <2>2. CASE ~(cfg.agg > 0 /\ c.agg = 0)
    <3>1. out' = out /\ windows' = windows
      BY <2>2 DEF UpdateConfig
    <3> QED
      BY <1>0, <3>1 DEF TablesOK
  <2> QED
    BY <2>1, <2>2
<1>2. TablesOK'
  BY <1>0, <1>1 DEF TablesOK
<1>3. WorkerOK'
  <2>1. notified' \in BOOLEAN
    BY <1>0, Zenon DEF WorkerOK
  <2> QED
    BY <1>0, <2>1 DEF WorkerOK
<1>4. Balanced'
  BY <1>0, <1>1 DEF Balanced, InHand
<1>5. NeverOversleeps'
  BY <1>0 DEF NeverOversleeps
<1> QED
  BY <1>2, <1>3, <1>4, <1>5 DEF DispatcherInv

LEMMA StopStep == DispatcherInv /\ Stop => DispatcherInv'
<1> SUFFICES ASSUME DispatcherInv, Stop PROVE DispatcherInv'
  OBVIOUS
<1>0. /\ TablesOK /\ WorkerOK /\ Balanced /\ stop' = TRUE
      /\ notified' = (notified \/ wpc = "waiting")
      /\ UNCHANGED <<cfg, notifier, out, windows, wpc, deadline, sending, sent,
                     failed, merged, accepted, reloads, clock>>
  BY DEF DispatcherInv, Stop, Notify
<1>2. TablesOK'
  BY <1>0 DEF TablesOK
<1>3. WorkerOK'
  <2>1. notified' \in BOOLEAN
    BY <1>0, Zenon DEF WorkerOK
  <2> QED
    BY <1>0, <2>1 DEF WorkerOK
<1>4. Balanced'
  BY <1>0 DEF Balanced, InHand
<1>5. NeverOversleeps'
  BY <1>0 DEF NeverOversleeps
<1> QED
  BY <1>2, <1>3, <1>4, <1>5 DEF DispatcherInv

(* What the worker has done when it leaves the mutex.                      *)
LEMMA LockedStep ==
  ASSUME DispatcherInv, WorkerLocked, wpc \in {"top", "waiting"}
  PROVE  DispatcherInv'
<1>1. PICK order \in SetToSeqs(Expired) :
        LET flushed == FlushWindows(out, order, cfg.silence)
            rest    == Erased(Expired)
        IN  /\ windows' = rest
            /\ IF stop THEN /\ wpc' = "exited"
                            /\ out' = flushed
                            /\ UNCHANGED <<deadline, sending>>
               ELSE IF flushed.queue # <<>>
                 THEN /\ wpc' = "send"
                      /\ sending' = [key |-> Head(flushed.queue),
                                     notifier |-> notifier, attempts |-> 0]
                      /\ out' = [flushed EXCEPT !.queue = Tail(@)]
                      /\ deadline' = NoTime
               ELSE /\ wpc' = "waiting"
                    /\ deadline' = NextDeadline(rest)
                    /\ out' = flushed
                    /\ UNCHANGED sending
  BY DEF WorkerLocked
<1> DEFINE flushed == FlushWindows(out, order, cfg.silence)
           rest == Erased(Expired)
<1>0. /\ TablesOK /\ WorkerOK /\ Balanced /\ clock \in Nat /\ notified' = FALSE
      /\ windows' = rest
      /\ UNCHANGED <<cfg, notifier, stop, sent, failed, merged, accepted, reloads, clock>>
  BY <1>1 DEF DispatcherInv, WorkerOK, WorkerLocked
<1>c. cfg.agg \in Nat /\ cfg.silence \in Nat /\ notifier \in STRING
  BY <1>0, CfgFacts DEF TablesOK
<1>2. Expired \in SUBSET Open /\ Open \subseteq Keys
  BY <1>0 DEF TablesOK, Open, Entries, Expired
<1>3. GoodOut(flushed) /\ Owed(flushed) = Owed(out)
  BY <1>0, <1>c, <1>2, SettleKeeps, Zenon
<1>4. /\ windows' \in [Keys -> Window] /\ Fits(windows', NoWindow)
      /\ \A k \in Keys : windows'[k].start = NoTime => windows'[k] = NoWindow
  BY <1>0, <1>2, ErasedFacts
<1>5. InHand = 0 /\ Owed(out) \in Int /\ accepted \in Nat /\ sent \in Nat /\ failed \in Nat
      /\ merged \in Nat
  BY <1>0, OwedOut DEF InHand, WorkerOK
<1>6. CASE stop
  <2>1. wpc' = "exited" /\ out' = flushed /\ UNCHANGED <<deadline, sending>>
    BY <1>1, <1>6
  <2> HIDE DEF flushed, rest
  <2>2. TablesOK'
    BY <1>0, <1>3, <1>4, <2>1 DEF TablesOK
  <2>3. WorkerOK'
    BY <1>0, <2>1 DEF WorkerOK
  <2>4. Balanced'
    BY <1>0, <1>3, <1>5, <2>1 DEF Balanced, InHand
  <2>5. NeverOversleeps'
    BY <2>1 DEF NeverOversleeps
  <2> QED
    BY <2>2, <2>3, <2>4, <2>5 DEF DispatcherInv
<1>7. CASE ~stop /\ flushed.queue # <<>>
  <2>1. /\ wpc' = "send" /\ out' = [flushed EXCEPT !.queue = Tail(@)] /\ deadline' = NoTime
        /\ sending' = [key |-> Head(flushed.queue), notifier |-> notifier, attempts |-> 0]
    BY <1>1, <1>7
  <2> HIDE DEF flushed, rest
  <2>2. GoodOut(out') /\ Owed(out') = Owed(out) + 1 /\ Head(flushed.queue) \in Keys
    BY <1>3, <1>7, <2>1, TakenKeeps
  <2>3. TablesOK'
    BY <1>0, <1>4, <2>2 DEF TablesOK
  <2>4. WorkerOK'
    <3>1. 0 \in 0..MaxRetries
      BY DispatcherAssumption
    <3>2. sending' \in Sending
      BY <1>c, <2>1, <2>2, <3>1 DEF Sending
    <3> QED
      BY <1>0, <2>1, <3>2 DEF WorkerOK
  <2>5. Balanced'
    <3>1. InHand' = 1
      BY <2>1 DEF InHand
    <3> QED
      BY <1>0, <1>5, <2>2, <3>1 DEF Balanced
  <2>6. NeverOversleeps'
    BY <2>1 DEF NeverOversleeps
  <2> QED
    BY <2>3, <2>4, <2>5, <2>6 DEF DispatcherInv
<1>8. CASE ~stop /\ flushed.queue = <<>>
  <2>1. wpc' = "waiting" /\ deadline' = NextDeadline(rest) /\ out' = flushed
        /\ UNCHANGED sending
    BY <1>1, <1>8
  <2> HIDE DEF flushed, rest
  <2>2. TablesOK'
    BY <1>0, <1>3, <1>4, <2>1 DEF TablesOK
  <2>3. deadline' \in {NoTime} \union Nat
    <3>1. Ends(rest, cfg.agg) \subseteq Nat
      BY <1>0, <1>4, <1>c, EndsType
    <3> QED
      BY <2>1, <3>1, DeadlineIsFirst, FirstType
  <2>4. WorkerOK'
    BY <1>0, <2>1, <2>3 DEF WorkerOK
  <2>5. Balanced'
    BY <1>0, <1>3, <1>5, <2>1 DEF Balanced, InHand
  <2>6. NeverOversleeps'
    <3>1. NextDeadline(windows)' = deadline'
      BY <1>0, <2>1, DeadlineIsFirst
    <3>2. deadline' # NoTime => deadline' <= deadline'
      BY <2>3
    <3> QED
      BY <1>8, <2>1, <3>1, <3>2 DEF NeverOversleeps
  <2> QED
    BY <2>2, <2>4, <2>5, <2>6 DEF DispatcherInv
<1> QED
  BY <1>6, <1>7, <1>8

LEMMA IdleType == Idle \in Sending
<1>1. 0 \in 0..MaxRetries
  BY DispatcherAssumption
<1> QED
  BY <1>1 DEF Idle, Sending

LEMMA SendStep == DispatcherInv /\ WorkerSend => DispatcherInv'
<1> SUFFICES ASSUME DispatcherInv, WorkerSend PROVE DispatcherInv'
  OBVIOUS
<1>0. /\ TablesOK /\ WorkerOK /\ Balanced /\ wpc = "send"
      /\ UNCHANGED <<cfg, notifier, out, windows, stop, deadline, notified, merged,
                     accepted, reloads, clock>>
  BY DEF DispatcherInv, WorkerSend
<1>1. TablesOK'
  BY <1>0 DEF TablesOK
<1>2. /\ Owed(out) \in Int /\ accepted \in Nat /\ sent \in Nat /\ failed \in Nat
      /\ merged \in Nat /\ sending \in Sending /\ InHand = 1
  BY <1>0, OwedOut DEF WorkerOK, InHand
<1>3. CASE wpc' = "crashed" /\ UNCHANGED <<sending, sent, failed>>
  <2>1. WorkerOK'
    BY <1>0, <1>3 DEF WorkerOK
  <2>2. Balanced'
    BY <1>0, <1>3 DEF Balanced, InHand
  <2>3. NeverOversleeps'
    BY <1>3 DEF NeverOversleeps
  <2> QED
    BY <1>1, <2>1, <2>2, <2>3 DEF DispatcherInv
<1>4. ASSUME NEW ok \in BOOLEAN, SendFinished(ok) PROVE DispatcherInv'
  <2>1. /\ wpc' = "top" /\ sending' = Idle /\ sent' \in Nat /\ failed' \in Nat
        /\ \/ sent' = sent + 1 /\ failed' = failed
           \/ sent' = sent /\ failed' = failed + 1
    BY <1>2, <1>4 DEF SendFinished
  <2>2. sending' \in Sending
    BY <2>1, IdleType
  <2>3. WorkerOK'
    BY <1>0, <2>1, <2>2 DEF WorkerOK
  <2>4. Balanced'
    <3>1. InHand' = 0
      BY <2>1 DEF InHand
    <3>2. accepted + Owed(out) = sent + failed + merged + 1
      BY <1>0, <1>2 DEF Balanced
    <3>3. accepted + Owed(out) = sent' + failed' + merged + 0
      <4>1. CASE sent' = sent + 1 /\ failed' = failed
        BY <1>2, <3>2, <4>1
      <4>2. CASE sent' = sent /\ failed' = failed + 1
        BY <1>2, <3>2, <4>2
      <4> QED
        BY <2>1, <4>1, <4>2
    <3> QED
      BY <1>0, <3>1, <3>3 DEF Balanced
  <2>5. NeverOversleeps'
    BY <2>1 DEF NeverOversleeps
  <2> QED
    BY <1>1, <2>3, <2>4, <2>5 DEF DispatcherInv
<1>5. CASE /\ sending.attempts # MaxRetries
           /\ sending' = [sending EXCEPT !.attempts = @ + 1]
           /\ UNCHANGED <<wpc, sent, failed>>
  <2>1. sending' \in Sending
    <3>1. MaxRetries \in Nat /\ sending.attempts \in 0..MaxRetries
      BY <1>2, DispatcherAssumption DEF Sending
    <3>2. sending.attempts + 1 \in 0..MaxRetries
      BY <1>5, <3>1
    <3> QED
      BY <1>2, <1>5, <3>2 DEF Sending
  <2>2. WorkerOK'
    BY <1>0, <1>5, <2>1 DEF WorkerOK
  <2>3. Balanced'
    BY <1>0, <1>5 DEF Balanced, InHand
  <2>4. NeverOversleeps'
    BY <1>0, <1>5 DEF NeverOversleeps
  <2> QED
    BY <1>1, <2>2, <2>3, <2>4 DEF DispatcherInv
<1> QED
  BY <1>3, <1>4, <1>5 DEF WorkerSend

LEMMA ClockStep ==
  DispatcherInv /\ (ClockTick \/ UNCHANGED dispatcherVars) => DispatcherInv'
<1> SUFFICES ASSUME DispatcherInv, ClockTick \/ UNCHANGED dispatcherVars
             PROVE  DispatcherInv'
  OBVIOUS
<1>0. /\ TablesOK /\ WorkerOK /\ Balanced /\ NeverOversleeps
      /\ clock' = clock + 1 \/ clock' = clock
      /\ UNCHANGED <<cfg, notifier, out, windows, stop, wpc, deadline, notified, sending,
                     sent, failed, merged, accepted, reloads>>
  BY DEF DispatcherInv, ClockTick, dispatcherVars, wvars
<1>1. TablesOK'
  BY <1>0 DEF TablesOK
<1>2. WorkerOK'
  BY <1>0 DEF WorkerOK
<1>3. Balanced'
  BY <1>0 DEF Balanced, InHand
<1>4. NeverOversleeps'
  <2>1. NextDeadline(windows)' = NextDeadline(windows)
    BY <1>0, DeadlineIsFirst
  <2> QED
    BY <1>0, <2>1 DEF NeverOversleeps
<1> QED
  BY <1>1, <1>2, <1>3, <1>4 DEF DispatcherInv

LEMMA DispatcherInitInv == DispatcherInit => DispatcherInv
<1> SUFFICES ASSUME DispatcherInit PROVE DispatcherInv
  OBVIOUS
<1>0. /\ cfg = Config0 /\ notifier = Config0.url
      /\ out = [queue |-> <<>>, last |-> [k \in Keys |-> NoTime],
                suppressed |-> 0, dropped |-> 0, digests |-> 0, digested |-> 0]
      /\ windows = [k \in Keys |-> NoWindow] /\ stop = FALSE
      /\ wpc = "top" /\ deadline = NoTime /\ notified = FALSE /\ sending = Idle
      /\ sent = 0 /\ failed = 0 /\ merged = 0 /\ accepted = 0 /\ reloads = 0 /\ clock = 0
  BY DEF DispatcherInit
<1>1. Config0 \in Configs /\ MaxQueue \in Nat /\ MaxWindows \in Nat /\ MaxRetries \in Nat
  BY DispatcherAssumption
<1>2. IsFiniteSet({}) /\ Cardinality({}) = 0 /\ 0 <= MaxWindows
  BY <1>1, FS_EmptySet
<1>3. GoodOut(out)
  <2>1. out.queue = <<>> /\ out.last = [k \in Keys |-> NoTime] /\ out \in OutType
    BY <1>0 DEF OutType, Stamps
  <2>2. Entries(out.last, NoTime) = {}
    BY <2>1 DEF Entries
  <2>3. Len(out.queue) = 0
    BY <2>1
  <2>4. Fits(out.last, NoTime)
    BY <1>1, <1>2, <2>2 DEF Fits
  <2>5. Len(out.queue) <= MaxQueue
    BY <1>1, <2>3
  <2> QED
    BY <2>1, <2>4, <2>5 DEF GoodOut
<1>4. windows \in [Keys -> Window] /\ Fits(windows, NoWindow)
  <2>1. Entries(windows, NoWindow) = {}
    BY <1>0 DEF Entries
  <2>2. NoWindow \in Window
    BY DEF NoWindow, Window
  <2>3. Fits(windows, NoWindow)
    BY <1>1, <1>2, <2>1 DEF Fits
  <2> QED
    BY <1>0, <2>2, <2>3
<1>5. TablesOK
  BY <1>0, <1>1, <1>3, <1>4 DEF TablesOK
<1>6. WorkerOK
  <2> QED
    BY <1>0, IdleType DEF WorkerOK
<1>7. Balanced
  <2>1. Owed(out) = 0
    BY <1>0 DEF Owed
  <2> QED
    BY <1>0, <2>1 DEF Balanced, InHand
<1>8. NeverOversleeps
  BY <1>0 DEF NeverOversleeps
<1> QED
  BY <1>5, <1>6, <1>7, <1>8 DEF DispatcherInv

LEMMA DispatcherStep == DispatcherInv /\ [DispatcherNext]_dispatcherVars => DispatcherInv'
<1> SUFFICES ASSUME DispatcherInv, [DispatcherNext]_dispatcherVars PROVE DispatcherInv'
  OBVIOUS
<1>1. ASSUME NEW k \in Keys, Dispatch(k) PROVE DispatcherInv'
  BY <1>1, MergeStep, OpenStep, PlainStep DEF Dispatch
<1>2. ASSUME NEW c \in Configs, UpdateConfig(c) PROVE DispatcherInv'
  BY <1>2, ConfigStep
<1>3. CASE Stop
  BY <1>3, StopStep
<1>4. CASE Worker
  BY <1>4, LockedStep, SendStep DEF Worker, WorkerTop, WorkerWake
<1>5. CASE ClockTick \/ UNCHANGED dispatcherVars
  BY <1>5, ClockStep
<1> QED
  BY <1>1, <1>2, <1>3, <1>4, <1>5 DEF DispatcherNext

LEMMA DispatcherHolds == DispatcherSpec => []DispatcherInv
<1> QED
  BY DispatcherInitInv, DispatcherStep, PTL DEF DispatcherSpec

(* Types, and every accepted alert counted once, for every limit.          *)
THEOREM AlertsCountedOnce == DispatcherSpec => [](TypeOK /\ CountedOnce)
<1>1. DispatcherInv => TypeOK /\ CountedOnce
  BY InvTypeOK, InvCountedOnce DEF DispatcherInv
<1> QED
  BY <1>1, DispatcherHolds, PTL

(* The worker never sleeps past its work.                                  *)
THEOREM WorkerNeverOversleeps == DispatcherSpec => []NeverOversleeps
<1>1. DispatcherInv => NeverOversleeps
  BY DEF DispatcherInv
<1> QED
  BY <1>1, DispatcherHolds, PTL

-----------------------------------------------------------------------------
(* Merged alerts reach a digest as long as the table has room for every    *)
(* key: a table that overflows is cleared, windows with merged alerts too. *)

RoomForAll == IsFiniteSet(Keys) /\ Cardinality(Keys) <= MaxWindows

PendingType(w) == \A k \in Keys : w[k].pending \in Nat

LEMMA WaitingCount ==
  ASSUME RoomForAll, NEW w, PendingType(w), NEW S \in SUBSET Keys
  PROVE  /\ IsFiniteSet(Waiting(w, S)) /\ Cardinality(Waiting(w, S)) \in Nat
         /\ Cardinality(Waiting(w, Keys))
              = Cardinality(Waiting(w, S)) + Cardinality(Waiting(w, Keys \ S))
         /\ Cardinality(Waiting(w, Keys \ S)) \in Nat
<1>1. IsFiniteSet(Waiting(w, Keys))
  BY WaitingFinite DEF RoomForAll, PendingType
<1>2. /\ IsFiniteSet(Waiting(w, S)) /\ IsFiniteSet(Waiting(w, Keys \ S))
      /\ Cardinality(Waiting(w, Keys))
           = Cardinality(Waiting(w, S)) + Cardinality(Waiting(w, Keys \ S))
  BY <1>1, WaitingSplit
<1> QED
  BY <1>2, FS_CardinalityType

LEMMA WaitingOne ==
  ASSUME NEW w, NEW k, w[k].pending \in Nat
  PROVE  Cardinality(Waiting(w, {k})) = w[k].pending
<1>1. Waiting(w, {}) = {}
  BY DEF Waiting
<1>2. IsFiniteSet(Waiting(w, {})) /\ Cardinality(Waiting(w, {})) = 0
  BY <1>1, FS_EmptySet
<1>3. Cardinality(Waiting(w, {} \union {k})) = Cardinality(Waiting(w, {})) + w[k].pending
  BY <1>2, WaitingAdd
<1>4. {} \union {k} = {k}
  OBVIOUS
<1> QED
  BY <1>2, <1>3, <1>4

(* What waits after the windows of S are closed, or after one window was   *)
(* given v[k].                                                             *)
LEMMA WaitingErased ==
  ASSUME RoomForAll, TablesOK, NEW S \in SUBSET Keys
  PROVE  /\ Cardinality(Waiting(windows, Keys))
              = Cardinality(Waiting(windows, S)) + Cardinality(Waiting(Erased(S), Keys))
         /\ Cardinality(Waiting(Erased(S), Keys)) \in Nat
         /\ Cardinality(Waiting(windows, S)) \in Nat
<1> DEFINE w == Erased(S)
<1>1. /\ \A k \in S : w[k].pending = 0
      /\ \A k \in Keys \ S : w[k].pending = windows[k].pending
      /\ PendingType(windows) /\ PendingType(w)
  <2>1. PendingType(windows)
    BY DEF TablesOK, Window, PendingType
  <2>2. \A k \in Keys : w[k] \in Window
    BY ErasedFacts
  <2> QED
    BY <2>1, <2>2, ErasedFacts DEF Window, PendingType
<1> HIDE DEF w
<1>2. Waiting(w, S) = {}
  BY <1>1, WaitingNone
<1>3. Waiting(w, Keys \ S) = Waiting(windows, Keys \ S)
  BY <1>1, WaitingSame
<1>4. Cardinality(Waiting(w, S)) = 0
  BY <1>2, FS_EmptySet
<1>5. /\ Cardinality(Waiting(w, Keys))
           = Cardinality(Waiting(w, S)) + Cardinality(Waiting(w, Keys \ S))
      /\ Cardinality(Waiting(w, Keys \ S)) \in Nat
  BY <1>1, WaitingCount
<1>6. /\ Cardinality(Waiting(windows, Keys))
           = Cardinality(Waiting(windows, S)) + Cardinality(Waiting(windows, Keys \ S))
      /\ Cardinality(Waiting(windows, S)) \in Nat
  BY <1>1, WaitingCount
<1>7. Cardinality(Waiting(w, Keys)) = Cardinality(Waiting(windows, Keys \ S))
      /\ Cardinality(Waiting(w, Keys)) \in Nat
  BY <1>3, <1>4, <1>5
<1> QED
  BY <1>6, <1>7 DEF w

LEMMA WaitingChanged ==
  ASSUME RoomForAll, NEW w, PendingType(w), NEW v, PendingType(v), NEW k \in Keys,
         \A j \in Keys : j # k => v[j].pending = w[j].pending
  PROVE  /\ Cardinality(Waiting(v, Keys)) \in Nat /\ Cardinality(Waiting(w, Keys)) \in Nat
         /\ Cardinality(Waiting(v, Keys)) + w[k].pending
              = Cardinality(Waiting(w, Keys)) + v[k].pending
<1>1. v[k].pending \in Nat /\ w[k].pending \in Nat /\ {k} \in SUBSET Keys
  BY DEF PendingType
<1>2. Waiting(v, Keys \ {k}) = Waiting(w, Keys \ {k})
  BY WaitingSame
<1>3. /\ Cardinality(Waiting(v, {k})) = v[k].pending
      /\ Cardinality(Waiting(w, {k})) = w[k].pending
  BY <1>1, WaitingOne
<1>4. /\ Cardinality(Waiting(v, Keys))
           = Cardinality(Waiting(v, {k})) + Cardinality(Waiting(v, Keys \ {k}))
      /\ Cardinality(Waiting(v, Keys \ {k})) \in Nat
  BY <1>1, WaitingCount
<1>5. /\ Cardinality(Waiting(w, Keys))
           = Cardinality(Waiting(w, {k})) + Cardinality(Waiting(w, Keys \ {k}))
  BY <1>1, WaitingCount
<1>6. Cardinality(Waiting(v, Keys)) = v[k].pending + Cardinality(Waiting(w, Keys \ {k}))
  BY <1>2, <1>3, <1>4
<1>7. Cardinality(Waiting(w, Keys)) = w[k].pending + Cardinality(Waiting(w, Keys \ {k}))
  BY <1>3, <1>5
<1>8. Cardinality(Waiting(w, Keys \ {k})) \in Nat
  BY <1>2, <1>4
<1> QED
  BY <1>1, <1>6, <1>7, <1>8

LEMMA MergedOnMerge ==
  ASSUME RoomForAll, DispatcherInv, MergedReachDigest, NEW k \in Keys, DispatchMerge(k)
  PROVE  MergedReachDigest'
<1> DEFINE v == [windows EXCEPT ![k].pending = @ + 1]
<1>0. TablesOK /\ windows \in [Keys -> Window] /\ merged \in Nat
      /\ windows' = v /\ merged' = merged + 1 /\ out' = out /\ out.digested \in Nat
  BY OwedOut DEF DispatcherInv, DispatchMerge, TablesOK, WorkerOK
<1>1. PendingType(windows) /\ windows[k].pending \in Nat
  BY <1>0 DEF PendingType, Window
<1>2. /\ v[k].pending = windows[k].pending + 1
      /\ \A j \in Keys : j # k => v[j] = windows[j]
  BY <1>0 DEF Window
<1> HIDE DEF v
<1>3. PendingType(v)
  BY <1>1, <1>2 DEF PendingType
<1>4. /\ Cardinality(Waiting(v, Keys)) + windows[k].pending
           = Cardinality(Waiting(windows, Keys)) + v[k].pending
      /\ Cardinality(Waiting(v, Keys)) \in Nat /\ Cardinality(Waiting(windows, Keys)) \in Nat
  BY <1>1, <1>2, <1>3, WaitingChanged
<1>5. Cardinality(Waiting(v, Keys)) = Cardinality(Waiting(windows, Keys)) + 1
  BY <1>1, <1>2, <1>4
<1> QED
  BY <1>0, <1>4, <1>5 DEF MergedReachDigest

LEMMA MergedOnOpen ==
  ASSUME RoomForAll, DispatcherInv, MergedReachDigest, NEW k \in Keys, DispatchOpen(k)
  PROVE  MergedReachDigest'
<1> DEFINE v == [windows EXCEPT ![k] = [start |-> clock, pending |-> 0]]
<1>0. /\ TablesOK /\ windows \in [Keys -> Window] /\ merged \in Nat /\ clock \in Nat
      /\ windows' = Opened(k) /\ merged' = merged /\ out.digested \in Nat
      /\ out' = Enqueue(FlushWindow(out, k, cfg.silence), k, cfg.silence)
  BY OwedOut DEF DispatcherInv, DispatchOpen, OpenWindow, Opened, TablesOK, WorkerOK
<1>1. PendingType(windows) /\ windows[k].pending \in Nat
  BY <1>0 DEF PendingType, Window
<1>2. /\ v[k].pending = 0 /\ DOMAIN v = Keys
      /\ \A j \in Keys : j # k => v[j] = windows[j]
  BY <1>0
<1>3. Opened(k) = v
  <2>1. Entries(v, NoWindow) \in SUBSET Keys
    BY <1>2 DEF Entries
  <2>2. MaxWindows \in Nat
    BY DispatcherAssumption
  <2> HIDE DEF v
  <2>3. /\ IsFiniteSet(Entries(v, NoWindow))
        /\ Cardinality(Entries(v, NoWindow)) <= Cardinality(Keys)
    BY <2>1, FS_Subset DEF RoomForAll
  <2>4. Cardinality(Entries(v, NoWindow)) \in Nat /\ Cardinality(Keys) \in Nat
    BY <2>3, FS_CardinalityType DEF RoomForAll
  <2>5. Cardinality(Entries(v, NoWindow)) <= MaxWindows
    BY <2>2, <2>3, <2>4 DEF RoomForAll
  <2>6. Bounded(v, k, NoWindow) = v
    BY <2>5 DEF Bounded
  <2> QED
    BY <2>6 DEF Opened, v
<1> HIDE DEF v
<1>4. PendingType(v)
  BY <1>1, <1>2 DEF PendingType
<1>5. /\ Cardinality(Waiting(v, Keys)) + windows[k].pending
           = Cardinality(Waiting(windows, Keys)) + v[k].pending
      /\ Cardinality(Waiting(v, Keys)) \in Nat /\ Cardinality(Waiting(windows, Keys)) \in Nat
  BY <1>1, <1>2, <1>4, WaitingChanged
<1>6. out'.digested = out.digested + windows[k].pending
  BY <1>0, OpenKeeps
<1>7. Cardinality(Waiting(v, Keys)) + windows[k].pending = Cardinality(Waiting(windows, Keys))
  BY <1>2, <1>5
<1>8. merged = Cardinality(Waiting(v, Keys)) + (out.digested + windows[k].pending)
  BY <1>0, <1>1, <1>5, <1>7 DEF MergedReachDigest
<1> QED
  BY <1>0, <1>3, <1>6, <1>8 DEF MergedReachDigest

(* Windows closed by a reload or by the worker.                            *)
LEMMA MergedOnSettle ==
  ASSUME RoomForAll, DispatcherInv, MergedReachDigest,
         NEW S \in SUBSET Open, NEW order \in SetToSeqs(S), NEW silence \in Nat,
         windows' = Erased(S), merged' = merged,
         out'.digested = FlushWindows(out, order, silence).digested
  PROVE  MergedReachDigest'
<1>0. TablesOK /\ merged \in Nat /\ clock \in Nat /\ out.digested \in Nat
  BY OwedOut DEF DispatcherInv, WorkerOK
<1>1. S \in SUBSET Keys
  BY <1>0 DEF TablesOK, Open, Entries
<1>2. out'.digested = out.digested + Cardinality(Waiting(windows, S))
  BY <1>0, SettleKeeps
<1>3. /\ Cardinality(Waiting(windows, Keys))
           = Cardinality(Waiting(windows, S)) + Cardinality(Waiting(Erased(S), Keys))
      /\ Cardinality(Waiting(Erased(S), Keys)) \in Nat
      /\ Cardinality(Waiting(windows, S)) \in Nat
  BY <1>0, <1>1, WaitingErased
<1>4. merged = Cardinality(Waiting(windows, Keys)) + out.digested
  BY DEF MergedReachDigest
<1>5. merged = Cardinality(Waiting(Erased(S), Keys))
                 + (out.digested + Cardinality(Waiting(windows, S)))
  BY <1>0, <1>3, <1>4
<1> QED
  BY <1>2, <1>5 DEF MergedReachDigest

LEMMA MergedOnReload ==
  ASSUME RoomForAll, DispatcherInv, MergedReachDigest, NEW c \in Configs, UpdateConfig(c)
  PROVE  MergedReachDigest'
<1>0. merged' = merged
  BY DEF UpdateConfig
<1>1. CASE cfg.agg > 0 /\ c.agg = 0
  <2>1. PICK order \in SetToSeqs(Open) : out' = FlushWindows(out, order, c.silence)
    BY <1>1 DEF UpdateConfig
  <2>2. windows' = Erased(Open)
    BY <1>1 DEF UpdateConfig
  <2>3. c.silence \in Nat
    BY CfgFacts
  <2> QED
    BY <1>0, <2>1, <2>2, <2>3, MergedOnSettle
<1>2. CASE ~(cfg.agg > 0 /\ c.agg = 0)
  <2>1. out' = out /\ windows' = windows
    BY <1>2 DEF UpdateConfig
  <2> QED
    BY <1>0, <2>1 DEF MergedReachDigest
<1> QED
  BY <1>1, <1>2

LEMMA MergedOnWorker ==
  ASSUME RoomForAll, DispatcherInv, MergedReachDigest, WorkerLocked
  PROVE  MergedReachDigest'
<1>1. merged' = merged
  BY DEF WorkerLocked
<1>2. cfg.silence \in Nat /\ TablesOK /\ clock \in Nat
  BY CfgFacts DEF DispatcherInv, TablesOK, WorkerOK
<1>3. Expired \in SUBSET Open
  BY DEF Expired
<1>4. PICK order \in SetToSeqs(Expired) :
        /\ windows' = Erased(Expired)
        /\ out' \in {FlushWindows(out, order, cfg.silence),
                     [FlushWindows(out, order, cfg.silence) EXCEPT !.queue = Tail(@)]}
  BY DEF WorkerLocked
<1> DEFINE f == FlushWindows(out, order, cfg.silence)
<1>5. GoodOut(f)
  BY <1>2, <1>3, SettleKeeps
<1>6. out'.digested = f.digested
  <2> HIDE DEF f
  <2>1. f \in OutType
    BY <1>5 DEF GoodOut
  <2>2. [f EXCEPT !.queue = Tail(@)].digested = f.digested
    BY <2>1 DEF OutType
  <2>3. out' \in {f, [f EXCEPT !.queue = Tail(@)]}
    BY <1>4 DEF f
  <2> QED
    BY <2>2, <2>3
<1> QED
  BY <1>1, <1>2, <1>3, <1>4, <1>6, MergedOnSettle

LEMMA MergedStep ==
  RoomForAll /\ DispatcherInv /\ MergedReachDigest /\ [DispatcherNext]_dispatcherVars
    => MergedReachDigest'
<1> SUFFICES ASSUME RoomForAll, DispatcherInv, MergedReachDigest,
                    [DispatcherNext]_dispatcherVars
             PROVE  MergedReachDigest'
  OBVIOUS
<1>1. ASSUME NEW k \in Keys, Dispatch(k) PROVE MergedReachDigest'
  <2>1. CASE DispatchPlain(k)
    <3>1. windows' = windows /\ merged' = merged /\ out' = Enqueue(out, k, cfg.silence)
      BY <2>1 DEF DispatchPlain
    <3>2. out'.digested = out.digested
      BY <3>1, PlainKeeps DEF DispatcherInv, WorkerOK
    <3> QED
      BY <3>1, <3>2 DEF MergedReachDigest
  <2> QED
    BY <1>1, <2>1, MergedOnMerge, MergedOnOpen DEF Dispatch
<1>2. ASSUME NEW c \in Configs, UpdateConfig(c) PROVE MergedReachDigest'
  BY <1>2, MergedOnReload
<1>3. CASE WorkerTop \/ WorkerWake
  BY <1>3, MergedOnWorker DEF WorkerTop, WorkerWake
<1>4. CASE UNCHANGED <<windows, out, merged>>
  BY <1>4 DEF MergedReachDigest
<1>5. CASE Stop \/ WorkerSend \/ ClockTick \/ UNCHANGED dispatcherVars
  <2>1. UNCHANGED <<windows, out, merged>>
    BY <1>5 DEF Stop, WorkerSend, ClockTick, dispatcherVars
  <2> QED
    BY <1>4, <2>1
<1> QED
  BY <1>1, <1>2, <1>3, <1>5 DEF DispatcherNext, Worker

(* Every merged alert waits in an open window or is in a digest.           *)
THEOREM MergedAlertsReachDigest ==
  ASSUME RoomForAll
  PROVE  DispatcherSpec => []NotifyInv
<1> DEFINE Inv == DispatcherInv /\ MergedReachDigest
<1>1. DispatcherInit => MergedReachDigest
  <2> SUFFICES ASSUME DispatcherInit PROVE MergedReachDigest
    OBVIOUS
  <2>1. /\ windows = [k \in Keys |-> NoWindow] /\ merged = 0 /\ out.digested = 0
    BY DEF DispatcherInit
  <2>2. \A k \in Keys : windows[k].pending = 0
    BY <2>1 DEF NoWindow
  <2>3. Waiting(windows, Keys) = {}
    BY <2>2, WaitingNone
  <2>4. Cardinality(Waiting(windows, Keys)) = 0
    BY <2>3, FS_EmptySet
  <2> QED
    BY <2>1, <2>4 DEF MergedReachDigest
<1>2. DispatcherInit => Inv
  BY <1>1, DispatcherInitInv
<1>3. Inv /\ [DispatcherNext]_dispatcherVars => Inv'
  BY DispatcherStep, MergedStep
<1>4. Inv => NotifyInv
  BY InvTypeOK, InvCountedOnce DEF DispatcherInv, NotifyInv
<1> QED
  BY <1>2, <1>3, <1>4, PTL DEF DispatcherSpec
=============================================================================
