-------------------------- MODULE RingBackpressure --------------------------
(***************************************************************************)
(* The path of a file event from an LSM hook through the kernel ring       *)
(* buffer to the main loop of the monitor, with the watermark feedback     *)
(* (bpf/bpf_common.h, bpf/lsm_file.bpf.c, baseline/monitor.cpp,            *)
(* baseline/watermark_backpressure.cpp).                                   *)
(*                                                                         *)
(* A hook that matched a rule reads the watermark level, decides           *)
(* realtime / batch / drop for the event's severity, reserves a record,    *)
(* fills it (the record is busy meanwhile) and submits it.  The kernel     *)
(* wakes the main loop only if the submit does not carry NO_WAKEUP and the *)
(* consumer has caught up with this very record.  The main loop consumes   *)
(* the ring only when epoll reports it, and once a second it publishes a   *)
(* new level computed from the ring's utilization.                         *)
(***************************************************************************)
EXTENDS Naturals, Sequences, FiniteSets, Functions

CONSTANTS
  Hooks,         (* hook runs that may be in progress at once (one per CPU) *)
  Targets,       (* what a hook may match: [sev, block] records, the highest *)
                 (* severity and the strongest action of an inode's rules    *)
  RingSize,      (* records the ring holds                                  *)
  MaxCalls,      (* bound: number of hook calls                             *)
  WarningPct, HighPct, OverloadPct   (* k*Threshold, per cent: 70, 85, 95   *)

LOW == 0
MEDIUM == 1
HIGH == 2
CRITICAL == 3

(* levels of the watermark_level map *)
NORMAL == 0
WARNING == 1
HIGHWATER == 2
OVERLOAD == 3

ASSUME TargetAssumption == Targets \subseteq [sev : LOW..CRITICAL, block : BOOLEAN]
ASSUME RingSizeAssumption == RingSize \in Nat \ {0} /\ MaxCalls \in Nat
ASSUME ThresholdAssumption ==
  /\ {WarningPct, HighPct, OverloadPct} \subseteq 1..100
  /\ WarningPct < HighPct /\ HighPct < OverloadPct

VARIABLES
  ring,      (* the unread records, oldest first                            *)
  cons,      (* consumer position: records consumed so far                  *)
  level,     (* the watermark_level map                                     *)
  hpc, call, at, bp, pos,   (* per hook run: program counter, the targets it
                matched, the one being settled, backpressure decision,
                position of its record *)
  allowed,   (* history: the targets of the operations let through          *)
  drop_stats,(* counters of the kernel: emitted, reserve_fail, backpressure *)
  hits,      (* history: rule matches so far                                *)
  calls,     (* hook calls so far                                           *)
  mpc,       (* main loop program counter                                   *)
  level_,    (* the level computed last in user space                       *)
  ready      (* epoll: the ring is on the ready list                        *)

hvars == <<hpc, call, at, bp, pos, allowed, drop_stats, hits, calls>>
mvars == <<mpc, level_, level, cons>>
vars  == <<ring, ready, hvars, mvars>>

Records == [sev : LOW..CRITICAL, batch : BOOLEAN, busy : BOOLEAN]

Init ==
  /\ ring = <<>> /\ cons = 0 /\ level = NORMAL
  /\ hpc = [h \in Hooks |-> "idle"]
  /\ call = [h \in Hooks |-> <<>>]
  /\ at = [h \in Hooks |-> 1]
  /\ bp = [h \in Hooks |-> "realtime"]
  /\ pos = [h \in Hooks |-> 0]
  /\ allowed = {}
  /\ drop_stats = [emitted |-> 0, reserve_fail |-> 0, backpressure |-> 0]
  /\ hits = 0 /\ calls = 0
  /\ mpc = "wait" /\ level_ = NORMAL /\ ready = FALSE

prod == cons + Len(ring)      (* producer position *)

-----------------------------------------------------------------------------
(* Kernel: the hooks *)

check_backpressure(sev) ==
  CASE level = WARNING   /\ sev = LOW             -> "batch"
    [] level = HIGHWATER /\ sev = LOW             -> "drop"
    [] level = HIGHWATER /\ sev = MEDIUM          -> "batch"
    [] level = OVERLOAD  /\ sev \in {LOW, MEDIUM} -> "drop"
    [] level = OVERLOAD  /\ sev = HIGH            -> "batch"
    [] OTHER                                      -> "realtime"

(* A hook matched one target; inode_rename checks the old name, then the new. *)
HookBegin(h) ==
  /\ hpc[h] = "idle"
  /\ calls < MaxCalls
  /\ \E n \in 1..2 : \E c \in [1..n -> Targets] : call' = [call EXCEPT ![h] = c]
  /\ calls' = calls + 1
  /\ hpc' = [hpc EXCEPT ![h] = "check"]
  /\ UNCHANGED <<ring, ready, mvars, at, bp, pos, allowed, drop_stats, hits>>

(* The target is settled: a refusal ends the hook, or the next target is due. *)
Settle(h, denied) ==
  LET returns == denied \/ at[h] = Len(call[h])
  IN  /\ hpc' = [hpc EXCEPT ![h] = IF returns THEN "idle" ELSE "check"]
      /\ call' = [call EXCEPT ![h] = IF returns THEN <<>> ELSE @]
      /\ at' = [at EXCEPT ![h] = IF returns THEN 1 ELSE @ + 1]
      /\ bp' = [bp EXCEPT ![h] = "realtime"]
      /\ pos' = [pos EXCEPT ![h] = 0]
      /\ allowed' = IF returns /\ ~denied THEN allowed \cup Range(call[h])
                                         ELSE allowed

Blocks(h) == call[h][at[h]].block

(* an event shed by backpressure ends the hook before its action is applied *)
HookDrop(h) ==
  /\ hpc[h] = "check"
  /\ check_backpressure(call[h][at[h]].sev) = "drop"
  /\ hits' = hits + 1
  /\ drop_stats' = [drop_stats EXCEPT !.backpressure = @ + 1]
  /\ Settle(h, FALSE)
  /\ UNCHANGED <<ring, ready, mvars, calls>>

HookDecide(h) ==
  /\ hpc[h] = "check"
  /\ check_backpressure(call[h][at[h]].sev) # "drop"
  /\ hits' = hits + 1
  /\ bp' = [bp EXCEPT ![h] = check_backpressure(call[h][at[h]].sev)]
  /\ hpc' = [hpc EXCEPT ![h] = "reserve"]
  /\ UNCHANGED <<ring, ready, mvars, call, at, pos, allowed, drop_stats, calls>>

HookReserve(h) ==
  /\ hpc[h] = "reserve"
  /\ Len(ring) < RingSize
  /\ ring' = Append(ring, [sev |-> call[h][at[h]].sev,
                           batch |-> bp[h] = "batch", busy |-> TRUE])
  /\ pos' = [pos EXCEPT ![h] = prod]
  /\ hpc' = [hpc EXCEPT ![h] = "fill"]
  /\ UNCHANGED <<ready, mvars, call, at, bp, allowed, drop_stats, hits, calls>>

(* Mutant: a failed reservation is not counted. *)
HookReserveFails_Uncounted(h) ==
  /\ hpc[h] = "reserve"
  /\ Len(ring) = RingSize
  /\ Settle(h, Blocks(h))
  /\ UNCHANGED <<ring, ready, mvars, drop_stats, hits, calls>>

(* Mutant: a failed reservation returns before the action is applied. *)
HookReserveFails_Allows(h) ==
  /\ hpc[h] = "reserve"
  /\ Len(ring) = RingSize
  /\ drop_stats' = [drop_stats EXCEPT !.reserve_fail = @ + 1]
  /\ Settle(h, FALSE)
  /\ UNCHANGED <<ring, ready, mvars, hits, calls>>

HookReserveFails(h) ==
  /\ hpc[h] = "reserve"
  /\ Len(ring) = RingSize
  /\ drop_stats' = [drop_stats EXCEPT !.reserve_fail = @ + 1]
  /\ Settle(h, Blocks(h))
  /\ UNCHANGED <<ring, ready, mvars, hits, calls>>

(* bpf_ringbuf_submit clears the busy bit first ... *)
HookCommit(h) ==
  /\ hpc[h] = "fill"
  /\ ring' = [ring EXCEPT ![pos[h] - cons + 1].busy = FALSE]
  /\ hpc' = [hpc EXCEPT ![h] = "notify"]
  /\ UNCHANGED <<ready, mvars, call, at, bp, pos, allowed, drop_stats, hits, calls>>

(* ... and then decides about the wakeup from the consumer's position. *)
(* Mutant: the wakeup flag is inverted. *)
Wakes_Inverted(h) == bp[h] = "batch" /\ cons = pos[h]

(* Mutant: only the submitter of a record that is alone in the ring wakes. *)
Wakes_OnlyAlone(h) == bp[h] # "batch" /\ cons = pos[h] /\ Len(ring) = 1

Wakes(h) == bp[h] # "batch" /\ cons = pos[h]

HookNotify(h) ==
  /\ hpc[h] = "notify"
  /\ ready' = (ready \/ Wakes(h))
  /\ drop_stats' = [drop_stats EXCEPT !.emitted = @ + 1]
  /\ Settle(h, Blocks(h))
  /\ UNCHANGED <<ring, mvars, hits, calls>>

-----------------------------------------------------------------------------
(* User space: one iteration of the main loop *)

(* epoll_wait polls the rings on its ready list again and reports the      *)
(* readable ones; they stay on the list (level-triggered)                  *)
MainWoken ==
  /\ mpc = "wait"
  /\ ready /\ ring # <<>>
  /\ mpc' = "consume"
  /\ UNCHANGED <<ring, ready, hvars, level_, level, cons>>

MainTimeout ==
  /\ mpc = "wait"
  /\ ~ready \/ ring = <<>>
  /\ ready' = FALSE
  /\ mpc' = "tick"
  /\ UNCHANGED <<ring, hvars, level_, level, cons>>

HeadReadable == ring # <<>> /\ ~ring[1].busy

(* ring_buffer__consume hands records to the callback up to a busy one *)
MainConsume ==
  /\ mpc = "consume"
  /\ HeadReadable
  /\ ring' = Tail(ring)
  /\ cons' = cons + 1
  /\ UNCHANGED <<ready, hvars, mpc, level_, level>>

MainConsumed ==
  /\ mpc = "consume"
  /\ ~HeadReadable
  /\ mpc' = "tick"
  /\ UNCHANGED <<ring, ready, hvars, level_, level, cons>>

(* less than a second since the last sample *)
MainNoSample ==
  /\ mpc = "tick"
  /\ mpc' = "wait"
  /\ UNCHANGED <<ring, ready, hvars, level_, level, cons>>

UtilizationAtLeast(pct) == Len(ring) * 100 >= pct * RingSize

UpdateUtilization ==
  /\ mpc = "tick"
  /\ level_' = IF ~UtilizationAtLeast(WarningPct) THEN NORMAL
               ELSE IF ~UtilizationAtLeast(HighPct) THEN WARNING
               ELSE IF ~UtilizationAtLeast(OverloadPct) THEN HIGHWATER
               ELSE OVERLOAD
  /\ mpc' = "publish"
  /\ UNCHANGED <<ring, ready, hvars, level, cons>>

MainPublish ==
  /\ mpc = "publish"
  /\ level' = level_
  /\ mpc' = "wait"
  /\ UNCHANGED <<ring, ready, hvars, level_, cons>>

-----------------------------------------------------------------------------
HookStep(h) ==
  \/ HookDrop(h) \/ HookDecide(h) \/ HookReserve(h) \/ HookReserveFails(h)
  \/ HookCommit(h) \/ HookNotify(h)

Main ==
  \/ MainWoken \/ MainTimeout \/ MainConsume \/ MainConsumed
  \/ MainNoSample \/ UpdateUtilization \/ MainPublish

(* The machine may stay quiet for ever, but a hook that began runs on. *)
Next == Main \/ \E h \in Hooks : HookBegin(h) \/ HookStep(h)

Spec == Init /\ [][Next]_vars

(* Hooks do not block; the main loop runs on. *)
Fairness ==
  /\ \A h \in Hooks : WF_vars(HookStep(h))
  /\ WF_vars(Main)

FairSpec == Spec /\ Fairness

-----------------------------------------------------------------------------
(* Properties *)

(* Each variable holds what the code keeps in it. *)
TypeOK ==
  /\ ring \in Seq(Records) /\ Len(ring) <= RingSize
  /\ cons \in Nat
  /\ level \in NORMAL..OVERLOAD /\ level_ \in NORMAL..OVERLOAD
  /\ hpc \in [Hooks -> {"idle", "check", "reserve", "fill", "notify"}]
  /\ call \in [Hooks -> Seq(Targets)]
  /\ at \in [Hooks -> 1..2]
  /\ bp \in [Hooks -> {"realtime", "batch"}]
  /\ pos \in [Hooks -> Nat]
  /\ allowed \subseteq Targets
  /\ drop_stats \in [{"emitted", "reserve_fail", "backpressure"} -> Nat]
  /\ hits \in Nat /\ calls \in 0..MaxCalls
  /\ mpc \in {"wait", "consume", "tick", "publish"}
  /\ ready \in BOOLEAN

(***************************************************************************)
(* The adaptive wakeup is sound: when epoll does not hold the ring ready   *)
(* although records are unread, the oldest is still being written, or its  *)
(* submitter has yet to decide about the wakeup, or it was submitted       *)
(* without one.  (The record the consumer waits on is never a realtime one *)
(* whose wakeup was skipped.)                                              *)
(***************************************************************************)
NoLostWakeup ==
  ~ready /\ ring # <<>> =>
    \/ ring[1].busy
    \/ ring[1].batch
    \/ \E h \in Hooks : hpc[h] = "notify" /\ pos[h] = cons

(***************************************************************************)
(* The counters reconcile: every rule match is emitted, failed to reserve, *)
(* was shed, or is in a hook; what was emitted is consumed or readable.    *)
(***************************************************************************)
InHook(S) == Cardinality({h \in Hooks : hpc[h] \in S})

Reconciled ==
  /\ hits = drop_stats.emitted + drop_stats.reserve_fail
            + drop_stats.backpressure + InHook({"reserve", "fill", "notify"})
  /\ prod = drop_stats.emitted + InHook({"fill", "notify"})

(* What holds of the ring between any two steps, whoever runs next: the     *)
(* types above and the counters of kernel and ring against each other.      *)
RingInv == TypeOK /\ Reconciled

(* Losing the event to a full ring never loses the refusal: an operation    *)
(* that matches a BLOCK rule is let through only where backpressure shed    *)
(* the event (a hook then returns before it looks at the action).           *)
BlockSurvivesFullRing ==
  drop_stats.backpressure = 0 => \A t \in allowed : ~t.block

(* As long as no record is batched, every record reserved in the ring      *)
(* reaches the callback: the wakeups that are skipped are superfluous.     *)
NothingBatched == \A i \in DOMAIN ring : ~ring[i].batch
EverySubmittedIsConsumed ==
  []NothingBatched => \A n \in 1..2*MaxCalls : (prod >= n) ~> (cons >= n)

=============================================================================
