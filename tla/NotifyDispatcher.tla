-------------------------- MODULE NotifyDispatcher --------------------------
(***************************************************************************)
(* The asynchronous alert dispatcher (alerts/notify_dispatcher.cpp,        *)
(* alerts/notify_router.hpp).                                              *)
(*                                                                         *)
(* The telemetry consumer calls Dispatch, the main thread UpdateConfig     *)
(* (SIGHUP), a worker sends what is queued.  Repeated alerts of one key    *)
(* (rule and object) are merged into an aggregation window, which is       *)
(* closed with one digest; what leaves either way passes the silence       *)
(* check.  Every method body runs under one mutex and is one step; the     *)
(* worker sends outside the mutex, one step per attempt, and sleeps on a   *)
(* condition variable until it is notified or the next window ends.        *)
(* Alerts below min_level leave the state alone and are not modelled.      *)
(***************************************************************************)
EXTENDS Integers, Sequences, FiniteSets, SequencesExt

CONSTANTS
  Keys,         (* rule_id | object key                                     *)
  Configs,      (* notify: sections that a reload may install               *)
  Config0,      (* the one installed at startup                             *)
  MaxQueue,     (* kMaxQueue: 1024                                          *)
  MaxWindows,   (* entries kept in either map before it is cleared: 4096    *)
  MaxRetries,   (* kMaxRetries: 2                                           *)
  MaxAlerts, MaxReloads, MaxTime,  (* bounds: Dispatch calls, reloads, clock *)
  LastDispatch  (* bound: no Dispatch after it, so that windows end by MaxTime *)

NoUrl == ""                    (* no notifier object *)
NoTime == -1                   (* no entry in last_sent_, no deadline *)
NoWindow == [start |-> NoTime, pending |-> 0]

(* a configuration, with both windows in clock ticks, 0 = off *)
ConfigType == [enabled : BOOLEAN, url : STRING, silence : Nat, agg : Nat]

ASSUME DispatcherAssumption ==
  /\ Configs \subseteq ConfigType /\ Config0 \in Configs
  /\ {MaxQueue, MaxWindows} \subseteq Nat \ {0}
  /\ {MaxRetries, MaxAlerts, MaxReloads, MaxTime, LastDispatch} \subseteq Nat

VARIABLES
  cfg, notifier,
  out,        (* [queue, last, suppressed, dropped, digests, digested]:     *)
              (* queue_, last_sent_, two counters, and the history of the   *)
              (* digests made and of the alerts they stand for              *)
  windows,    (* agg_windows_                                               *)
  stop,
  wpc, deadline, notified,     (* worker: program counter, wait_until time, *)
                               (* and whether cv_ was notified in the wait  *)
  sending,    (* the item, its notifier and the failed attempts             *)
  sent, failed, merged,        (* counters                                  *)
  accepted,   (* history: alerts that passed the routing                    *)
  reloads,
  clock       (* steady_clock                                               *)

wvars == <<wpc, deadline, notified, sending, sent, failed>>
dispatcherVars ==
  <<cfg, notifier, out, windows, stop, wvars, merged, accepted, reloads, clock>>

Idle == [key |-> "", notifier |-> NoUrl, attempts |-> 0]

DispatcherInit ==
  /\ cfg = Config0
  /\ notifier = Config0.url
  /\ out = [queue |-> <<>>, last |-> [k \in Keys |-> NoTime],
            suppressed |-> 0, dropped |-> 0, digests |-> 0, digested |-> 0]
  /\ windows = [k \in Keys |-> NoWindow]
  /\ stop = FALSE
  /\ wpc = "top" /\ deadline = NoTime /\ notified = FALSE
  /\ sending = Idle
  /\ sent = 0 /\ failed = 0 /\ merged = 0 /\ accepted = 0
  /\ reloads = 0 /\ clock = 0

-----------------------------------------------------------------------------
(* Helpers, all run with mu_ held *)

WindowActive(start, length) == length > 0 /\ clock - start < length

Entries(f, absent) == {k \in DOMAIN f : f[k] # absent}

(* a map grown beyond its limit is cleared but for the entry just made *)
Bounded(f, k, absent) ==
  IF Cardinality(Entries(f, absent)) <= MaxWindows THEN f
  ELSE [j \in DOMAIN f |-> IF j = k THEN f[j] ELSE absent]

(* mutants: a full queue drops uncounted; the limit is checked too late *)
Enqueue_DropsSilently(o, k, silence) ==
  IF silence > 0 /\ o.last[k] # NoTime /\ WindowActive(o.last[k], silence)
    THEN [o EXCEPT !.suppressed = @ + 1]
  ELSE IF Len(o.queue) >= MaxQueue THEN o
  ELSE [o EXCEPT !.queue = Append(@, k),
                 !.last[k] = IF silence > 0 THEN clock ELSE @]

(* EnqueueWithSilence: the only way into the queue *)
Enqueue(o, k, silence) ==
  IF silence > 0 /\ o.last[k] # NoTime /\ WindowActive(o.last[k], silence)
    THEN [o EXCEPT !.suppressed = @ + 1]
  ELSE IF Len(o.queue) >= MaxQueue
    THEN [o EXCEPT !.dropped = @ + 1]
  ELSE [o EXCEPT !.queue = Append(@, k),
                 !.last = IF silence > 0
                          THEN Bounded([@ EXCEPT ![k] = clock], k, NoTime)
                          ELSE @]

(* FlushAggWindowLocked: a window that merged something leaves a digest *)
FlushWindow(o, k, silence) ==
  IF windows[k].pending = 0 THEN o
  ELSE Enqueue([o EXCEPT !.digests = @ + 1,
                         !.digested = @ + windows[k].pending], k, silence)

(* several windows are flushed in the order of the hash table *)
FlushWindows(o, order, silence) ==
  LET flushed[i \in 0..Len(order)] ==
        IF i = 0 THEN o ELSE FlushWindow(flushed[i - 1], order[i], silence)
  IN  flushed[Len(order)]

Erased(S) == [k \in Keys |-> IF k \in S THEN NoWindow ELSE windows[k]]

Open == Entries(windows, NoWindow)
Expired == {k \in Open : cfg.agg > 0 /\ ~WindowActive(windows[k].start, cfg.agg)}

(* NextAggFlushDeadlineLocked, of the windows w; NoTime: wait without limit *)
NextDeadline(w) ==
  LET ends == {w[k].start + cfg.agg : k \in Entries(w, NoWindow)}
  IN  IF cfg.agg = 0 \/ ends = {} THEN NoTime
      ELSE CHOOSE e \in ends : \A f \in ends : e <= f

Notify == notified' = (notified \/ wpc = "waiting")

-----------------------------------------------------------------------------
(* Consumer thread *)

MayDispatch ==
  /\ ~stop /\ wpc # "crashed"
  /\ accepted < MaxAlerts /\ clock <= LastDispatch
  /\ cfg.enabled /\ notifier # NoUrl

(* the alert joins the open window of its key *)
DispatchMerge(k) ==
  /\ MayDispatch
  /\ k \in Open
  /\ WindowActive(windows[k].start, cfg.agg)
  /\ accepted' = accepted + 1
  /\ windows' = [windows EXCEPT ![k].pending = @ + 1]
  /\ merged' = merged + 1
  /\ UNCHANGED <<cfg, notifier, out, stop, wvars, reloads, clock>>

(* no window, or one that is over: settle it, open a new one, send at once *)
OpenWindow(k) ==
  /\ MayDispatch
  /\ cfg.agg > 0
  /\ k \in Open => ~WindowActive(windows[k].start, cfg.agg)
  /\ accepted' = accepted + 1
  /\ windows' = Bounded([windows EXCEPT ![k] = [start |-> clock, pending |-> 0]],
                        k, NoWindow)
  /\ out' = Enqueue(FlushWindow(out, k, cfg.silence), k, cfg.silence)
  /\ UNCHANGED <<cfg, notifier, stop, wpc, deadline, sending, sent, failed,
                 merged, reloads, clock>>

(* mutants: a window opened by a silenced alert wakes nobody; nor does any *)
DispatchOpen_NotifyOnEnqueue(k) ==
  OpenWindow(k) /\ IF out'.queue # out.queue THEN Notify ELSE UNCHANGED notified

(* the worker is woken whether or not something was queued *)
DispatchOpen(k) == OpenWindow(k) /\ Notify

DispatchPlain(k) ==
  /\ MayDispatch
  /\ cfg.agg = 0
  /\ accepted' = accepted + 1
  /\ out' = Enqueue(out, k, cfg.silence)
  /\ IF out'.queue # out.queue THEN Notify ELSE UNCHANGED notified
  /\ UNCHANGED <<cfg, notifier, windows, stop, wpc, deadline, sending, sent,
                 failed, merged, reloads, clock>>

-----------------------------------------------------------------------------
(* Main thread *)

(* turning aggregation off settles every open window *)
UpdateConfig(c) ==
  /\ ~stop /\ wpc # "crashed" /\ reloads < MaxReloads
  /\ reloads' = reloads + 1
  /\ cfg' = c
  /\ notifier' = c.url
  /\ IF cfg.agg > 0 /\ c.agg = 0
       THEN /\ \E order \in SetToSeqs(Open) : out' = FlushWindows(out, order, c.silence)
            /\ windows' = Erased(Open)
       ELSE UNCHANGED <<out, windows>>
  /\ Notify
  /\ UNCHANGED <<stop, wpc, deadline, sending, sent, failed, merged, accepted, clock>>

(* mutant: the worker is not told *)
Stop_NoNotify ==
  /\ ~stop /\ wpc # "crashed"
  /\ stop' = TRUE
  /\ UNCHANGED <<cfg, notifier, out, windows, wvars, merged, accepted, reloads, clock>>

(* the destructor *)
Stop ==
  /\ ~stop /\ wpc # "crashed"
  /\ stop' = TRUE
  /\ Notify
  /\ UNCHANGED <<cfg, notifier, out, windows, wpc, deadline, sending, sent,
                 failed, merged, accepted, reloads, clock>>

-----------------------------------------------------------------------------
(* Worker thread *)

(* With mu_ held: settle the windows that are over, then leave, take an     *)
(* item, or wait until the end of the next window.                          *)
WorkerLocked ==
  /\ \E order \in SetToSeqs(Expired) :
       LET flushed == FlushWindows(out, order, cfg.silence)
           rest    == Erased(Expired)
       IN  /\ windows' = rest
           /\ IF stop THEN /\ wpc' = "exited"
                           /\ out' = flushed
                           /\ UNCHANGED <<deadline, sending>>
              ELSE IF flushed.queue # <<>>
                THEN /\ wpc' = "send"
                     /\ sending' = [key |-> Head(flushed.queue),
                                    notifier |-> notifier, attempts |-> 0]
                     /\ out' = [flushed EXCEPT !.queue = Tail(@)]
                     /\ deadline' = NoTime
              ELSE /\ wpc' = "waiting"
                   /\ deadline' = NextDeadline(rest)
                   /\ out' = flushed
                   /\ UNCHANGED sending
  /\ notified' = FALSE
  /\ UNCHANGED <<cfg, notifier, stop, sent, failed, merged, accepted, reloads, clock>>

WorkerTop == wpc = "top" /\ WorkerLocked

WorkerWake ==
  /\ wpc = "waiting"
  /\ notified \/ (deadline # NoTime /\ clock >= deadline)
  /\ WorkerLocked

SendFinished(ok) ==
  /\ wpc' = "top"
  /\ sending' = Idle
  /\ sent' = IF ok THEN sent + 1 ELSE sent
  /\ failed' = IF ok THEN failed ELSE failed + 1

(* one attempt; calling Send through a null pointer ends the process *)
WorkerSend ==
  /\ wpc = "send"
  /\ IF sending.notifier = NoUrl
       THEN wpc' = "crashed" /\ UNCHANGED <<sending, sent, failed>>
       ELSE \/ SendFinished(TRUE)
            \/ IF sending.attempts = MaxRetries THEN SendFinished(FALSE)
               ELSE /\ sending' = [sending EXCEPT !.attempts = @ + 1]
                    /\ UNCHANGED <<wpc, sent, failed>>
  /\ UNCHANGED <<cfg, notifier, out, windows, stop, deadline, notified, merged,
                 accepted, reloads, clock>>

-----------------------------------------------------------------------------
ClockTick ==
  /\ clock < MaxTime
  /\ clock' = clock + 1
  /\ UNCHANGED <<cfg, notifier, out, windows, stop, wvars, merged, accepted, reloads>>

Dispatch(k) == DispatchMerge(k) \/ DispatchOpen(k) \/ DispatchPlain(k)
Worker == WorkerTop \/ WorkerWake \/ WorkerSend

DispatcherNext ==
  \/ \E k \in Keys : Dispatch(k)
  \/ \E c \in Configs : UpdateConfig(c)
  \/ Stop \/ Worker \/ ClockTick

DispatcherSpec == DispatcherInit /\ [][DispatcherNext]_dispatcherVars

(* the worker is scheduled and time passes; calls come or do not come *)
DispatcherFairSpec == DispatcherSpec /\ WF_dispatcherVars(Worker) /\ WF_dispatcherVars(ClockTick)

-----------------------------------------------------------------------------
(* Properties *)

(* Each variable holds what the code keeps in it. *)
TypeOK ==
  /\ cfg \in Configs /\ notifier = cfg.url
  /\ out \in [queue : Seq(Keys), last : [Keys -> {NoTime} \cup Nat],
               suppressed : Nat, dropped : Nat, digests : Nat, digested : Nat]
  /\ Len(out.queue) <= MaxQueue
  /\ Cardinality(Entries(out.last, NoTime)) <= MaxWindows
  /\ windows \in [Keys -> [start : {NoTime} \cup Nat, pending : Nat]]
  /\ Cardinality(Open) <= MaxWindows
  /\ stop \in BOOLEAN /\ notified \in BOOLEAN
  /\ wpc \in {"top", "waiting", "send", "exited", "crashed"}
  /\ deadline \in {NoTime} \cup Nat
  /\ sending.key \in Keys \cup {""} /\ sending.attempts \in 0..MaxRetries
  /\ {sent, failed, merged, accepted, reloads, clock} \subseteq Nat

(***************************************************************************)
(* "Every alert that passes the routing is counted exactly once: sent,     *)
(* failed, dropped, suppressed or merged; a digest counts as an attempt of *)
(* its own" (NotifyStats), not forgetting what is still on its way.        *)
(***************************************************************************)
OnItsWay == Len(out.queue) + (IF wpc \in {"send", "crashed"} THEN 1 ELSE 0)

CountedOnce ==
  accepted + out.digests
    = sent + failed + out.suppressed + out.dropped + merged + OnItsWay

(***************************************************************************)
(* "At the end of the window one digest with occurrences=N"                *)
(* (notify_dispatcher.hpp:76): every merged alert waits, with its number   *)
(* in the window of its key, or is counted in a digest.                    *)
(***************************************************************************)
Waiting(w, S) == UNION {{k} \X (1..w[k].pending) : k \in S}
MergedReachDigest == merged = Cardinality(Waiting(windows, Keys)) + out.digested

(* What holds whenever mu_ is free: types, one count for every alert, and   *)
(* a digest or an open window for every merged one.                         *)
NotifyInv == TypeOK /\ CountedOnce /\ MergedReachDigest

(***************************************************************************)
(* The worker never sleeps past its work: while it waits and nobody has    *)
(* notified it, the queue is empty and its deadline is no later than the   *)
(* end of any open window.                                                 *)
(***************************************************************************)
NeverOversleeps ==
  wpc = "waiting" /\ ~notified =>
    /\ out.queue = <<>>
    /\ NextDeadline(windows) # NoTime =>
         deadline # NoTime /\ deadline <= NextDeadline(windows)

(* The destructor's join returns: the worker sees the flag wherever it is. *)
StopReturns == stop ~> (wpc \in {"exited", "crashed"})
=============================================================================
