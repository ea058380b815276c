------------------------- MODULE TelemetryPipeline -------------------------
(***************************************************************************)
(* The telemetry pipeline of the monitor in ring buffer mode: the main     *)
(* loop that consumes the kernel rings and pushes to the event bus, the    *)
(* consumer thread that drains the bus into the event store, the counters  *)
(* both publish for `stats`, and the shutdown (baseline/monitor.cpp:       *)
(* do_monitor_ringbuf, telemetry_consumer_main, sync_user_stats;           *)
(* telemetry/event_bus.cpp: EventBus).                                     *)
(*                                                                         *)
(* The two queues of the bus are the abstract queues MpscQueue implements: *)
(* a push or a pop is one step.  The store is the module EventStore; its   *)
(* owner, the consumer thread, waits for every call it makes.              *)
(***************************************************************************)
EXTENDS Naturals, Sequences, FiniteSets, SequencesExt

CONSTANTS
  RingOrder,     (* the rings, in the order of the array rbs           *)
  HiRings,       (* the rings whose events have priority <= PRIO_CTRL  *)
  PerRing,       (* bound: how many events each ring receives           *)
  Transient,     (* forks and exits: they only change the process tree  *)
  HiCapacity, LoCapacity,      (* slots of the two queues              *)
  BatchSize, MaxFaults         (* of the event store                   *)

Rings == Range(RingOrder)
Events == UNION {{r} \X (1..PerRing[r]) : r \in Rings}

ASSUME PipelineAssumption ==
  /\ RingOrder \in Seq(Rings) /\ IsInjective(RingOrder) /\ HiRings \subseteq Rings
  /\ HiCapacity \in Nat \ {0} /\ LoCapacity \in Nat \ {0}
  /\ PerRing \in [Rings -> Nat]
  /\ Transient \subseteq {e \in Events : e[1] \in HiRings}
  /\ BatchSize \in Nat \ {0} /\ MaxFaults \in Nat

VARIABLES
  produced,      (* events the kernel has put into each ring           *)
  unread,        (* the unread events of each ring                     *)
  hi, lo,        (* the queues of the bus                              *)
  pushed_, drops,(* the counters of the bus                            *)
  running,       (* the global flag; a signal handler clears it        *)
  mpc, todo, mvals,    (* main: program counter, rings still to        *)
                       (* consume this round, counters to publish      *)
  cpc, cvals,    (* consumer: program counter, counters to publish     *)
  user_stats,    (* the pinned user_stats map                          *)
  store_on,      (* rt.store_on: the monitor runs with a store         *)
  dropped,       (* history: events dropped by the bus                 *)
  late,          (* history: events pushed after running was cleared   *)
  passed         (* history: events routed that no store is asked to keep *)

VARIABLES pending, spc, row, txn, uncommitted, table, stored_, failed_,
          appended, lost, batches, faults, crashes, usable, discarded

Store == INSTANCE EventStore WITH MaxCrashes <- 0

svars == <<pending, spc, row, txn, uncommitted, table, stored_, failed_,
           appended, lost, batches, faults, crashes, usable, discarded>>
bus   == <<hi, lo, pushed_, drops, dropped, late, store_on, passed>>
kern  == <<produced, unread>>
mvars == <<mpc, todo, mvals>>
cvars == <<cpc, cvals>>
vars  == <<kern, bus, running, mvars, cvars, user_stats, svars>>

(* what sync_user_stats reads *)
Counters == [pushed |-> pushed_, drops |-> drops, depth |-> Len(hi) + Len(lo),
             stored |-> stored_, failed |-> failed_]

NoCounters == [pushed |-> 0, drops |-> 0, depth |-> 0, stored |-> 0, failed |-> 0]

Init ==
  /\ produced = [r \in Rings |-> 0]
  /\ unread = [r \in Rings |-> <<>>]
  /\ hi = <<>> /\ lo = <<>> /\ pushed_ = 0 /\ drops = 0
  /\ dropped = {} /\ late = {} /\ passed = {}
  /\ store_on \in BOOLEAN
  /\ running = TRUE
  /\ mpc = "poll" /\ todo = <<>> /\ mvals = NoCounters
  /\ cpc = "top" /\ cvals = NoCounters
  /\ user_stats = NoCounters
  /\ Store!StoreInit

-----------------------------------------------------------------------------
(* Environment *)

Produce(r) ==
  /\ produced[r] < PerRing[r]
  /\ produced' = [produced EXCEPT ![r] = @ + 1]
  /\ unread' = [unread EXCEPT ![r] = Append(@, <<r, produced[r] + 1>>)]
  /\ UNCHANGED <<bus, running, mvars, cvars, user_stats, svars>>

(* signal_handler on SIGINT or SIGTERM, in whatever thread, at any time *)
Signal ==
  /\ running
  /\ running' = FALSE
  /\ UNCHANGED <<kern, bus, mvars, cvars, user_stats, svars>>

-----------------------------------------------------------------------------
(* Main thread *)

(* epoll_wait reports readable rings in the order of its own ready list;  *)
(* none on a timeout                                                      *)
MainPoll ==
  /\ mpc = "poll"
  /\ running
  /\ \E R \in SUBSET {r \in Rings : unread[r] # <<>>} :
       \E order \in SetToSeqs(R) : todo' = order
  /\ mpc' = "consume"
  /\ UNCHANGED <<kern, bus, running, mvals, cvars, user_stats, svars>>

(* a failing epoll_wait ends the loop as a signal does *)
MainLeave ==
  /\ mpc = "poll"
  /\ running' = FALSE
  /\ mpc' = "join"
  /\ UNCHANGED <<kern, bus, todo, mvals, cvars, user_stats, svars>>

(* Mutant: a record that does not fit is not counted. *)
TryPush_DropsSilently(e) ==
  LET isHi == e[1] \in HiRings
      ok   == IF isHi THEN Len(hi) < HiCapacity ELSE Len(lo) < LoCapacity
  IN  /\ hi' = IF ok /\ isHi THEN Append(hi, e) ELSE hi
      /\ lo' = IF ok /\ ~isHi THEN Append(lo, e) ELSE lo
      /\ pushed_' = IF ok THEN pushed_ + 1 ELSE pushed_
      /\ UNCHANGED drops
      /\ dropped' = IF ok THEN dropped ELSE dropped \cup {e}
      /\ late' = IF ok /\ ~running THEN late \cup {e} ELSE late

(* EventBus::try_push from the ring buffer callback *)
TryPush(e) ==
  LET isHi == e[1] \in HiRings
      ok   == IF isHi THEN Len(hi) < HiCapacity ELSE Len(lo) < LoCapacity
  IN  /\ hi' = IF ok /\ isHi THEN Append(hi, e) ELSE hi
      /\ lo' = IF ok /\ ~isHi THEN Append(lo, e) ELSE lo
      /\ pushed_' = IF ok THEN pushed_ + 1 ELSE pushed_
      /\ drops' = IF ok THEN drops ELSE drops + 1
      /\ dropped' = IF ok THEN dropped ELSE dropped \cup {e}
      /\ late' = IF ok /\ ~running THEN late \cup {e} ELSE late

(* ring_buffer__consume: every record readable by the time it gets there *)
MainConsume ==
  /\ mpc = "consume"
  /\ todo # <<>>
  /\ unread[Head(todo)] # <<>>
  /\ TryPush(Head(unread[Head(todo)]))
  /\ unread' = [unread EXCEPT ![Head(todo)] = Tail(@)]
  /\ UNCHANGED <<produced, store_on, passed, running, mvars, cvars, user_stats, svars>>

MainNextRing ==
  /\ mpc = "consume"
  /\ todo # <<>>
  /\ unread[Head(todo)] = <<>>
  /\ todo' = Tail(todo)
  /\ UNCHANGED <<kern, bus, running, mpc, mvals, cvars, user_stats, svars>>

(* the round is over: publish the counters if a second has passed *)
MainRoundDone ==
  /\ mpc = "consume"
  /\ todo = <<>>
  /\ \/ mpc' = "poll" /\ UNCHANGED mvals
     \/ mpc' = "sync" /\ mvals' = Counters
  /\ UNCHANGED <<kern, bus, running, todo, cvars, user_stats, svars>>

MainSync ==
  /\ mpc = "sync"
  /\ user_stats' = mvals
  /\ mvals' = NoCounters
  /\ mpc' = "poll"
  /\ UNCHANGED <<kern, bus, running, todo, cvars, svars>>

MainJoin ==
  /\ mpc = "join"
  /\ cpc = "done"
  /\ mpc' = "done"
  /\ UNCHANGED <<kern, bus, running, todo, mvals, cvars, user_stats, svars>>

-----------------------------------------------------------------------------
(* Consumer thread *)

(* Mutant: the consumer never looks at the flag again. *)
ConsumerTop_IgnoresFlag ==
  /\ cpc = "top"
  /\ Store!StoreIdle
  /\ cpc' = "hi"
  /\ UNCHANGED <<kern, bus, running, mvars, cvals, user_stats, svars>>

ConsumerTop ==
  /\ cpc = "top"
  /\ Store!StoreIdle
  /\ cpc' = IF running THEN "hi" ELSE "drainhi"
  /\ UNCHANGED <<kern, bus, running, mvars, cvals, user_stats, svars>>

(* what route_event stores: every record but a fork or an exit, if at all *)
Keeps(e) == store_on /\ e \notin Transient

(* Mutant: no process event is stored, an exec as little as a fork. *)
Route_DropsExec(e) ==
  \/ /\ store_on /\ e[1] \notin HiRings
     /\ Store!Append_(e) \/ Store!Discard(e)
     /\ UNCHANGED passed
  \/ /\ ~store_on \/ e[1] \in HiRings
     /\ Store!StoreIdle
     /\ passed' = passed \cup {e}
     /\ UNCHANGED svars

(* route_event: the store is the part that keeps state here *)
Route(e) ==
  \/ /\ Keeps(e)
     /\ Store!Append_(e) \/ Store!Discard(e)
     /\ UNCHANGED passed
  \/ /\ ~Keeps(e)
     /\ Store!StoreIdle
     /\ passed' = passed \cup {e}
     /\ UNCHANGED svars

PopHi ==
  /\ cpc \in {"hi", "drainhi"}
  /\ hi # <<>>
  /\ Route(Head(hi))
  /\ hi' = Tail(hi)
  /\ UNCHANGED <<kern, lo, pushed_, drops, dropped, late, store_on, running,
                 mvars, cvars, user_stats>>

PopLo ==
  /\ cpc \in {"lo", "drainlo"}
  /\ lo # <<>>
  /\ Route(Head(lo))
  /\ lo' = Tail(lo)
  /\ UNCHANGED <<kern, hi, pushed_, drops, dropped, late, store_on, running,
                 mvars, cvars, user_stats>>

(* Mutant: the final drain forgets the low-priority queue. *)
HiEmpty_SkipsFinalLo ==
  /\ cpc \in {"hi", "drainhi"}
  /\ Store!StoreIdle
  /\ hi = <<>>
  /\ cpc' = IF cpc = "hi" THEN "lo" ELSE "flush"
  /\ UNCHANGED <<kern, bus, running, mvars, cvals, user_stats, svars>>

HiEmpty ==
  /\ cpc \in {"hi", "drainhi"}
  /\ Store!StoreIdle
  /\ hi = <<>>
  /\ cpc' = IF cpc = "hi" THEN "lo" ELSE "drainlo"
  /\ UNCHANGED <<kern, bus, running, mvars, cvals, user_stats, svars>>

LoEmpty ==
  /\ cpc \in {"lo", "drainlo"}
  /\ Store!StoreIdle
  /\ lo = <<>>
  /\ cpc' = IF cpc = "lo" THEN "due" ELSE "flush"
  /\ UNCHANGED <<kern, bus, running, mvars, cvals, user_stats, svars>>

(* FlushIfDue: with rows pending and batch_ms passed *)
FlushIfDue ==
  /\ cpc = "due"
  /\ cpc' = "top"
  /\ Store!Flush \/ UNCHANGED svars
  /\ UNCHANGED <<kern, bus, running, mvars, cvals, user_stats>>

(* the flush ordered by FlushIfDue is over before the flag is read again *)
Consumer_WriteBatch ==
  /\ Store!WriteBatch
  /\ UNCHANGED <<kern, bus, running, mvars, cvars, user_stats>>

(* Mutant: the shutdown clears the pending rows instead of writing them. *)
FinalFlush_Discards ==
  /\ cpc = "flush"
  /\ Store!StoreIdle
  /\ cpc' = "read"
  /\ pending' = <<>>
  /\ UNCHANGED <<spc, row, txn, uncommitted, table, stored_, failed_, appended,
                 lost, batches, faults, crashes, usable, discarded>>
  /\ UNCHANGED <<kern, bus, running, mvars, cvals, user_stats>>

FinalFlush ==
  /\ cpc = "flush"
  /\ Store!StoreIdle
  /\ cpc' = "read"
  /\ IF pending = <<>> THEN UNCHANGED svars ELSE Store!Flush
  /\ UNCHANGED <<kern, bus, running, mvars, cvals, user_stats>>

(* the last sync_user_stats: read the counters, then write the map *)
FinalRead ==
  /\ cpc = "read"
  /\ Store!StoreIdle
  /\ cvals' = Counters
  /\ cpc' = "write"
  /\ UNCHANGED <<kern, bus, running, mvars, user_stats, svars>>

FinalWrite ==
  /\ cpc = "write"
  /\ user_stats' = cvals
  /\ cpc' = "done"
  /\ UNCHANGED <<kern, bus, running, mvars, cvals, svars>>

-----------------------------------------------------------------------------
Main ==
  \/ MainPoll \/ MainLeave \/ MainConsume \/ MainNextRing
  \/ MainRoundDone \/ MainSync \/ MainJoin

Consumer ==
  \/ ConsumerTop \/ PopHi \/ PopLo \/ HiEmpty \/ LoEmpty \/ FlushIfDue
  \/ Consumer_WriteBatch \/ FinalFlush \/ FinalRead \/ FinalWrite

Stopped == mpc = "done" /\ UNCHANGED vars

Next ==
  \/ \E r \in Rings : Produce(r)
  \/ Signal \/ Main \/ Consumer \/ Stopped

Spec == Init /\ [][Next]_vars

(* Both threads are scheduled; signals and events come or do not come. *)
FairSpec == Spec /\ WF_vars(Main) /\ WF_vars(Consumer)

-----------------------------------------------------------------------------
(* Properties *)

Queued == Range(hi) \cup Range(lo)
Unread == UNION {Range(unread[r]) : r \in Rings}
Produced == {e \in Events : e[2] <= produced[e[1]]}

(* Each variable holds what the code keeps in it. *)
TypeOK ==
  /\ produced \in [Rings -> Nat] /\ \A r \in Rings : produced[r] <= PerRing[r]
  /\ unread \in [Rings -> Seq(Events)]
  /\ hi \in Seq({e \in Events : e[1] \in HiRings}) /\ Len(hi) <= HiCapacity
  /\ lo \in Seq({e \in Events : e[1] \notin HiRings}) /\ Len(lo) <= LoCapacity
  /\ pushed_ \in Nat /\ drops \in Nat
  /\ running \in BOOLEAN
  /\ mpc \in {"poll", "consume", "sync", "join", "done"}
  /\ todo \in Seq(Rings)
  /\ cpc \in {"top", "hi", "lo", "due", "drainhi", "drainlo", "flush",
             "read", "write", "done"}
  /\ {mvals, cvals, user_stats} \subseteq [DOMAIN NoCounters -> Nat]
  /\ dropped \subseteq Events /\ late \subseteq Events
  /\ store_on \in BOOLEAN /\ passed \subseteq Events

(***************************************************************************)
(* Every event the kernel produced is unread, dropped by the bus, queued,  *)
(* handed to the store or passed over by route_event, in exactly one of    *)
(* these, also while both threads shut down; the counters of the bus say   *)
(* how many.  Passed over is a fork or an exit, or any event of a monitor  *)
(* without a store, and nothing else: no counter tells those from stored.  *)
(***************************************************************************)
NothingVanishes ==
  /\ Produced = Unread \cup dropped \cup Queued \cup appended \cup discarded \cup passed
  /\ Cardinality(Unread) + drops + pushed_ = Cardinality(Produced)
  /\ drops = Cardinality(dropped)
  /\ pushed_ = Len(hi) + Len(lo) + Cardinality(appended \cup discarded \cup passed)
  /\ \A e \in appended \cup discarded : Keeps(e)
  /\ \A e \in passed : ~Keeps(e)

(* What holds between any two steps of the threads: the types above, and    *)
(* that no event is lost without being counted.                             *)
PipeInv == TypeOK /\ NothingVanishes

(* The consumer thread is a legal owner of the store. *)
UsesStore == Store!Spec

(***************************************************************************)
(* What the consumer's last drain leaves in the bus was pushed after the   *)
(* running flag was cleared, by the main thread finishing its round.       *)
(***************************************************************************)
OnlyLateEventsStranded == cpc = "done" => Queued \subseteq late

(* Told to stop, both threads come to an end. *)
StopTerminates == ~running ~> (mpc = "done" /\ cpc = "done")
=============================================================================
