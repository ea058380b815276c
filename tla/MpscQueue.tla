----------------------------- MODULE MpscQueue -----------------------------
(***************************************************************************)
(* The bounded lock-free queue between the ring-buffer callbacks and the   *)
(* telemetry consumer thread (src/telemetry/event_bus.cpp, MpscQueue).     *)
(*                                                                         *)
(* Every slot carries a sequence number.  A producer that finds            *)
(* seq = pos claims position pos with a compare-and-swap on enqueue_pos,   *)
(* copies the record and publishes it by storing seq = pos + 1.  The       *)
(* consumer that finds seq = pos + 1 claims the position, copies the       *)
(* record out and hands the slot back by storing seq = pos + capacity.     *)
(* Nothing in the code depends on there being one consumer, so neither     *)
(* does the module.                                                        *)
(* Each atomic load, each compare-and-swap, the copy and the release store *)
(* is a step of its own; compare_exchange_weak may also fail spuriously.   *)
(***************************************************************************)
EXTENDS Integers, Sequences, FiniteSets

CONSTANTS
  Producers,   (* the threads that call try_push                         *)
  Consumers,   (* the threads that call try_pop (the program runs one)   *)
  Capacity,    (* number of slots: the requested size rounded up to 2^k  *)
  MaxPush      (* bound: number of calls of try_push per producer        *)

ASSUME CapacityAssumption ==
  /\ Capacity \in Nat \ {0}
  /\ \E k \in 0..Capacity : Capacity = 2^k

ASSUME MaxPushAssumption == MaxPush \in Nat

VARIABLES
  seq,         (* seq_[slot]                                             *)
  data,        (* data_[slot]                                            *)
  enqueue_pos,
  dequeue_pos,
  ppc, ppos, rec,    (* producer: program counter, local pos, argument   *)
  cpc, cpos, out,    (* consumer: program counter, local pos, result     *)
  calls,       (* number of try_push calls each producer has begun       *)
  claims,      (* history: records in the order their positions were won *)
  popped       (* history: records returned by try_pop, in order         *)

qvars == <<seq, data, enqueue_pos, dequeue_pos>>
pvars == <<ppc, ppos, rec, calls, claims>>
cvars == <<cpc, cpos, out, popped>>
vars  == <<qvars, pvars, cvars>>

Slots   == 0..Capacity-1
Records == Producers \X (1..MaxPush)
NoRec   == <<>>     (* a slot or an argument that holds no record yet *)

Slot(pos) == pos % Capacity         (* pos & mask_ *)

Init ==
  /\ seq = [i \in Slots |-> i]
  /\ data = [i \in Slots |-> NoRec]
  /\ enqueue_pos = 0 /\ dequeue_pos = 0
  /\ ppc = [p \in Producers |-> "idle"]
  /\ ppos = [p \in Producers |-> 0]
  /\ rec = [p \in Producers |-> NoRec]
  /\ calls = [p \in Producers |-> 0]
  /\ cpc = [c \in Consumers |-> "idle"]
  /\ cpos = [c \in Consumers |-> 0]
  /\ out = [c \in Consumers |-> NoRec]
  /\ claims = <<>> /\ popped = <<>>

-----------------------------------------------------------------------------
(* try_push *)

PushBegin(p) ==
  /\ ppc[p] = "idle"
  /\ calls[p] < MaxPush
  /\ calls' = [calls EXCEPT ![p] = @ + 1]
  /\ rec' = [rec EXCEPT ![p] = <<p, calls[p] + 1>>]
  /\ ppos' = [ppos EXCEPT ![p] = enqueue_pos]
  /\ ppc' = [ppc EXCEPT ![p] = "check"]
  /\ UNCHANGED <<qvars, cvars, claims>>

(* dif = 0: the slot looks writable, go on to the compare-and-swap *)
PushSlotFree(p) ==
  /\ ppc[p] = "check"
  /\ seq[Slot(ppos[p])] = ppos[p]
  /\ ppc' = [ppc EXCEPT ![p] = "cas"]
  /\ UNCHANGED <<qvars, cvars, claims, ppos, rec, calls>>

(* Mutant: a lost race for a slot is reported as a full queue. *)
PushFull_OnLostRace(p) ==
  /\ ppc[p] = "check"
  /\ seq[Slot(ppos[p])] # ppos[p]
  /\ ppc' = [ppc EXCEPT ![p] = "idle"]
  /\ UNCHANGED <<qvars, cvars, claims, ppos, rec, calls>>

(* dif < 0: the queue is full, try_push returns false *)
PushFull(p) ==
  /\ ppc[p] = "check"
  /\ seq[Slot(ppos[p])] < ppos[p]
  /\ ppc' = [ppc EXCEPT ![p] = "idle"]
  /\ UNCHANGED <<qvars, cvars, claims, ppos, rec, calls>>

(* dif > 0: another producer was faster, reload the position *)
PushReload(p) ==
  /\ ppc[p] = "check"
  /\ seq[Slot(ppos[p])] > ppos[p]
  /\ ppos' = [ppos EXCEPT ![p] = enqueue_pos]
  /\ UNCHANGED <<qvars, cvars, claims, ppc, rec, calls>>

(* Mutant: the position is claimed by a plain store, not a compare-and-swap. *)
PushClaim_PlainStore(p) ==
  /\ ppc[p] = "cas"
  /\ enqueue_pos' = ppos[p] + 1
  /\ ppc' = [ppc EXCEPT ![p] = "write"]
  /\ claims' = Append(claims, rec[p])
  /\ UNCHANGED <<seq, data, dequeue_pos, cvars, ppos, rec, calls>>

(* Mutant: the slot is published with the claim, before the copy. *)
PushClaim_PublishFirst(p) ==
  /\ ppc[p] = "cas"
  /\ enqueue_pos = ppos[p]
  /\ enqueue_pos' = ppos[p] + 1
  /\ seq' = [seq EXCEPT ![Slot(ppos[p])] = ppos[p] + 1]
  /\ ppc' = [ppc EXCEPT ![p] = "write"]
  /\ claims' = Append(claims, rec[p])
  /\ UNCHANGED <<data, dequeue_pos, cvars, ppos, rec, calls>>

PushClaim(p) ==
  /\ ppc[p] = "cas"
  /\ enqueue_pos = ppos[p]
  /\ enqueue_pos' = ppos[p] + 1
  /\ ppc' = [ppc EXCEPT ![p] = "write"]
  /\ claims' = Append(claims, rec[p])
  /\ UNCHANGED <<seq, data, dequeue_pos, cvars, ppos, rec, calls>>

(* a failed compare-and-swap reloads pos; a weak one may fail at any time *)
PushCasFail(p) ==
  /\ ppc[p] = "cas"
  /\ ppos' = [ppos EXCEPT ![p] = enqueue_pos]
  /\ ppc' = [ppc EXCEPT ![p] = "check"]
  /\ UNCHANGED <<qvars, cvars, claims, rec, calls>>

PushWrite(p) ==
  /\ ppc[p] = "write"
  /\ data' = [data EXCEPT ![Slot(ppos[p])] = rec[p]]
  /\ ppc' = [ppc EXCEPT ![p] = "publish"]
  /\ UNCHANGED <<seq, enqueue_pos, dequeue_pos, cvars, claims, ppos, rec, calls>>

(* Mutant: publishing stores the position itself instead of its successor. *)
PushPublish_OffByOne(p) ==
  /\ ppc[p] = "publish"
  /\ seq' = [seq EXCEPT ![Slot(ppos[p])] = ppos[p]]
  /\ ppc' = [ppc EXCEPT ![p] = "idle"]
  /\ UNCHANGED <<data, enqueue_pos, dequeue_pos, cvars, claims, ppos, rec, calls>>

PushPublish(p) ==
  /\ ppc[p] = "publish"
  /\ seq' = [seq EXCEPT ![Slot(ppos[p])] = ppos[p] + 1]
  /\ ppc' = [ppc EXCEPT ![p] = "idle"]
  /\ UNCHANGED <<data, enqueue_pos, dequeue_pos, cvars, claims, ppos, rec, calls>>

-----------------------------------------------------------------------------
(* try_pop *)

PopBegin(c) ==
  /\ cpc[c] = "idle"
  /\ cpos' = [cpos EXCEPT ![c] = dequeue_pos]
  /\ cpc' = [cpc EXCEPT ![c] = "check"]
  /\ UNCHANGED <<qvars, pvars, out, popped>>

PopSlotReady(c) ==
  /\ cpc[c] = "check"
  /\ seq[Slot(cpos[c])] = cpos[c] + 1
  /\ cpc' = [cpc EXCEPT ![c] = "cas"]
  /\ UNCHANGED <<qvars, pvars, cpos, out, popped>>

PopEmpty(c) ==
  /\ cpc[c] = "check"
  /\ seq[Slot(cpos[c])] < cpos[c] + 1
  /\ cpc' = [cpc EXCEPT ![c] = "idle"]
  /\ UNCHANGED <<qvars, pvars, cpos, out, popped>>

PopReload(c) ==
  /\ cpc[c] = "check"
  /\ seq[Slot(cpos[c])] > cpos[c] + 1
  /\ cpos' = [cpos EXCEPT ![c] = dequeue_pos]
  /\ UNCHANGED <<qvars, pvars, cpc, out, popped>>

PopClaim(c) ==
  /\ cpc[c] = "cas"
  /\ dequeue_pos = cpos[c]
  /\ dequeue_pos' = cpos[c] + 1
  /\ cpc' = [cpc EXCEPT ![c] = "read"]
  /\ UNCHANGED <<seq, data, enqueue_pos, pvars, cpos, out, popped>>

PopCasFail(c) ==
  /\ cpc[c] = "cas"
  /\ cpos' = [cpos EXCEPT ![c] = dequeue_pos]
  /\ cpc' = [cpc EXCEPT ![c] = "check"]
  /\ UNCHANGED <<qvars, pvars, out, popped>>

PopRead(c) ==
  /\ cpc[c] = "read"
  /\ out' = [out EXCEPT ![c] = data[Slot(cpos[c])]]
  /\ cpc' = [cpc EXCEPT ![c] = "release"]
  /\ UNCHANGED <<qvars, pvars, cpos, popped>>

PopRelease(c) ==
  /\ cpc[c] = "release"
  /\ seq' = [seq EXCEPT ![Slot(cpos[c])] = cpos[c] + Capacity]
  /\ popped' = Append(popped, out[c])
  /\ cpc' = [cpc EXCEPT ![c] = "idle"]
  /\ UNCHANGED <<data, enqueue_pos, dequeue_pos, pvars, cpos, out>>

-----------------------------------------------------------------------------
Push(p) ==
  \/ PushBegin(p) \/ PushSlotFree(p) \/ PushFull(p) \/ PushReload(p)
  \/ PushClaim(p) \/ PushCasFail(p) \/ PushWrite(p) \/ PushPublish(p)

Pop(c) ==
  \/ PopBegin(c) \/ PopSlotReady(c) \/ PopEmpty(c) \/ PopReload(c)
  \/ PopClaim(c) \/ PopCasFail(c) \/ PopRead(c) \/ PopRelease(c)

Next ==
  \/ \E p \in Producers : Push(p)
  \/ \E c \in Consumers : Pop(c)

Spec == Init /\ [][Next]_vars

(***************************************************************************)
(* A thread inside a call keeps running.  The consumer thread calls        *)
(* try_pop again and again while the monitor runs.  compare_exchange_weak  *)
(* may fail spuriously, but not for ever: strong fairness on the claims.   *)
(***************************************************************************)
Fairness ==
  /\ \A p \in Producers : /\ WF_vars(Push(p) /\ ppc[p] # "idle")
                           /\ SF_vars(PushClaim(p))
  /\ \A c \in Consumers : WF_vars(Pop(c)) /\ SF_vars(PopClaim(c))

FairSpec == Spec /\ Fairness

-----------------------------------------------------------------------------
(* Properties *)

(* Each variable holds what the code keeps in it. *)
TypeOK ==
  /\ seq \in [Slots -> Nat]
  /\ data \in [Slots -> Records \cup {NoRec}]
  /\ enqueue_pos \in Nat /\ dequeue_pos \in Nat
  /\ ppc \in [Producers -> {"idle", "check", "cas", "write", "publish"}]
  /\ ppos \in [Producers -> Nat]
  /\ rec \in [Producers -> Records \cup {NoRec}]
  /\ calls \in [Producers -> 0..MaxPush]
  /\ cpc \in [Consumers -> {"idle", "check", "cas", "read", "release"}]
  /\ cpos \in [Consumers -> Nat]
  /\ out \in [Consumers -> Records \cup {NoRec}]
  /\ claims \in Seq(Records)
  /\ popped \in Seq(Records \cup {NoRec})

Filling(p) == ppc[p] \in {"write", "publish"}    (* owns position ppos[p] *)
Taking(c)  == cpc[c] \in {"read", "release"}     (* owns position cpos[c] *)

(***************************************************************************)
(* The copies data_[pos & mask_] = rec and out = data_[pos & mask_] are    *)
(* plain memory accesses: at no time may two threads own the same slot.    *)
(***************************************************************************)
NoSlotRace ==
  /\ \A p, q \in Producers :
       p # q /\ Filling(p) /\ Filling(q) => Slot(ppos[p]) # Slot(ppos[q])
  /\ \A c, d \in Consumers :
       c # d /\ Taking(c) /\ Taking(d) => Slot(cpos[c]) # Slot(cpos[d])
  /\ \A p \in Producers, c \in Consumers :
       Filling(p) /\ Taking(c) => Slot(ppos[p]) # Slot(cpos[c])

(***************************************************************************)
(* "try_push returns false when full" (event_bus.hpp): never more claimed  *)
(* and untaken positions than slots, whatever claims were stale.           *)
(***************************************************************************)
BoundedOccupancy ==
  dequeue_pos <= enqueue_pos /\ enqueue_pos <= dequeue_pos + Capacity

(* The life of a position: reserved, committed, taken, free again. *)
Reserved(k) == \E p \in Producers : Filling(p) /\ ppos[p] = k
Taken(k)    == \E c \in Consumers : Taking(c) /\ cpos[c] = k

State(k) == IF k >= dequeue_pos
            THEN IF Reserved(k) THEN "reserved" ELSE "committed"
            ELSE IF Taken(k) THEN "taken" ELSE "free"

(* The first position whose slot has not been handed back. *)
Oldest ==
  CHOOSE k \in 0..enqueue_pos :
    /\ k = enqueue_pos \/ State(k) # "free"
    /\ \A j \in 0..k-1 : State(j) = "free"

Line == [i \in 1..enqueue_pos - Oldest |->
           [rec |-> claims[Oldest + i], st |-> State(Oldest + i - 1)]]

(***************************************************************************)
(* The queue implements the abstract one: records are delivered intact,    *)
(* once, in the order their producers claimed a place.                     *)
(***************************************************************************)
Fifo == INSTANCE SlotFifo WITH Places <- Capacity, line <- Line,
                               delivered <- popped
ImplementsFifo == Fifo!Spec

(* A push is refused only at a moment when every slot is in use, and a pop   *)
(* comes back empty only if nothing is committed at the head: neither answer *)
(* is given by a thread that merely lost a race (dif < 0 in try_push and     *)
(* try_pop, read off a position that may be stale).                          *)
RefusalsAreTrue ==
  [][/\ \A p \in Producers : PushFull(p) => Len(Line) = Capacity
     /\ \A c \in Consumers :
          PopEmpty(c) => \/ dequeue_pos = enqueue_pos
                         \/ State(dequeue_pos) = "reserved"]_vars

(* A record whose position was claimed reaches the consumer. *)
EventuallyDelivered ==
  \A n \in 1..Cardinality(Producers) * MaxPush :
    (Len(claims) >= n) ~> (Len(popped) >= n)
=============================================================================
