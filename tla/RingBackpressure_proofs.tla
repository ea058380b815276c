---------------------- MODULE RingBackpressure_proofs ----------------------
(***************************************************************************)
(* Proofs about RingBackpressure for every set of hooks and targets, every *)
(* ring size and all thresholds: the counters of kernel and ring agree, no *)
(* realtime record waits for a wakeup that was skipped, and a full ring    *)
(* never loses a refusal.  The argument: each hook that has reserved and   *)
(* not yet notified owns one position of the ring, and its record there    *)
(* tells what it decided; the consumer cannot pass a record being filled.  *)
(***************************************************************************)
EXTENDS RingBackpressure, FiniteSetTheorems, TLAPS

(* The hooks that run are finitely many. *)
Active == {h \in Hooks : hpc[h] # "idle"}

(* What a hook runs through. *)
CallInv ==
  \A h \in Hooks :
    /\ hpc[h] = "idle" => at[h] = 1
    /\ hpc[h] # "idle" => at[h] \in 1..Len(call[h]) /\ Len(call[h]) <= 2

(* The record of a hook that has reserved one; r is the ring from c on. *)
Slot(h) == pos[h] - cons + 1

FillInv ==
  /\ \A h \in Hooks : hpc[h] = "fill" =>
       /\ cons <= pos[h] /\ pos[h] < prod
       /\ ring[Slot(h)].busy
       /\ ring[Slot(h)].batch <=> bp[h] = "batch"
  /\ \A g, h \in Hooks :
       hpc[g] = "fill" /\ hpc[h] = "fill" /\ pos[g] = pos[h] => g = h

NotifyInv ==
  \A h \in Hooks : hpc[h] = "notify" =>
    /\ pos[h] < prod
    /\ cons <= pos[h] => (ring[Slot(h)].batch <=> bp[h] = "batch")

WakeInv ==
  /\ NoLostWakeup
  /\ mpc = "consume" => ready

(* While nothing was shed, what a hook has settled so far did not block. *)
PassInv ==
  drop_stats.backpressure = 0 =>
    /\ \A t \in allowed : ~t.block
    /\ \A h \in Hooks : hpc[h] # "idle" =>
         \A i \in 1..(at[h] - 1) : ~call[h][i].block

(* The inductive invariant. *)
IInv ==
  /\ TypeOK /\ IsFiniteSet(Active)
  /\ CallInv /\ FillInv /\ NotifyInv /\ WakeInv /\ Reconciled /\ PassInv

-----------------------------------------------------------------------------
(* The ring *)

LEMMA AppendRecord ==
  ASSUME NEW r \in Seq(Records), NEW rec \in Records
  PROVE  /\ Append(r, rec) \in Seq(Records) /\ Len(Append(r, rec)) = Len(r) + 1
         /\ \A i \in 1..Len(r) : Append(r, rec)[i] = r[i]
         /\ Append(r, rec)[Len(r) + 1] = rec
  OBVIOUS

LEMMA TailRecord ==
  ASSUME NEW r \in Seq(Records), r # <<>>
  PROVE  /\ Tail(r) \in Seq(Records) /\ Len(Tail(r)) = Len(r) - 1
         /\ \A i \in 1..Len(Tail(r)) : Tail(r)[i] = r[i + 1]
  OBVIOUS

LEMMA SubmitRecord ==
  ASSUME NEW r \in Seq(Records), NEW i \in 1..Len(r)
  PROVE  LET s == [r EXCEPT ![i].busy = FALSE]
         IN  /\ s \in Seq(Records) /\ Len(s) = Len(r)
             /\ \A j \in 1..Len(r) : s[j].batch = r[j].batch
             /\ \A j \in 1..Len(r) : j # i => s[j] = r[j]
<1> DEFINE s == [r EXCEPT ![i].busy = FALSE]
<1>1. Len(r) \in Nat /\ DOMAIN r = 1..Len(r) /\ \A j \in 1..Len(r) : r[j] \in Records
  OBVIOUS
<1>2. DOMAIN s = 1..Len(r) /\ \A j \in 1..Len(r) : j # i => s[j] = r[j]
  BY <1>1
<1>3. s[i] = [r[i] EXCEPT !.busy = FALSE]
  BY <1>1, Zenon
<1>4. s[i] \in Records /\ s[i].batch = r[i].batch
  BY <1>1, <1>3 DEF Records
<1>5. s \in [1..Len(r) -> Records]
  BY <1>1, <1>2, <1>4
<1>6. s \in Seq(Records) /\ Len(s) = Len(r)
  BY <1>1, <1>5
<1> QED
  BY <1>2, <1>4, <1>6

-----------------------------------------------------------------------------
(* The hooks *)

LEMMA DecisionType ==
  ASSUME NEW sev PROVE check_backpressure(sev) \in {"batch", "drop", "realtime"}
  BY DEF check_backpressure

LEMMA Position ==
  ASSUME NEW l \in Nat, NEW a \in 1..l, l <= 2
  PROVE  l \in 1..2 /\ a \in 1..2 /\ (a # l => a + 1 \in 1..l /\ a + 1 \in 1..2)
  OBVIOUS

(* A hook that runs has a target before it. *)
LEMMA TargetType ==
  ASSUME TypeOK, CallInv, NEW h \in Hooks, hpc[h] # "idle"
  PROVE  /\ call[h] \in Seq(Targets) /\ Len(call[h]) \in 1..2
         /\ at[h] \in 1..Len(call[h]) /\ call[h][at[h]] \in Targets
         /\ call[h][at[h]].sev \in LOW..CRITICAL
         /\ Blocks(h) \in BOOLEAN
<1>1. call[h] \in Seq(Targets) /\ at[h] \in 1..Len(call[h]) /\ Len(call[h]) <= 2
  BY DEF TypeOK, CallInv
<1>2. call[h][at[h]] \in Targets
  BY <1>1
<1>3. Len(call[h]) \in Nat
  BY <1>1
<1>4. Len(call[h]) \in 1..2
  BY <1>1, <1>3, Position
<1> QED
  BY <1>1, <1>2, <1>4, TargetAssumption DEF Blocks

(* Settling a target concerns the hook alone. *)
LEMMA SettleOthers ==
  ASSUME TypeOK, NEW h \in Hooks, NEW denied \in BOOLEAN, Settle(h, denied)
  PROVE  /\ \A g \in Hooks \ {h} : /\ hpc'[g] = hpc[g] /\ call'[g] = call[g]
                                   /\ at'[g] = at[g] /\ bp'[g] = bp[g]
                                   /\ pos'[g] = pos[g]
         /\ hpc'[h] \in {"idle", "check"}
         /\ hpc' \in [Hooks -> {"idle", "check", "reserve", "fill", "notify"}]
  BY DEF TypeOK, Settle

LEMMA SettleType ==
  ASSUME TypeOK, CallInv, NEW h \in Hooks, hpc[h] # "idle",
         NEW denied \in BOOLEAN, Settle(h, denied)
  PROVE  /\ call' \in [Hooks -> Seq(Targets)]
         /\ at' \in [Hooks -> 1..2]
         /\ bp' \in [Hooks -> {"realtime", "batch"}]
         /\ pos' \in [Hooks -> Nat]
         /\ allowed' \subseteq Targets
         /\ CallInv'
<1>1. /\ call[h] \in Seq(Targets) /\ Len(call[h]) \in 1..2 /\ at[h] \in 1..Len(call[h])
      /\ call \in [Hooks -> Seq(Targets)] /\ at \in [Hooks -> 1..2]
  BY TargetType DEF TypeOK
<1>2. Range(call[h]) \subseteq Targets
  BY <1>1 DEF Range
<1>3. allowed' \subseteq Targets
  BY <1>2 DEF Settle, TypeOK
<1>4. bp' \in [Hooks -> {"realtime", "batch"}] /\ pos' \in [Hooks -> Nat]
  BY DEF Settle, TypeOK
<1>5. CASE denied \/ at[h] = Len(call[h])
  <2>1. /\ hpc' = [hpc EXCEPT ![h] = "idle"] /\ call' = [call EXCEPT ![h] = <<>>]
        /\ at' = [at EXCEPT ![h] = 1]
    BY <1>5 DEF Settle
  <2>2. call' \in [Hooks -> Seq(Targets)] /\ at' \in [Hooks -> 1..2]
    BY <1>1, <2>1
  <2>3. CallInv'
    BY <1>1, <2>1 DEF TypeOK, CallInv
  <2> QED
    BY <1>3, <1>4, <2>2, <2>3
<1>6. CASE ~denied /\ at[h] # Len(call[h])
  <2>1. /\ hpc' = [hpc EXCEPT ![h] = "check"] /\ call' = [call EXCEPT ![h] = @]
        /\ at' = [at EXCEPT ![h] = at[h] + 1]
    BY <1>6, Zenon DEF Settle
  <2>2. at[h] + 1 \in 1..Len(call[h]) /\ at[h] + 1 \in 1..2
    <3>1. Len(call[h]) \in Nat /\ Len(call[h]) <= 2
      BY <1>1 DEF CallInv
    <3> QED
      BY <1>1, <1>6, <3>1, Position
  <2>3. at' \in [Hooks -> 1..2] /\ call' \in [Hooks -> Seq(Targets)]
    BY <1>1, <2>1, <2>2
  <2>4. CallInv'
    BY <1>1, <2>1, <2>2 DEF TypeOK, CallInv
  <2> QED
    BY <1>3, <1>4, <2>3, <2>4
<1> QED
  BY <1>5, <1>6

-----------------------------------------------------------------------------
(* Types *)

LEMMA InitType == Init => TypeOK
<1> SUFFICES ASSUME Init PROVE TypeOK
  OBVIOUS
<1> USE RingSizeAssumption DEF Init, NORMAL, OVERLOAD
<1>1. ring \in Seq(Records) /\ Len(ring) <= RingSize
  OBVIOUS
<1>2. call \in [Hooks -> Seq(Targets)]
  OBVIOUS
<1>3. drop_stats \in [{"emitted", "reserve_fail", "backpressure"} -> Nat]
  OBVIOUS
<1>4. level \in NORMAL..OVERLOAD /\ level_ \in NORMAL..OVERLOAD
      /\ calls \in 0..MaxCalls /\ at \in [Hooks -> 1..2]
  OBVIOUS
<1> QED
  BY <1>1, <1>2, <1>3, <1>4, Zenon DEF TypeOK

(* The steps of the main loop. *)
LEMMA MainType == TypeOK /\ Main => TypeOK'
<1> SUFFICES ASSUME TypeOK, Main PROVE TypeOK'
  OBVIOUS
<1> USE DEF TypeOK, hvars
<1>1. CASE MainWoken \/ MainTimeout \/ MainConsumed \/ MainNoSample \/ MainPublish
  BY <1>1 DEF MainWoken, MainTimeout, MainConsumed, MainNoSample, MainPublish
<1>2. CASE MainConsume
  BY <1>2, TailRecord, RingSizeAssumption DEF MainConsume, HeadReadable
<1>3. CASE UpdateUtilization
  BY <1>3 DEF UpdateUtilization, NORMAL, WARNING, HIGHWATER, OVERLOAD
<1> QED
  BY <1>1, <1>2, <1>3 DEF Main

(* The record a hook is filling lies in the ring. *)
LEMMA FillSlot ==
  ASSUME TypeOK, FillInv, NEW h \in Hooks, hpc[h] = "fill"
  PROVE  Slot(h) \in 1..Len(ring)
<1>1. cons \in Nat /\ pos[h] \in Nat /\ Len(ring) \in Nat
  BY DEF TypeOK
<1>2. cons <= pos[h] /\ pos[h] < cons + Len(ring)
  BY DEF FillInv, prod
<1> QED
  BY <1>1, <1>2 DEF Slot

LEMMA CounterType ==
  ASSUME NEW d \in [{"emitted", "reserve_fail", "backpressure"} -> Nat]
  PROVE  \A f \in {"emitted", "reserve_fail", "backpressure"} :
           LET e == [d EXCEPT ![f] = @ + 1]
           IN  /\ e \in [{"emitted", "reserve_fail", "backpressure"} -> Nat]
               /\ e[f] = d[f] + 1
               /\ \A g \in {"emitted", "reserve_fail", "backpressure"} \ {f} : e[g] = d[g]
  OBVIOUS

LEMMA BeginType ==
  ASSUME TypeOK, CallInv, NEW h \in Hooks, HookBegin(h)
  PROVE  TypeOK' /\ CallInv'
<1> USE DEF HookBegin, mvars
<1>1. PICK n \in 1..2 : \E c \in [1..n -> Targets] : call' = [call EXCEPT ![h] = c]
  OBVIOUS
<1>2. PICK c \in [1..n -> Targets] : call' = [call EXCEPT ![h] = c]
  BY <1>1
<1>3. c \in Seq(Targets) /\ Len(c) = n
  BY <1>2
<1>4. call' \in [Hooks -> Seq(Targets)] /\ call'[h] = c
      /\ \A g \in Hooks \ {h} : call'[g] = call[g]
  BY <1>2, <1>3 DEF TypeOK
<1>5. hpc' \in [Hooks -> {"idle", "check", "reserve", "fill", "notify"}]
      /\ hpc'[h] = "check" /\ \A g \in Hooks \ {h} : hpc'[g] = hpc[g]
  BY DEF TypeOK
<1>6. calls' \in 0..MaxCalls
  BY RingSizeAssumption DEF TypeOK
<1>7. TypeOK'
  BY <1>4, <1>5, <1>6 DEF TypeOK
<1>8. at'[h] = 1 /\ 1 \in 1..Len(call'[h]) /\ Len(call'[h]) <= 2
  BY <1>3, <1>4 DEF CallInv
<1>9. CallInv'
  BY <1>4, <1>5, <1>8 DEF CallInv
<1> QED
  BY <1>7, <1>9

LEMMA HookType ==
  ASSUME TypeOK, CallInv, FillInv, NEW h \in Hooks, HookStep(h)
  PROVE  TypeOK' /\ CallInv'
<1> USE DEF mvars
<1>1. hpc[h] # "idle"
  BY DEF HookStep, HookDrop, HookDecide, HookReserve, HookReserveFails, HookCommit,
         HookNotify
<1>2. Blocks(h) \in BOOLEAN /\ call[h][at[h]].sev \in LOW..CRITICAL
  BY <1>1, TargetType
<1>3. ASSUME NEW denied \in BOOLEAN, Settle(h, denied),
             UNCHANGED <<ring, ready, mvars, calls>>,
             hits' \in Nat,
             drop_stats' \in [{"emitted", "reserve_fail", "backpressure"} -> Nat]
      PROVE  TypeOK' /\ CallInv'
  BY <1>1, <1>3, SettleType, SettleOthers DEF TypeOK
<1>4. CASE HookDrop(h)
  <2>1. hits' \in Nat
    BY <1>4 DEF HookDrop, TypeOK
  <2>2. drop_stats' \in [{"emitted", "reserve_fail", "backpressure"} -> Nat]
    BY <1>4, CounterType DEF HookDrop, TypeOK
  <2> QED
    BY <1>3, <1>4, <2>1, <2>2 DEF HookDrop
<1>5. CASE HookDecide(h)
  <2>1. check_backpressure(call[h][at[h]].sev) \in {"batch", "realtime"}
    BY <1>5, DecisionType DEF HookDecide
  <2> QED
    BY <1>1, <1>5, <2>1 DEF HookDecide, TypeOK, CallInv
<1>6. CASE HookReserve(h)
  <2> DEFINE rec == [sev |-> call[h][at[h]].sev, batch |-> bp[h] = "batch",
                     busy |-> TRUE]
  <2>1. rec \in Records
    BY <1>2 DEF Records
  <2>2. ring' \in Seq(Records) /\ Len(ring') = Len(ring) + 1
    BY <1>6, <2>1, AppendRecord DEF HookReserve, TypeOK
  <2>3. Len(ring') <= RingSize /\ prod \in Nat
    BY <1>6, <2>2, RingSizeAssumption DEF HookReserve, TypeOK, prod
  <2> QED
    BY <1>1, <1>6, <2>2, <2>3 DEF HookReserve, TypeOK, CallInv
<1>7. CASE HookReserveFails(h)
  <2>1. hits' \in Nat
        /\ drop_stats' \in [{"emitted", "reserve_fail", "backpressure"} -> Nat]
    BY <1>7, CounterType DEF HookReserveFails, TypeOK
  <2> QED
    BY <1>2, <1>3, <1>7, <2>1 DEF HookReserveFails
<1>8. CASE HookCommit(h)
  <2>1. Slot(h) \in 1..Len(ring) /\ ring' = [ring EXCEPT ![Slot(h)].busy = FALSE]
    BY <1>8, FillSlot DEF HookCommit, Slot
  <2>2. ring' \in Seq(Records) /\ Len(ring') = Len(ring)
    BY <2>1, SubmitRecord DEF TypeOK
  <2> QED
    BY <1>1, <1>8, <2>2 DEF HookCommit, TypeOK, CallInv
<1>9. CASE HookNotify(h)
  <2>1. hits' \in Nat /\ ready' \in BOOLEAN
        /\ drop_stats' \in [{"emitted", "reserve_fail", "backpressure"} -> Nat]
    BY <1>9, CounterType DEF HookNotify, TypeOK
  <2>2. Settle(h, Blocks(h)) /\ UNCHANGED <<ring, mvars, hits, calls>>
    BY <1>9 DEF HookNotify
  <2> QED
    BY <1>1, <1>2, <2>1, <2>2, SettleType, SettleOthers DEF TypeOK
<1> QED
  BY <1>4, <1>5, <1>6, <1>7, <1>8, <1>9 DEF HookStep

(* One hook at a time begins, so those that run stay finitely many. *)
LEMMA ActiveStep ==
  ASSUME TypeOK, IsFiniteSet(Active), [Next]_vars
  PROVE  IsFiniteSet(Active')
<1>1. PICK h : Active' \subseteq Active \cup {h}
  <2>1. CASE Main \/ UNCHANGED vars
    <3>1. hpc' = hpc
      BY <2>1 DEF Main, MainWoken, MainTimeout, MainConsume, MainConsumed,
                  MainNoSample, UpdateUtilization, MainPublish, vars, hvars
    <3> QED
      BY <3>1 DEF Active
  <2>2. ASSUME NEW h \in Hooks, HookBegin(h) \/ HookStep(h)
        PROVE  Active' \subseteq Active \cup {h}
    <3>1. \A g \in Hooks \ {h} : hpc'[g] = hpc[g]
      BY <2>2 DEF HookBegin, HookStep, HookDrop, HookDecide, HookReserve,
                  HookReserveFails, HookCommit, HookNotify, Settle, TypeOK
    <3> QED
      BY <3>1 DEF Active
  <2> QED
    BY <2>1, <2>2 DEF Next
<1>2. IsFiniteSet(Active \cup {h})
  BY FS_AddElement
<1> QED
  BY <1>1, <1>2, FS_Subset

-----------------------------------------------------------------------------
(* The records of the hooks *)

LEMMA SlotInRing ==
  ASSUME TypeOK, NEW h \in Hooks, cons <= pos[h], pos[h] < prod
  PROVE  Slot(h) \in 1..Len(ring)
<1>1. cons \in Nat /\ pos[h] \in Nat /\ Len(ring) \in Nat
  BY DEF TypeOK
<1> QED
  BY <1>1 DEF Slot, prod

(* A step that leaves the ring and the reserved positions alone. *)
LEMMA SlotsFrame ==
  ASSUME FillInv, NotifyInv, ring' = ring, cons' = cons,
         \A g \in Hooks : hpc'[g] \in {"fill", "notify"} =>
            hpc'[g] = hpc[g] /\ pos'[g] = pos[g] /\ bp'[g] = bp[g]
  PROVE  FillInv' /\ NotifyInv'
<1>1. \A g \in Hooks : hpc'[g] = "fill" =>
         hpc[g] = "fill" /\ pos'[g] = pos[g] /\ bp'[g] = bp[g]
  OBVIOUS
<1>2. \A g \in Hooks : hpc'[g] = "notify" =>
         hpc[g] = "notify" /\ pos'[g] = pos[g] /\ bp'[g] = bp[g]
  OBVIOUS
<1>3. FillInv'
  BY <1>1 DEF FillInv, Slot, prod
<1>4. NotifyInv'
  BY <1>2 DEF NotifyInv, Slot, prod
<1> QED
  BY <1>3, <1>4

LEMMA ReserveSlots ==
  ASSUME TypeOK, CallInv, FillInv, NotifyInv, NEW h \in Hooks, HookReserve(h)
  PROVE  FillInv' /\ NotifyInv'
<1> DEFINE rec == [sev |-> call[h][at[h]].sev, batch |-> bp[h] = "batch", busy |-> TRUE]
<1>1. hpc[h] # "idle"
  BY DEF HookReserve
<1>2. rec \in Records
  BY <1>1, TargetType DEF Records
<1>3. ring \in Seq(Records) /\ Len(ring) \in Nat /\ cons \in Nat /\ ring' = Append(ring, rec)
  BY DEF TypeOK, HookReserve
<1>4. /\ Len(ring') = Len(ring) + 1 /\ ring'[Len(ring) + 1] = rec
      /\ \A i \in 1..Len(ring) : ring'[i] = ring[i]
  BY <1>2, <1>3, AppendRecord
<1>5. /\ hpc'[h] = "fill" /\ pos'[h] = prod /\ cons' = cons /\ bp' = bp
      /\ \A g \in Hooks \ {h} : hpc'[g] = hpc[g] /\ pos'[g] = pos[g]
  BY DEF HookReserve, TypeOK, mvars
<1>6. prod' = prod + 1 /\ prod \in Nat /\ prod - cons + 1 = Len(ring) + 1
  BY <1>3, <1>4, <1>5 DEF prod
<1>7. rec.busy /\ (rec.batch <=> bp[h] = "batch")
  OBVIOUS
<1> HIDE DEF rec
<1>8. ASSUME NEW g \in Hooks, hpc'[g] = "fill"
      PROVE  /\ cons' <= pos'[g] /\ pos'[g] < prod'
             /\ ring'[Slot(g)'].busy
             /\ ring'[Slot(g)'].batch <=> bp'[g] = "batch"
  <2>1. CASE g = h
    <3>1. Slot(g)' = Len(ring) + 1
      BY <1>5, <1>6, <2>1 DEF Slot
    <3>2. cons <= prod /\ prod < prod + 1
      BY <1>3, <1>6 DEF prod
    <3> QED
      BY <1>4, <1>5, <1>6, <1>7, <2>1, <3>1, <3>2
  <2>2. CASE g # h
    <3>1. hpc[g] = "fill" /\ pos'[g] = pos[g] /\ pos[g] \in Nat /\ Slot(g)' = Slot(g)
      BY <1>5, <1>8, <2>2 DEF Slot, TypeOK
    <3>2. /\ cons <= pos[g] /\ pos[g] < prod /\ ring[Slot(g)].busy
          /\ ring[Slot(g)].batch <=> bp[g] = "batch"
      BY <3>1 DEF FillInv
    <3>3. ring'[Slot(g)] = ring[Slot(g)]
      BY <1>4, <3>2, SlotInRing
    <3>4. pos[g] < prod + 1
      BY <1>6, <3>1, <3>2
    <3> QED
      BY <1>5, <1>6, <3>1, <3>2, <3>3, <3>4
  <2> QED
    BY <2>1, <2>2
<1>9. ASSUME NEW f \in Hooks, NEW g \in Hooks,
             hpc'[f] = "fill", hpc'[g] = "fill", pos'[f] = pos'[g]
      PROVE  f = g
  <2>1. \A e \in Hooks \ {h} : hpc'[e] = "fill" => pos'[e] # prod
    BY <1>5, <1>6 DEF FillInv, TypeOK
  <2> QED
    BY <1>5, <1>9, <2>1 DEF FillInv
<1>10. ASSUME NEW g \in Hooks, hpc'[g] = "notify"
       PROVE  /\ pos'[g] < prod'
              /\ cons' <= pos'[g] => (ring'[Slot(g)'].batch <=> bp'[g] = "batch")
  <2>1. /\ hpc[g] = "notify" /\ pos'[g] = pos[g] /\ pos[g] \in Nat
        /\ Slot(g)' = Slot(g)
    BY <1>5, <1>10 DEF Slot, TypeOK
  <2>2. pos[g] < prod /\ (cons <= pos[g] => (ring[Slot(g)].batch <=> bp[g] = "batch"))
    BY <2>1 DEF NotifyInv
  <2>3. cons <= pos[g] => ring'[Slot(g)] = ring[Slot(g)]
    BY <1>4, <2>2, SlotInRing
  <2>4. pos[g] < prod + 1
    BY <1>6, <2>1, <2>2
  <2> QED
    BY <1>5, <1>6, <2>1, <2>2, <2>3, <2>4
<1> QED
  BY <1>8, <1>9, <1>10 DEF FillInv, NotifyInv

LEMMA CommitSlots ==
  ASSUME TypeOK, FillInv, NotifyInv, NEW h \in Hooks, HookCommit(h)
  PROVE  FillInv' /\ NotifyInv'
<1>1. /\ hpc[h] = "fill" /\ hpc'[h] = "notify" /\ pos' = pos /\ bp' = bp /\ cons' = cons
      /\ \A g \in Hooks \ {h} : hpc'[g] = hpc[g]
  BY DEF HookCommit, TypeOK, mvars
<1>2. Slot(h) \in 1..Len(ring) /\ ring' = [ring EXCEPT ![Slot(h)].busy = FALSE]
  BY <1>1, FillSlot DEF HookCommit, Slot
<1>3. /\ ring \in Seq(Records) /\ Len(ring') = Len(ring)
      /\ \A j \in 1..Len(ring) : ring'[j].batch = ring[j].batch
      /\ \A j \in 1..Len(ring) : j # Slot(h) => ring'[j] = ring[j]
  BY <1>2, SubmitRecord DEF TypeOK
<1>4. prod' = prod /\ \A g \in Hooks : Slot(g)' = Slot(g)
  BY <1>1, <1>3 DEF prod, Slot
<1>5. ASSUME NEW g \in Hooks, hpc'[g] = "fill"
      PROVE  /\ cons' <= pos'[g] /\ pos'[g] < prod'
             /\ ring'[Slot(g)'].busy
             /\ ring'[Slot(g)'].batch <=> bp'[g] = "batch"
  <2>1. g # h /\ hpc[g] = "fill"
    BY <1>1, <1>5
  <2>2. /\ cons <= pos[g] /\ pos[g] < prod /\ ring[Slot(g)].busy
        /\ ring[Slot(g)].batch <=> bp[g] = "batch"
        /\ pos[g] # pos[h]
    BY <1>1, <2>1 DEF FillInv
  <2>3. Slot(g) \in 1..Len(ring) /\ Slot(g) # Slot(h)
    <3>1. pos[g] \in Nat /\ pos[h] \in Nat /\ cons \in Nat
      BY DEF TypeOK
    <3> QED
      BY <2>2, <3>1, SlotInRing DEF Slot
  <2> QED
    BY <1>1, <1>3, <1>4, <2>2, <2>3
<1>6. ASSUME NEW g \in Hooks, hpc'[g] = "notify"
      PROVE  /\ pos'[g] < prod'
             /\ cons' <= pos'[g] => (ring'[Slot(g)'].batch <=> bp'[g] = "batch")
  <2>1. hpc[g] \in {"fill", "notify"}
    BY <1>1, <1>6
  <2>2. pos[g] < prod /\ (cons <= pos[g] => (ring[Slot(g)].batch <=> bp[g] = "batch"))
    BY <2>1 DEF FillInv, NotifyInv
  <2>3. cons <= pos[g] => ring'[Slot(g)].batch = ring[Slot(g)].batch
    BY <1>3, <2>2, SlotInRing
  <2> QED
    BY <1>1, <1>4, <2>2, <2>3
<1>7. \A f, g \in Hooks :
         hpc'[f] = "fill" /\ hpc'[g] = "fill" /\ pos'[f] = pos'[g] => f = g
  BY <1>1 DEF FillInv
<1> QED
  BY <1>5, <1>6, <1>7 DEF FillInv, NotifyInv

LEMMA ConsumeSlots ==
  ASSUME TypeOK, FillInv, NotifyInv, MainConsume
  PROVE  FillInv' /\ NotifyInv'
<1>1. /\ ring # <<>> /\ ~ring[1].busy /\ ring' = Tail(ring) /\ cons' = cons + 1
      /\ hpc' = hpc /\ pos' = pos /\ bp' = bp
  BY DEF MainConsume, HeadReadable, hvars
<1>2. /\ ring \in Seq(Records) /\ Len(ring) \in Nat /\ cons \in Nat
      /\ Len(ring') = Len(ring) - 1
      /\ \A i \in 1..Len(ring') : ring'[i] = ring[i + 1]
  BY <1>1, TailRecord DEF TypeOK
<1>3. prod' = prod /\ \A g \in Hooks : pos[g] \in Nat /\ Slot(g)' = Slot(g) - 1
  BY <1>1, <1>2 DEF prod, Slot, TypeOK
<1>4. ASSUME NEW g \in Hooks, cons + 1 <= pos[g], pos[g] < prod
      PROVE  ring'[Slot(g)'] = ring[Slot(g)]
  <2>1. Slot(g) \in 2..Len(ring)
    BY <1>2, <1>3, <1>4 DEF Slot, prod
  <2>2. Slot(g) - 1 \in 1..Len(ring') /\ (Slot(g) - 1) + 1 = Slot(g)
    BY <1>2, <2>1
  <2> QED
    BY <1>2, <1>3, <2>2
<1>5. ASSUME NEW g \in Hooks, hpc[g] = "fill"
      PROVE  /\ cons + 1 <= pos[g] /\ pos[g] < prod /\ ring[Slot(g)].busy
             /\ ring[Slot(g)].batch <=> bp[g] = "batch"
  <2>1. /\ cons <= pos[g] /\ pos[g] < prod /\ ring[Slot(g)].busy
        /\ ring[Slot(g)].batch <=> bp[g] = "batch"
    BY <1>5 DEF FillInv
  <2>2. Slot(g) # 1
    BY <1>1, <2>1
  <2>3. pos[g] # cons
    BY <1>2, <1>3, <2>2 DEF Slot
  <2> QED
    BY <1>2, <1>3, <2>1, <2>3
<1>6. FillInv'
  BY <1>1, <1>3, <1>4, <1>5 DEF FillInv
<1>7. ASSUME NEW g \in Hooks, hpc[g] = "notify"
      PROVE  /\ pos[g] < prod
             /\ cons + 1 <= pos[g] => (ring'[Slot(g)'].batch <=> bp[g] = "batch")
  <2>1. pos[g] < prod /\ (cons <= pos[g] => (ring[Slot(g)].batch <=> bp[g] = "batch"))
    BY <1>7 DEF NotifyInv
  <2>2. cons + 1 <= pos[g] => cons <= pos[g]
    BY <1>2, <1>3
  <2> QED
    BY <1>4, <2>1, <2>2
<1>8. NotifyInv'
  BY <1>1, <1>3, <1>7 DEF NotifyInv
<1> QED
  BY <1>6, <1>8

(* Steps of hooks and of the main loop that reserve, submit and consume nothing. *)
LEMMA SlotsStep ==
  ASSUME TypeOK, CallInv, FillInv, NotifyInv, [Next]_vars
  PROVE  FillInv' /\ NotifyInv'
<1>1. CASE MainConsume
  BY <1>1, ConsumeSlots
<1>2. CASE UNCHANGED vars \/ (Main /\ ~MainConsume)
  <2>1. ring' = ring /\ cons' = cons /\ hpc' = hpc /\ pos' = pos /\ bp' = bp
    BY <1>2 DEF Main, MainWoken, MainTimeout, MainConsumed, MainNoSample,
                UpdateUtilization, MainPublish, vars, hvars, mvars
  <2> QED
    BY <2>1, SlotsFrame
<1>3. ASSUME NEW h \in Hooks, HookBegin(h) \/ HookStep(h)
      PROVE  FillInv' /\ NotifyInv'
  <2>1. CASE HookReserve(h)
    BY <2>1, ReserveSlots
  <2>2. CASE HookCommit(h)
    BY <2>2, CommitSlots
  <2>3. CASE HookBegin(h) \/ HookDecide(h)
    BY <2>3, SlotsFrame DEF HookBegin, HookDecide, TypeOK, mvars
  <2>4. ASSUME NEW denied \in BOOLEAN, Settle(h, denied), UNCHANGED <<ring, mvars>>
        PROVE  FillInv' /\ NotifyInv'
    BY <2>4, SettleOthers, SlotsFrame DEF mvars
  <2>5. CASE HookDrop(h)
    BY <2>4, <2>5 DEF HookDrop
  <2>6. CASE HookReserveFails(h) \/ HookNotify(h)
    <3>1. Blocks(h) \in BOOLEAN
      BY <2>6, TargetType DEF HookReserveFails, HookNotify
    <3> QED
      BY <2>4, <2>6, <3>1 DEF HookReserveFails, HookNotify
  <2> QED
    BY <1>3, <2>1, <2>2, <2>3, <2>5, <2>6 DEF HookStep
<1> QED
  BY <1>1, <1>2, <1>3 DEF Next

-----------------------------------------------------------------------------
(* The wakeup *)

(* The oldest record stays, and so do the hooks yet to decide about it. *)
LEMMA WakeFrame ==
  ASSUME NoLostWakeup, ready' = ready, cons' = cons, ring # <<>> => ring'[1] = ring[1],
         ring = <<>> /\ ring' # <<>> => ring'[1].busy,
         \A g \in Hooks : hpc[g] = "notify" => hpc'[g] = "notify" /\ pos'[g] = pos[g]
  PROVE  NoLostWakeup'
  BY DEF NoLostWakeup

LEMMA WakeHook ==
  ASSUME TypeOK, CallInv, FillInv, NotifyInv, NoLostWakeup, NEW h \in Hooks,
         HookBegin(h) \/ HookStep(h)
  PROVE  NoLostWakeup'
<1>0. ring \in Seq(Records) /\ Len(ring) \in Nat /\ cons \in Nat /\ pos[h] \in Nat
  BY DEF TypeOK
<1>1. CASE HookBegin(h) \/ HookDecide(h)
  BY <1>1, WakeFrame DEF HookBegin, HookDecide, TypeOK, mvars
<1>2. CASE HookDrop(h)
  BY <1>2, SettleOthers, WakeFrame DEF HookDrop, mvars
<1>3. CASE HookReserveFails(h)
  <2>1. Blocks(h) \in BOOLEAN
    BY <1>3, TargetType DEF HookReserveFails
  <2> QED
    BY <1>3, <2>1, SettleOthers, WakeFrame DEF HookReserveFails, mvars
<1>4. CASE HookReserve(h)
  <2> DEFINE rec == [sev |-> call[h][at[h]].sev, batch |-> bp[h] = "batch", busy |-> TRUE]
  <2>1. rec \in Records /\ rec.busy
    BY <1>4, TargetType DEF HookReserve, Records
  <2>2. ring' = Append(ring, rec)
    BY <1>4 DEF HookReserve
  <2> HIDE DEF rec
  <2>3. (ring # <<>> => ring'[1] = ring[1]) /\ (ring = <<>> => ring'[1] = rec)
    BY <1>0, <2>1, <2>2, AppendRecord
  <2> QED
    BY <1>4, <2>1, <2>3, WakeFrame DEF HookReserve, TypeOK, mvars
<1>5. CASE HookCommit(h)
  <2>1. Slot(h) \in 1..Len(ring) /\ ring' = [ring EXCEPT ![Slot(h)].busy = FALSE]
    BY <1>5, FillSlot DEF HookCommit, Slot
  <2>2. Len(ring') = Len(ring) /\ \A j \in 1..Len(ring) : j # Slot(h) => ring'[j] = ring[j]
    BY <1>0, <2>1, SubmitRecord
  <2>3. /\ ready' = ready /\ cons' = cons /\ pos' = pos /\ hpc'[h] = "notify"
        /\ \A g \in Hooks \ {h} : hpc'[g] = hpc[g]
    BY <1>5 DEF HookCommit, TypeOK, mvars
  <2>4. CASE Slot(h) = 1
    BY <1>0, <2>3, <2>4 DEF Slot, NoLostWakeup
  <2>5. CASE Slot(h) # 1
    <3>1. ring # <<>> /\ ring'[1] = ring[1] /\ hpc[h] = "fill"
      BY <1>0, <1>5, <2>1, <2>2, <2>5 DEF HookCommit
    <3> QED
      BY <2>3, <3>1, WakeFrame
  <2> QED
    BY <2>4, <2>5
<1>6. CASE HookNotify(h)
  <2>1. /\ ready' = (ready \/ Wakes(h)) /\ ring' = ring /\ cons' = cons
        /\ hpc[h] = "notify"
    BY <1>6 DEF HookNotify, mvars
  <2>2. Settle(h, Blocks(h)) /\ Blocks(h) \in BOOLEAN
    BY <1>6, TargetType DEF HookNotify
  <2>3. \A g \in Hooks \ {h} : hpc'[g] = hpc[g] /\ pos'[g] = pos[g]
    BY <2>2, SettleOthers
  <2>4. ASSUME ~ready', ring # <<>>, pos[h] = cons
        PROVE  ring[1].batch
    <3>1. bp[h] = "batch"
      BY <2>1, <2>4, Zenon DEF Wakes
    <3>2. cons <= pos[h] /\ Slot(h) = 1
      BY <1>0, <2>4 DEF Slot
    <3> QED
      BY <2>1, <3>1, <3>2 DEF NotifyInv
  <2> QED
    BY <2>1, <2>3, <2>4 DEF NoLostWakeup
<1> QED
  BY <1>1, <1>2, <1>3, <1>4, <1>5, <1>6 DEF HookStep

LEMMA WakeStep ==
  ASSUME TypeOK, CallInv, FillInv, NotifyInv, WakeInv, [Next]_vars
  PROVE  WakeInv'
<1>1. ASSUME NEW h \in Hooks, HookBegin(h) \/ HookStep(h) PROVE WakeInv'
  <2>1. mpc' = mpc
    BY <1>1 DEF HookBegin, HookStep, HookDrop, HookDecide, HookReserve,
                HookReserveFails, HookCommit, HookNotify, mvars
  <2>2. CASE HookNotify(h)
    <3>1. ready => ready'
      BY <2>2, Zenon DEF HookNotify
    <3> QED
      BY <1>1, <2>1, <3>1, WakeHook DEF WakeInv
  <2>3. CASE ~HookNotify(h)
    <3>1. ready' = ready
      BY <1>1, <2>3 DEF HookBegin, HookStep, HookDrop, HookDecide, HookReserve,
                        HookReserveFails, HookCommit
    <3> QED
      BY <1>1, <2>1, <3>1, WakeHook DEF WakeInv
  <2> QED
    BY <2>2, <2>3
<1>2. CASE UNCHANGED vars
  BY <1>2 DEF WakeInv, NoLostWakeup, vars, hvars, mvars
<1>3. CASE MainWoken \/ MainConsume
  <2>1. ready'
    BY <1>3 DEF MainWoken, MainConsume, WakeInv
  <2> QED
    BY <2>1 DEF WakeInv, NoLostWakeup
<1>4. CASE MainTimeout
  BY <1>4 DEF MainTimeout, WakeInv, NoLostWakeup, hvars
<1>5. CASE MainConsumed \/ MainNoSample \/ UpdateUtilization \/ MainPublish
  BY <1>5 DEF MainConsumed, MainNoSample, UpdateUtilization, MainPublish, WakeInv,
              NoLostWakeup, hvars
<1> QED
  BY <1>1, <1>2, <1>3, <1>4, <1>5 DEF Next, Main

-----------------------------------------------------------------------------
(* The counters *)

In(S) == {h \in Hooks : hpc[h] \in S}

LEMMA InFinite ==
  ASSUME IsFiniteSet(Active), NEW CONSTANT S, "idle" \notin S
  PROVE  IsFiniteSet(In(S)) /\ InHook(S) = Cardinality(In(S)) /\ InHook(S) \in Nat
<1>1. In(S) \subseteq Active
  BY DEF In, Active
<1>2. IsFiniteSet(In(S)) /\ InHook(S) = Cardinality(In(S))
  BY <1>1, FS_Subset DEF In, InHook
<1> QED
  BY <1>2, FS_CardinalityType

(* A step of one hook changes a count by at most one. *)
LEMMA InHookStep ==
  ASSUME IsFiniteSet(Active), NEW CONSTANT S, "idle" \notin S, NEW h \in Hooks,
         \A g \in Hooks \ {h} : hpc'[g] = hpc[g]
  PROVE  /\ (hpc'[h] \in S <=> hpc[h] \in S) => InHook(S)' = InHook(S)
         /\ hpc[h] \notin S /\ hpc'[h] \in S => InHook(S)' = InHook(S) + 1
         /\ hpc[h] \in S /\ hpc'[h] \notin S => InHook(S)' = InHook(S) - 1
<1>1. IsFiniteSet(In(S)) /\ InHook(S) = Cardinality(In(S)) /\ InHook(S) \in Nat
  BY InFinite
<1>2. InHook(S)' = Cardinality(In(S)')
  BY DEF InHook, In
<1>3. CASE hpc'[h] \in S <=> hpc[h] \in S
  <2>1. In(S)' = In(S)
    BY <1>3 DEF In
  <2> QED
    BY <1>1, <1>2, <1>3, <2>1
<1>4. CASE hpc[h] \notin S /\ hpc'[h] \in S
  <2>1. In(S)' = In(S) \cup {h} /\ h \notin In(S)
    BY <1>4 DEF In
  <2> QED
    BY <1>1, <1>2, <1>4, <2>1, FS_AddElement
<1>5. CASE hpc[h] \in S /\ hpc'[h] \notin S
  <2>1. In(S)' = In(S) \ {h} /\ h \in In(S)
    BY <1>5 DEF In
  <2> QED
    BY <1>1, <1>2, <1>5, <2>1, FS_RemoveElement
<1> QED
  BY <1>3, <1>4, <1>5

Matched == {"reserve", "fill", "notify"}
Reserved == {"fill", "notify"}

LEMMA CountStep ==
  ASSUME TypeOK, CallInv, FillInv, IsFiniteSet(Active), Reconciled, [Next]_vars
  PROVE  Reconciled'
<1> DEFINE M == InHook(Matched)
           R == InHook(Reserved)
<1>1. M \in Nat /\ R \in Nat
  BY InFinite DEF Matched, Reserved
<1>2. /\ hits \in Nat /\ cons \in Nat /\ Len(ring) \in Nat /\ ring \in Seq(Records)
      /\ drop_stats \in [{"emitted", "reserve_fail", "backpressure"} -> Nat]
      /\ drop_stats.emitted \in Nat /\ drop_stats.reserve_fail \in Nat
      /\ drop_stats.backpressure \in Nat
  BY DEF TypeOK
<1>7. /\ hits \in Nat /\ cons \in Nat /\ Len(ring) \in Nat /\ M \in Nat /\ R \in Nat
      /\ drop_stats.emitted \in Nat /\ drop_stats.reserve_fail \in Nat
      /\ drop_stats.backpressure \in Nat
  BY <1>1, <1>2
<1>3. /\ hits = drop_stats.emitted + drop_stats.reserve_fail + drop_stats.backpressure + M
      /\ cons + Len(ring) = drop_stats.emitted + R
  BY DEF Reconciled, Matched, Reserved, prod
<1>8. /\ hits + 1 = drop_stats.emitted + drop_stats.reserve_fail
                    + (drop_stats.backpressure + 1) + M
      /\ hits + 1 = drop_stats.emitted + drop_stats.reserve_fail
                    + drop_stats.backpressure + (M + 1)
      /\ hits = drop_stats.emitted + (drop_stats.reserve_fail + 1)
                + drop_stats.backpressure + (M - 1)
      /\ hits = (drop_stats.emitted + 1) + drop_stats.reserve_fail
                + drop_stats.backpressure + (M - 1)
      /\ cons + (Len(ring) + 1) = drop_stats.emitted + (R + 1)
      /\ cons + Len(ring) = (drop_stats.emitted + 1) + (R - 1)
  <2> DEFINE e == drop_stats.emitted
             f == drop_stats.reserve_fail
             b == drop_stats.backpressure
             l == Len(ring)
  <2>1. /\ hits \in Nat /\ cons \in Nat /\ l \in Nat /\ M \in Nat /\ R \in Nat
        /\ e \in Nat /\ f \in Nat /\ b \in Nat
        /\ hits = e + f + b + M /\ cons + l = e + R
    BY <1>3, <1>7
  <2> HIDE DEF e, f, b, l, M, R
  <2>2. /\ hits + 1 = e + f + (b + 1) + M /\ hits + 1 = e + f + b + (M + 1)
        /\ hits = e + (f + 1) + b + (M - 1) /\ hits = (e + 1) + f + b + (M - 1)
        /\ cons + (l + 1) = e + (R + 1) /\ cons + l = (e + 1) + (R - 1)
    BY <2>1
  <2> QED
    BY <2>2 DEF e, f, b, l
<1>4. SUFFICES
        /\ hits' = drop_stats'.emitted + drop_stats'.reserve_fail
                   + drop_stats'.backpressure + M'
        /\ cons' + Len(ring') = drop_stats'.emitted + R'
  BY DEF Reconciled, Matched, Reserved, prod
<1> HIDE DEF M, R
<1>5. CASE Main \/ UNCHANGED vars
  <2>1. hits' = hits /\ drop_stats' = drop_stats /\ hpc' = hpc
    BY <1>5 DEF Main, MainWoken, MainTimeout, MainConsume, MainConsumed,
                MainNoSample, UpdateUtilization, MainPublish, vars, hvars
  <2>2. M' = M /\ R' = R
    BY <2>1 DEF M, R, InHook
  <2>3. cons' + Len(ring') = cons + Len(ring)
    <3>1. CASE MainConsume
      <4>1. cons' = cons + 1 /\ Len(ring') = Len(ring) - 1
        BY <1>2, <3>1, TailRecord DEF MainConsume, HeadReadable
      <4> QED
        BY <1>2, <4>1
    <3>2. CASE ~MainConsume
      BY <1>5, <3>2 DEF Main, MainWoken, MainTimeout, MainConsumed,
                        MainNoSample, UpdateUtilization, MainPublish, vars, mvars
    <3> QED
      BY <3>1, <3>2
  <2> QED
    BY <1>3, <2>1, <2>2, <2>3
<1>6. ASSUME NEW h \in Hooks, HookBegin(h) \/ HookStep(h)
      PROVE  /\ hits' = drop_stats'.emitted + drop_stats'.reserve_fail
                        + drop_stats'.backpressure + M'
             /\ cons' + Len(ring') = drop_stats'.emitted + R'
  <2>1. \A g \in Hooks \ {h} : hpc'[g] = hpc[g]
    BY <1>6 DEF HookBegin, HookStep, HookDrop, HookDecide, HookReserve,
                HookReserveFails, HookCommit, HookNotify, Settle, TypeOK
  <2>2. /\ (hpc'[h] \in Matched <=> hpc[h] \in Matched) => M' = M
        /\ hpc[h] \notin Matched /\ hpc'[h] \in Matched => M' = M + 1
        /\ hpc[h] \in Matched /\ hpc'[h] \notin Matched => M' = M - 1
    BY <2>1, InHookStep DEF M, Matched
  <2>3. /\ (hpc'[h] \in Reserved <=> hpc[h] \in Reserved) => R' = R
        /\ hpc[h] \notin Reserved /\ hpc'[h] \in Reserved => R' = R + 1
        /\ hpc[h] \in Reserved /\ hpc'[h] \notin Reserved => R' = R - 1
    BY <2>1, InHookStep DEF R, Reserved
  <2>4. CASE HookBegin(h)
    <3>1. /\ hpc[h] = "idle" /\ hpc'[h] = "check" /\ ring' = ring /\ cons' = cons
          /\ drop_stats' = drop_stats /\ hits' = hits
      BY <2>4 DEF HookBegin, TypeOK, mvars
    <3>2. M' = M /\ R' = R
      BY <2>2, <2>3, <3>1 DEF Matched, Reserved
    <3> QED
      BY <1>3, <1>8, <3>1, <3>2
  <2>5. CASE HookDrop(h)
    <3>1. hpc[h] = "check" /\ hpc'[h] \in {"idle", "check"}
      BY <2>5, SettleOthers DEF HookDrop
    <3>2. ring' = ring /\ cons' = cons /\ hits' = hits + 1
      BY <2>5 DEF HookDrop, mvars
    <3>3. /\ drop_stats'.backpressure = drop_stats.backpressure + 1
          /\ drop_stats'.emitted = drop_stats.emitted
          /\ drop_stats'.reserve_fail = drop_stats.reserve_fail
      BY <1>2, <2>5, CounterType DEF HookDrop
    <3>4. M' = M /\ R' = R
      BY <2>2, <2>3, <3>1 DEF Matched, Reserved
    <3> QED
      BY <1>3, <1>8, <3>2, <3>3, <3>4
  <2>6. CASE HookDecide(h)
    <3>1. /\ hpc[h] = "check" /\ hpc'[h] = "reserve" /\ ring' = ring /\ cons' = cons
          /\ drop_stats' = drop_stats
      BY <2>6 DEF HookDecide, TypeOK, mvars
    <3>2. hits' = hits + 1
      BY <2>6 DEF HookDecide
    <3>3. M' = M + 1 /\ R' = R
      BY <2>2, <2>3, <3>1 DEF Matched, Reserved
    <3> QED
      BY <1>3, <1>8, <3>1, <3>2, <3>3
  <2>7. CASE HookReserve(h)
    <3>1. /\ hpc[h] = "reserve" /\ hpc'[h] = "fill" /\ cons' = cons
          /\ drop_stats' = drop_stats /\ hits' = hits
      BY <2>7 DEF HookReserve, TypeOK, mvars
    <3>2. Len(ring') = Len(ring) + 1
      BY <1>2, <2>7 DEF HookReserve
    <3>3. M' = M /\ R' = R + 1
      BY <2>2, <2>3, <3>1 DEF Matched, Reserved
    <3> QED
      BY <1>3, <1>8, <3>1, <3>2, <3>3
  <2>8. CASE HookReserveFails(h)
    <3>1. Blocks(h) \in BOOLEAN
      BY <2>8, TargetType DEF HookReserveFails
    <3>2. hpc[h] = "reserve" /\ hpc'[h] \in {"idle", "check"}
      BY <2>8, <3>1, SettleOthers DEF HookReserveFails
    <3>3. ring' = ring /\ cons' = cons /\ hits' = hits
      BY <2>8 DEF HookReserveFails, mvars
    <3>4. /\ drop_stats'.reserve_fail = drop_stats.reserve_fail + 1
          /\ drop_stats'.emitted = drop_stats.emitted
          /\ drop_stats'.backpressure = drop_stats.backpressure
      BY <1>2, <2>8, CounterType DEF HookReserveFails
    <3>5. M' = M - 1 /\ R' = R
      BY <2>2, <2>3, <3>2 DEF Matched, Reserved
    <3> QED
      BY <1>3, <1>8, <3>3, <3>4, <3>5
  <2>9. CASE HookCommit(h)
    <3>1. /\ hpc[h] = "fill" /\ hpc'[h] = "notify" /\ cons' = cons
          /\ drop_stats' = drop_stats /\ hits' = hits
      BY <2>9 DEF HookCommit, TypeOK, mvars
    <3>2. Slot(h) \in 1..Len(ring) /\ ring' = [ring EXCEPT ![Slot(h)].busy = FALSE]
      BY <2>9, FillSlot DEF HookCommit, Slot
    <3>3. Len(ring') = Len(ring)
      BY <1>2, <3>2, SubmitRecord
    <3>4. M' = M /\ R' = R
      BY <2>2, <2>3, <3>1 DEF Matched, Reserved
    <3> QED
      BY <1>3, <1>8, <3>1, <3>3, <3>4
  <2>10. CASE HookNotify(h)
    <3>1. Blocks(h) \in BOOLEAN
      BY <2>10, TargetType DEF HookNotify
    <3>2. hpc[h] = "notify" /\ hpc'[h] \in {"idle", "check"}
      BY <2>10, <3>1, SettleOthers DEF HookNotify
    <3>3. ring' = ring /\ cons' = cons /\ hits' = hits
      BY <2>10 DEF HookNotify, mvars
    <3>4. /\ drop_stats'.emitted = drop_stats.emitted + 1
          /\ drop_stats'.reserve_fail = drop_stats.reserve_fail
          /\ drop_stats'.backpressure = drop_stats.backpressure
      BY <1>2, <2>10, CounterType DEF HookNotify
    <3>5. M' = M - 1 /\ R' = R - 1
      BY <2>2, <2>3, <3>2 DEF Matched, Reserved
    <3> QED
      BY <1>3, <1>8, <3>3, <3>4, <3>5
  <2> QED
    BY <1>6, <2>4, <2>5, <2>6, <2>7, <2>8, <2>9, <2>10 DEF HookStep
<1> QED
  BY <1>5, <1>6 DEF Next

-----------------------------------------------------------------------------
(* What blocked stays blocked *)

LEMMA SettlePass ==
  ASSUME TypeOK, CallInv, PassInv, NEW h \in Hooks, hpc[h] # "idle",
         Settle(h, Blocks(h)), drop_stats'.backpressure = drop_stats.backpressure
  PROVE  PassInv'
<1>1. /\ call[h] \in Seq(Targets) /\ Len(call[h]) \in 1..2 /\ at[h] \in 1..Len(call[h])
      /\ Blocks(h) \in BOOLEAN
      /\ hpc \in [Hooks -> {"idle", "check", "reserve", "fill", "notify"}]
      /\ call \in [Hooks -> Seq(Targets)] /\ at \in [Hooks -> 1..2]
  BY TargetType DEF TypeOK
<1>2. \A g \in Hooks \ {h} : hpc'[g] = hpc[g] /\ call'[g] = call[g] /\ at'[g] = at[g]
  BY <1>1, SettleOthers
<1>3. SUFFICES ASSUME drop_stats.backpressure = 0
               PROVE  /\ \A t \in allowed' : ~t.block
                      /\ \A g \in Hooks : hpc'[g] # "idle" =>
                           \A i \in 1..(at'[g] - 1) : ~call'[g][i].block
  BY DEF PassInv
<1>4. /\ \A t \in allowed : ~t.block
      /\ \A g \in Hooks : hpc[g] # "idle" => \A i \in 1..(at[g] - 1) : ~call[g][i].block
  BY <1>3 DEF PassInv
<1>5. CASE Blocks(h)
  <2>1. hpc'[h] = "idle" /\ allowed' = allowed
    BY <1>1, <1>5 DEF Settle
  <2> QED
    BY <1>2, <1>4, <2>1
<1>6. CASE ~Blocks(h)
  <2>1. \A i \in 1..at[h] : ~call[h][i].block
    <3>1. \A i \in 1..(at[h] - 1) : ~call[h][i].block
      BY <1>4
    <3>2. ~call[h][at[h]].block
      BY <1>6 DEF Blocks
    <3>3. \A i \in 1..at[h] : i = at[h] \/ i \in 1..(at[h] - 1)
      BY <1>1
    <3> QED
      BY <3>1, <3>2, <3>3
  <2>2. CASE at[h] = Len(call[h])
    <3>1. hpc'[h] = "idle" /\ allowed' = allowed \cup Range(call[h])
      BY <1>1, <1>6, <2>2 DEF Settle
    <3>2. \A t \in Range(call[h]) : ~t.block
      BY <1>1, <2>1, <2>2 DEF Range
    <3> QED
      BY <1>2, <1>4, <3>1, <3>2
  <2>3. CASE at[h] # Len(call[h])
    <3>1. /\ call'[h] = call[h] /\ at'[h] = at[h] + 1 /\ allowed' = allowed
      BY <1>1, <1>6, <2>3 DEF Settle
    <3>2. at'[h] - 1 = at[h]
      BY <1>1, <3>1
    <3> QED
      BY <1>2, <1>4, <2>1, <3>1, <3>2
  <2> QED
    BY <2>2, <2>3
<1> QED
  BY <1>1, <1>5, <1>6

LEMMA PassStep ==
  ASSUME TypeOK, CallInv, PassInv, [Next]_vars
  PROVE  PassInv'
<1>1. CASE Main \/ UNCHANGED vars
  <2>1. UNCHANGED <<drop_stats, allowed, hpc, call, at>>
    BY <1>1 DEF Main, MainWoken, MainTimeout, MainConsume, MainConsumed,
                MainNoSample, UpdateUtilization, MainPublish, vars, hvars
  <2> QED
    BY <2>1 DEF PassInv
<1>2. ASSUME NEW h \in Hooks, HookBegin(h) \/ HookStep(h) PROVE PassInv'
  <2>1. CASE HookBegin(h)
    <3>1. /\ \A g \in Hooks \ {h} : hpc'[g] = hpc[g] /\ call'[g] = call[g]
          /\ at' = at /\ at[h] = 1 /\ UNCHANGED <<drop_stats, allowed>>
      BY <2>1 DEF HookBegin, TypeOK, CallInv
    <3>2. \A i \in 1..(at'[h] - 1) : FALSE
      BY <3>1
    <3> QED
      BY <3>1, <3>2 DEF PassInv
  <2>2. CASE HookDecide(h) \/ HookReserve(h) \/ HookCommit(h)
    <3>1. /\ UNCHANGED <<drop_stats, allowed, call, at>>
          /\ \A g \in Hooks : hpc'[g] # "idle" => hpc[g] # "idle"
      BY <2>2 DEF HookDecide, HookReserve, HookCommit, TypeOK
    <3> QED
      BY <3>1 DEF PassInv
  <2>3. CASE HookDrop(h)
    <3>1. drop_stats'.backpressure = drop_stats.backpressure + 1
          /\ drop_stats.backpressure \in Nat
      BY <2>3, CounterType DEF HookDrop, TypeOK
    <3> QED
      BY <3>1 DEF PassInv
  <2>4. CASE HookReserveFails(h) \/ HookNotify(h)
    <3>1. hpc[h] # "idle" /\ Settle(h, Blocks(h))
      BY <2>4 DEF HookReserveFails, HookNotify
    <3>2. drop_stats'.backpressure = drop_stats.backpressure
      BY <2>4, CounterType DEF HookReserveFails, HookNotify, TypeOK
    <3> QED
      BY <3>1, <3>2, SettlePass
  <2> QED
    BY <1>2, <2>1, <2>2, <2>3, <2>4 DEF HookStep
<1> QED
  BY <1>1, <1>2 DEF Next

-----------------------------------------------------------------------------
LEMMA InitIInv == Init => IInv
<1> SUFFICES ASSUME Init PROVE IInv
  OBVIOUS
<1> USE DEF Init
<1>1. TypeOK
  BY InitType
<1>2. Active = {} /\ IsFiniteSet(Active)
  BY FS_EmptySet DEF Active
<1>3. CallInv /\ FillInv /\ NotifyInv
  BY DEF CallInv, FillInv, NotifyInv
<1>4. WakeInv
  BY DEF WakeInv, NoLostWakeup
<1>5. Reconciled
  <2>1. InHook(Matched) = 0 /\ InHook(Reserved) = 0
    BY FS_EmptySet DEF InHook, Matched, Reserved
  <2> QED
    BY <2>1 DEF Reconciled, Matched, Reserved, prod
<1>6. PassInv
  BY DEF PassInv
<1> QED
  BY <1>1, <1>2, <1>3, <1>4, <1>5, <1>6 DEF IInv

LEMMA StepIInv == IInv /\ [Next]_vars => IInv'
<1> SUFFICES ASSUME IInv, [Next]_vars PROVE IInv'
  OBVIOUS
<1> USE DEF IInv
<1>1. TypeOK' /\ CallInv'
  <2>1. ASSUME NEW h \in Hooks, HookBegin(h) \/ HookStep(h) PROVE TypeOK' /\ CallInv'
    BY <2>1, BeginType, HookType
  <2>2. CASE Main
    BY <2>2, MainType DEF Main, MainWoken, MainTimeout, MainConsume, MainConsumed,
          MainNoSample, UpdateUtilization, MainPublish, hvars, CallInv
  <2>3. CASE UNCHANGED vars
    BY <2>3 DEF vars, hvars, mvars, TypeOK, CallInv
  <2> QED
    BY <2>1, <2>2, <2>3 DEF Next
<1>2. IsFiniteSet(Active)'
  BY ActiveStep
<1>3. FillInv' /\ NotifyInv'
  BY SlotsStep
<1>4. WakeInv' /\ Reconciled' /\ PassInv'
  BY WakeStep, CountStep, PassStep
<1> QED
  BY <1>1, <1>2, <1>3, <1>4

LEMMA Invariance == Spec => []IInv
  BY InitIInv, StepIInv, PTL DEF Spec

(***************************************************************************)
(* Every rule match is emitted, failed to reserve, was shed, or is still   *)
(* in a hook, and what was emitted or is being filled is what the ring has *)
(* carried: the counters of the kernel can be trusted at any moment.       *)
(***************************************************************************)
THEOREM CountersReconcile == Spec => []RingInv
<1>1. IInv => RingInv
  BY DEF IInv, RingInv
<1> QED
  BY <1>1, Invariance, PTL

(***************************************************************************)
(* The wakeups that bpf_ringbuf_submit skips are superfluous, but for a    *)
(* batched record in front: no realtime record waits unseen by epoll.      *)
(***************************************************************************)
THEOREM NoWakeupIsLost == Spec => []NoLostWakeup
<1>1. IInv => NoLostWakeup
  BY DEF IInv, WakeInv
<1> QED
  BY <1>1, Invariance, PTL

(***************************************************************************)
(* A ring without room for the event never turns a refusal into a          *)
(* permission: only an event that backpressure shed can do that.           *)
(***************************************************************************)
THEOREM RefusalSurvivesFullRing == Spec => []BlockSurvivesFullRing
<1>1. IInv => BlockSurvivesFullRing
  BY DEF IInv, PassInv, BlockSurvivesFullRing
<1> QED
  BY <1>1, Invariance, PTL
=============================================================================
