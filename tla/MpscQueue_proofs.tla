-------------------------- MODULE MpscQueue_proofs --------------------------
(***************************************************************************)
(* The queue is free of slot races, never overfills, implements SlotFifo   *)
(* and refuses nobody who merely lost a race, for every number of          *)
(* producers, consumers and calls and every capacity above one.            *)
(***************************************************************************)
EXTENDS MpscQueue, SequenceTheorems, WellFoundedInduction, TLAPS

-----------------------------------------------------------------------------
(* Arithmetic of the slots *)

LEMMA CapacityType == Capacity \in Nat /\ Capacity > 0
  BY CapacityAssumption

(* Division with remainder, and what adding the divisor does to both. *)
LEMMA DivMod ==
  ASSUME NEW c \in Nat, c > 0, NEW a \in Nat
  PROVE  /\ a \div c \in Nat
         /\ a % c \in 0..c-1
         /\ a = c * (a \div c) + (a % c)
  BY SMT

LEMMA DivPlus ==
  ASSUME NEW c \in Nat, c > 0, NEW a \in Nat
  PROVE  (a + c) \div c = (a \div c) + 1
  BY SMT

LEMMA SlotInRange ==
  ASSUME NEW a \in Nat
  PROVE  Slot(a) \in Slots
  BY DivMod, CapacityType DEF Slot, Slots

(* One lap later a position lies in the same slot. *)
LEMMA SlotRepeats ==
  ASSUME NEW a \in Nat
  PROVE  Slot(a + Capacity) = Slot(a)
<1> DEFINE q  == a \div Capacity
           r  == a % Capacity
           r2 == (a + Capacity) % Capacity
<1>0. a + Capacity \in Nat
  BY CapacityType
<1>1. a = Capacity * q + r
  BY DivMod, CapacityType
<1>2. a + Capacity = Capacity * ((a + Capacity) \div Capacity) + r2
  BY <1>0, DivMod, CapacityType
<1>3. (a + Capacity) \div Capacity = q + 1
  BY DivPlus, CapacityType
<1>4. q \in Nat /\ r \in Nat /\ r2 \in Nat
  BY <1>0, DivMod, CapacityType
<1>5. Capacity * (q + 1) = Capacity * q + Capacity
  BY <1>4, CapacityType
<1> HIDE DEF q, r, r2
<1>6. r2 = r
  BY <1>1, <1>2, <1>3, <1>4, <1>5, CapacityType
<1>7. QED
  BY <1>6 DEF Slot, r, r2

(* Two positions less than one lap apart lie in different slots. *)
LEMMA SlotsDiffer ==
  ASSUME NEW a \in Nat, NEW b \in Nat, a < b, b < a + Capacity
  PROVE  Slot(a) # Slot(b)
<1> DEFINE qa == a \div Capacity
           qb == b \div Capacity
           ra == a % Capacity
           rb == b % Capacity
<1>1. /\ qa \in Nat /\ qb \in Nat /\ ra \in Nat /\ rb \in Nat
      /\ a = Capacity * qa + ra
      /\ b = Capacity * qb + rb
  BY DivMod, CapacityType
<1> SUFFICES ASSUME ra = rb PROVE FALSE
  BY DEF Slot
<1> HIDE DEF qa, qb, ra, rb
<1>2. b - a = Capacity * (qb - qa)
  BY <1>1, CapacityType
<1>3. CASE qb <= qa
  <2>1. Capacity * (qb - qa) <= 0
    BY <1>1, <1>3, CapacityType
  <2>2. QED
    BY <2>1, <1>2
<1>4. CASE qb > qa
  <2>1. Capacity * (qb - qa) >= Capacity
    BY <1>1, <1>4, CapacityType
  <2>2. QED
    BY <2>1, <1>2, CapacityType
<1>5. QED
  BY <1>1, <1>3, <1>4

-----------------------------------------------------------------------------
(* The inductive invariant *)

(* What the slot of position k holds, for k within one lap of dequeue_pos:
   claimed positions are published once their producer is done; unclaimed
   ones are writable once the consumer of the lap before is done. *)
Expected(k) ==
  IF k < enqueue_pos
  THEN IF Reserved(k) THEN k ELSE k + 1
  ELSE IF Taken(k - Capacity) THEN (k - Capacity) + 1 ELSE k

SlotInv ==
  \A k \in Nat : dequeue_pos <= k /\ k < dequeue_pos + Capacity
                   => seq[Slot(k)] = Expected(k)

ProducerInv ==
  /\ \A p \in Producers :
       /\ ppos[p] <= enqueue_pos
       /\ Filling(p) => dequeue_pos <= ppos[p] /\ ppos[p] < enqueue_pos
       /\ ppc[p] = "cas" /\ ppos[p] = enqueue_pos
            => /\ enqueue_pos < dequeue_pos + Capacity
               /\ ~ Taken(enqueue_pos - Capacity)
  /\ \A p, q \in Producers :
       p # q /\ Filling(p) /\ Filling(q) => ppos[p] # ppos[q]

ConsumerInv ==
  /\ \A c \in Consumers :
       /\ cpos[c] <= dequeue_pos
       /\ Taking(c) => cpos[c] < dequeue_pos /\ enqueue_pos <= cpos[c] + Capacity
       /\ cpc[c] = "cas" /\ cpos[c] = dequeue_pos
            => dequeue_pos < enqueue_pos /\ ~ Reserved(dequeue_pos)
  /\ \A c, d \in Consumers :
       c # d /\ Taking(c) /\ Taking(d) => cpos[c] # cpos[d]

(* The part of the state the argument is about. *)
PosTypeOK ==
  /\ seq \in [Slots -> Nat]
  /\ enqueue_pos \in Nat /\ dequeue_pos \in Nat
  /\ ppc \in [Producers -> {"idle", "check", "cas", "write", "publish"}]
  /\ ppos \in [Producers -> Nat]
  /\ cpc \in [Consumers -> {"idle", "check", "cas", "read", "release"}]
  /\ cpos \in [Consumers -> Nat]

IInv == PosTypeOK /\ BoundedOccupancy /\ SlotInv /\ ProducerInv /\ ConsumerInv

LEMMA InitIInv == Init => IInv
<1> SUFFICES ASSUME Init PROVE IInv
  OBVIOUS
<1> USE CapacityType DEF Init
<1>1. PosTypeOK
  BY DEF PosTypeOK, Slots
<1>2. BoundedOccupancy
  BY DEF BoundedOccupancy
<1>3. ProducerInv /\ ConsumerInv
  BY DEF ProducerInv, ConsumerInv, Filling, Taking, Taken, Reserved
<1>4. SlotInv
  <2> SUFFICES ASSUME NEW k \in Nat, k < Capacity
               PROVE  seq[Slot(k)] = Expected(k)
    BY DEF SlotInv
  <2>1. Slot(k) = k
    <3>1. /\ k \div Capacity \in Nat /\ k % Capacity \in 0..Capacity-1
          /\ k = Capacity * (k \div Capacity) + (k % Capacity)
      BY DivMod
    <3>2. k \div Capacity = 0
      BY <3>1
    <3>3. QED
      BY <3>1, <3>2 DEF Slot
  <2>2. k \in Slots
    BY DEF Slots
  <2>3. ~ Taken(k - Capacity)
    BY DEF Taken, Taking
  <2>4. QED
    BY <2>1, <2>2, <2>3 DEF Expected
<1>5. QED
  BY <1>1, <1>2, <1>3, <1>4 DEF IInv

(* Steps that move no position and publish nothing keep the slots as they
   are, provided the same threads own the same positions. *)
LEMMA QuietStep ==
  ASSUME IInv, PosTypeOK',
         UNCHANGED <<seq, enqueue_pos, dequeue_pos>>,
         \A k \in Int : (Reserved(k)' <=> Reserved(k)) /\ (Taken(k)' <=> Taken(k))
  PROVE  SlotInv' /\ BoundedOccupancy'
<1> USE DEF IInv
<1>1. BoundedOccupancy'
  BY DEF BoundedOccupancy
<1>2. SlotInv'
  <2> SUFFICES ASSUME NEW k \in Nat, dequeue_pos <= k, k < dequeue_pos + Capacity
               PROVE  seq[Slot(k)] = Expected(k)'
    BY DEF SlotInv, Slot
  <2>1. Expected(k)' = Expected(k)
    BY CapacityType DEF Expected, PosTypeOK
  <2>2. QED
    BY <2>1 DEF SlotInv
<1>3. QED
  BY <1>1, <1>2

(* Distinct positions of one lap window have distinct slots. *)
LEMMA WindowDistinct ==
  ASSUME NEW lo \in Nat, NEW j \in Nat, NEW k \in Nat, j # k,
         lo <= j, j < lo + Capacity, lo <= k, k < lo + Capacity
  PROVE  Slot(j) # Slot(k)
<1>1. CASE j < k
  BY <1>1, SlotsDiffer, CapacityType
<1>2. CASE k < j
  BY <1>2, SlotsDiffer, CapacityType
<1>3. QED
  BY <1>1, <1>2

LEMMA PushStep ==
  ASSUME Capacity > 1, IInv, NEW p \in Producers, Push(p)
  PROVE  IInv'
<1> USE CapacityType DEF PosTypeOK
<1>0. PosTypeOK /\ BoundedOccupancy /\ SlotInv /\ ProducerInv /\ ConsumerInv
  BY DEF IInv
<1>a. UNCHANGED <<cpc, cpos, out, popped, dequeue_pos>>
  BY DEF Push, PushBegin, PushSlotFree, PushFull, PushReload, PushClaim,
         PushCasFail, PushWrite, PushPublish, qvars, cvars
<1>b. \A k \in Int : Taken(k)' <=> Taken(k)
  BY <1>a DEF Taken, Taking
<1>1. CASE PushBegin(p) \/ PushFull(p) \/ PushReload(p) \/ PushCasFail(p)
  <2> USE <1>1 DEF PushBegin, PushFull, PushReload, PushCasFail, qvars, cvars
  <2>1. PosTypeOK'
    BY <1>0
  <2>2. \A q \in Producers : /\ Filling(q)' <=> Filling(q)
                             /\ Filling(q) => ppos'[q] = ppos[q]
    BY <1>0 DEF Filling
  <2>3. \A k \in Int : Reserved(k)' <=> Reserved(k)
    BY <2>2 DEF Reserved
  <2>4. SlotInv' /\ BoundedOccupancy'
    BY <2>1, <2>3, <1>b, QuietStep
  <2>5. ProducerInv'
    BY <1>0, <1>b, <2>2 DEF ProducerInv, BoundedOccupancy
  <2>6. ConsumerInv'
    BY <1>0, <1>a, <2>3 DEF ConsumerInv, Taking
  <2>7. QED
    BY <2>1, <2>4, <2>5, <2>6 DEF IInv
<1>2. CASE PushSlotFree(p)
  <2> USE <1>2 DEF PushSlotFree, qvars, cvars
  <2>1. PosTypeOK'
    BY <1>0
  <2>2. \A q \in Producers : Filling(q)' <=> Filling(q)
    BY <1>0 DEF Filling
  <2>3. \A k \in Int : Reserved(k)' <=> Reserved(k)
    BY <2>2 DEF Reserved
  <2>4. SlotInv' /\ BoundedOccupancy'
    BY <2>1, <2>3, <1>b, QuietStep
  <2>5. ASSUME ppos[p] = enqueue_pos
        PROVE  enqueue_pos < dequeue_pos + Capacity /\ ~ Taken(enqueue_pos - Capacity)
    <3>1. enqueue_pos # dequeue_pos + Capacity
      <4> SUFFICES ASSUME enqueue_pos = dequeue_pos + Capacity PROVE FALSE
        OBVIOUS
      <4>1. seq[Slot(enqueue_pos)] = seq[Slot(dequeue_pos)]
        BY <1>0, SlotRepeats
      <4>2. seq[Slot(dequeue_pos)] = Expected(dequeue_pos)
        BY <1>0 DEF SlotInv
      <4>3. Expected(dequeue_pos) \in {dequeue_pos, dequeue_pos + 1}
        BY <1>0 DEF Expected
      <4>4. QED
        BY <1>0, <2>5, <4>1, <4>2, <4>3
    <3>2. enqueue_pos < dequeue_pos + Capacity
      BY <1>0, <3>1 DEF BoundedOccupancy
    <3>3. Expected(enqueue_pos) = enqueue_pos
      BY <1>0, <2>5, <3>2 DEF SlotInv, BoundedOccupancy
    <3>4. ~ Taken(enqueue_pos - Capacity)
      BY <1>0, <3>3 DEF Expected
    <3>5. QED
      BY <3>2, <3>4
  <2>6. ProducerInv'
    BY <1>0, <1>b, <2>2, <2>5 DEF ProducerInv
  <2>7. ConsumerInv'
    BY <1>0, <1>a, <2>3 DEF ConsumerInv, Taking
  <2>8. QED
    BY <2>1, <2>4, <2>6, <2>7 DEF IInv
<1>3. CASE PushClaim(p)
  <2> USE <1>3 DEF PushClaim, cvars
  <2>1. PosTypeOK'
    BY <1>0
  <2>2. /\ enqueue_pos < dequeue_pos + Capacity
        /\ ~ Taken(enqueue_pos - Capacity)
    BY <1>0 DEF ProducerInv
  <2>3. BoundedOccupancy'
    BY <1>0, <2>2 DEF BoundedOccupancy
  <2>4. /\ ~ Filling(p) /\ Filling(p)' /\ ppos'[p] = enqueue_pos
        /\ \A q \in Producers : q # p => (Filling(q)' <=> Filling(q)) /\ ppos'[q] = ppos[q]
    BY <1>0 DEF Filling
  <2>5. \A k \in Int : Reserved(k)' <=> (Reserved(k) \/ k = enqueue_pos)
    BY <2>4 DEF Reserved
  <2>6. SlotInv'
    <3> SUFFICES ASSUME NEW k \in Nat, dequeue_pos <= k, k < dequeue_pos + Capacity
                 PROVE  seq[Slot(k)] = Expected(k)'
      BY DEF SlotInv, Slot
    <3>1. seq[Slot(k)] = Expected(k)
      BY <1>0 DEF SlotInv
    <3>2. CASE k = enqueue_pos
      BY <1>0, <2>2, <2>5, <3>1, <3>2 DEF Expected
    <3>3. CASE k # enqueue_pos
      BY <1>0, <1>b, <2>5, <3>1, <3>3 DEF Expected
    <3>4. QED
      BY <3>2, <3>3
  <2>7. ProducerInv'
    BY <1>0, <1>b, <2>4, <2>3 DEF ProducerInv, BoundedOccupancy
  <2>8. ConsumerInv'
    <3>1. \A c \in Consumers : Taking(c) => enqueue_pos # cpos[c] + Capacity
      BY <1>0, <2>2 DEF Taken
    <3>2. ASSUME NEW c \in Consumers, Taking(c)
          PROVE  cpos[c] < dequeue_pos /\ enqueue_pos + 1 <= cpos[c] + Capacity
      <4>1. /\ cpos[c] \in Nat /\ enqueue_pos \in Nat
            /\ cpos[c] < dequeue_pos /\ enqueue_pos <= cpos[c] + Capacity
        BY <1>0, <3>2 DEF ConsumerInv
      <4>2. enqueue_pos # cpos[c] + Capacity
        BY <3>1, <3>2
      <4>3. QED
        BY <4>1, <4>2
    <3>3. \A c \in Consumers :
             cpc[c] = "cas" /\ cpos[c] = dequeue_pos
               => dequeue_pos < enqueue_pos + 1 /\ ~ Reserved(dequeue_pos)'
      BY <1>0, <1>a, <2>5 DEF ConsumerInv
    <3>4. \A c \in Consumers : (Taking(c)' <=> Taking(c)) /\ cpos'[c] = cpos[c]
      BY <1>a DEF Taking
    <3>5. QED
      BY <1>0, <1>a, <3>2, <3>3, <3>4 DEF ConsumerInv
  <2>9. QED
    BY <2>1, <2>3, <2>6, <2>7, <2>8 DEF IInv
<1>4. CASE PushWrite(p)
  <2> USE <1>4 DEF PushWrite, cvars
  <2>1. PosTypeOK'
    BY <1>0
  <2>2. \A q \in Producers : Filling(q)' <=> Filling(q)
    BY <1>0 DEF Filling
  <2>3. \A k \in Int : Reserved(k)' <=> Reserved(k)
    BY <2>2 DEF Reserved
  <2>4. SlotInv' /\ BoundedOccupancy'
    BY <2>1, <2>3, <1>b, QuietStep
  <2>5. ProducerInv'
    BY <1>0, <1>b, <2>2 DEF ProducerInv
  <2>6. ConsumerInv'
    BY <1>0, <1>a, <2>3 DEF ConsumerInv, Taking
  <2>7. QED
    BY <2>1, <2>4, <2>5, <2>6 DEF IInv
<1>5. CASE PushPublish(p)
  <2> USE <1>5 DEF PushPublish, cvars
  <2>1. PosTypeOK'
    BY <1>0, SlotInRange
  <2>2. BoundedOccupancy'
    BY <1>0 DEF BoundedOccupancy
  <2>3. /\ Filling(p) /\ ~ Filling(p)'
        /\ \A q \in Producers : q # p => (Filling(q)' <=> Filling(q)) /\ ppos'[q] = ppos[q]
    BY <1>0 DEF Filling
  <2>4. \A k \in Int : Reserved(k)' <=> (Reserved(k) /\ k # ppos[p])
    BY <1>0, <2>3 DEF Reserved, ProducerInv
  <2>5. dequeue_pos <= ppos[p] /\ ppos[p] < enqueue_pos
    BY <1>0, <2>3 DEF ProducerInv
  <2>6. SlotInv'
    <3> SUFFICES ASSUME NEW k \in Nat, dequeue_pos <= k, k < dequeue_pos + Capacity
                 PROVE  seq'[Slot(k)] = Expected(k)'
      BY DEF SlotInv, Slot
    <3>1. seq[Slot(k)] = Expected(k)
      BY <1>0 DEF SlotInv
    <3>2. CASE k = ppos[p]
      BY <1>0, <2>4, <2>5, <3>2, SlotInRange DEF Expected
    <3>3. CASE k # ppos[p]
      <4>1. Slot(k) # Slot(ppos[p])
        BY <1>0, <2>5, <3>3, WindowDistinct DEF BoundedOccupancy
      <4>2. seq'[Slot(k)] = seq[Slot(k)]
        BY <1>0, <4>1, SlotInRange
      <4>3. Expected(k)' = Expected(k)
        BY <1>b, <2>4, <3>3 DEF Expected
      <4>4. QED
        BY <3>1, <4>2, <4>3
    <3>4. QED
      BY <3>2, <3>3
  <2>7. ProducerInv'
    BY <1>0, <1>b, <2>3 DEF ProducerInv
  <2>8. ConsumerInv'
    BY <1>0, <1>a, <2>4 DEF ConsumerInv, Taking
  <2>9. QED
    BY <2>1, <2>2, <2>6, <2>7, <2>8 DEF IInv
<1>6. QED
  BY <1>1, <1>2, <1>3, <1>4, <1>5 DEF Push

LEMMA PopStep ==
  ASSUME Capacity > 1, IInv, NEW c \in Consumers, Pop(c)
  PROVE  IInv'
<1> USE CapacityType DEF PosTypeOK
<1>0. PosTypeOK /\ BoundedOccupancy /\ SlotInv /\ ProducerInv /\ ConsumerInv
  BY DEF IInv
<1>a. UNCHANGED <<ppc, ppos, rec, calls, claims, enqueue_pos>>
  BY DEF Pop, PopBegin, PopSlotReady, PopEmpty, PopReload, PopClaim,
         PopCasFail, PopRead, PopRelease, qvars, pvars
<1>b. \A k \in Int : Reserved(k)' <=> Reserved(k)
  BY <1>a DEF Reserved, Filling
<1>1. CASE PopBegin(c) \/ PopEmpty(c) \/ PopReload(c) \/ PopCasFail(c) \/ PopRead(c)
  <2> USE <1>1 DEF PopBegin, PopEmpty, PopReload, PopCasFail, PopRead, qvars, pvars
  <2>1. PosTypeOK'
    BY <1>0
  <2>2. \A d \in Consumers : /\ Taking(d)' <=> Taking(d)
                             /\ Taking(d) => cpos'[d] = cpos[d]
    BY <1>0 DEF Taking
  <2>3. \A k \in Int : Taken(k)' <=> Taken(k)
    BY <2>2 DEF Taken
  <2>4. SlotInv' /\ BoundedOccupancy'
    BY <2>1, <2>3, <1>b, QuietStep
  <2>5. ProducerInv'
    BY <1>0, <1>a, <2>3 DEF ProducerInv, Filling
  <2>6. ConsumerInv'
    BY <1>0, <1>b, <2>2 DEF ConsumerInv
  <2>7. QED
    BY <2>1, <2>4, <2>5, <2>6 DEF IInv
<1>2. CASE PopSlotReady(c)
  <2> USE <1>2 DEF PopSlotReady, qvars, pvars
  <2>1. PosTypeOK'
    BY <1>0
  <2>2. \A d \in Consumers : Taking(d)' <=> Taking(d)
    BY <1>0 DEF Taking
  <2>3. \A k \in Int : Taken(k)' <=> Taken(k)
    BY <2>2 DEF Taken
  <2>4. SlotInv' /\ BoundedOccupancy'
    BY <2>1, <2>3, <1>b, QuietStep
  <2>5. ASSUME cpos[c] = dequeue_pos
        PROVE  dequeue_pos < enqueue_pos /\ ~ Reserved(dequeue_pos)
    <3>1. Expected(dequeue_pos) = dequeue_pos + 1
      BY <1>0, <2>5 DEF SlotInv
    <3>2. QED
      BY <1>0, <3>1 DEF Expected, BoundedOccupancy
  <2>6. ConsumerInv'
    BY <1>0, <1>b, <2>2, <2>5 DEF ConsumerInv
  <2>7. ProducerInv'
    BY <1>0, <1>a, <2>3 DEF ProducerInv, Filling
  <2>8. QED
    BY <2>1, <2>4, <2>6, <2>7 DEF IInv
<1>3. CASE PopClaim(c)
  <2> USE <1>3 DEF PopClaim, pvars
  <2>1. PosTypeOK'
    BY <1>0
  <2>2. dequeue_pos < enqueue_pos /\ ~ Reserved(dequeue_pos)
    BY <1>0 DEF ConsumerInv
  <2>3. BoundedOccupancy'
    BY <1>0, <2>2 DEF BoundedOccupancy
  <2>4. /\ ~ Taking(c) /\ Taking(c)' /\ cpos'[c] = dequeue_pos
        /\ \A d \in Consumers : d # c => (Taking(d)' <=> Taking(d)) /\ cpos'[d] = cpos[d]
    BY <1>0 DEF Taking
  <2>5. \A k \in Int : Taken(k)' <=> (Taken(k) \/ k = dequeue_pos)
    BY <2>4 DEF Taken
  <2>6. SlotInv'
    <3> SUFFICES ASSUME NEW k \in Nat, dequeue_pos + 1 <= k,
                        k < dequeue_pos + 1 + Capacity
                 PROVE  seq[Slot(k)] = Expected(k)'
      BY DEF SlotInv, Slot
    <3>1. CASE k = dequeue_pos + Capacity
      <4>1. seq[Slot(k)] = seq[Slot(dequeue_pos)]
        BY <1>0, <3>1, SlotRepeats
      <4>2. seq[Slot(dequeue_pos)] = dequeue_pos + 1
        BY <1>0, <2>2 DEF SlotInv, Expected
      <4>3. Expected(k)' = dequeue_pos + 1
        BY <1>0, <2>5, <3>1 DEF Expected, BoundedOccupancy
      <4>4. QED
        BY <4>1, <4>2, <4>3
    <3>2. CASE k # dequeue_pos + Capacity
      <4>1. seq[Slot(k)] = Expected(k)
        BY <1>0, <3>2 DEF SlotInv
      <4>2. k - Capacity # dequeue_pos /\ k - Capacity \in Int
        BY <1>0, <3>2
      <4>3. Expected(k)' = Expected(k)
        BY <1>0, <1>b, <2>5, <4>2 DEF Expected
      <4>4. QED
        BY <4>1, <4>3
    <3>3. QED
      BY <3>1, <3>2
  <2>7. ProducerInv'
    <3>1. \A p \in Producers : Filling(p) => dequeue_pos + 1 <= ppos[p]
      BY <1>0, <2>2 DEF ProducerInv, Reserved
    <3>2. \A p \in Producers :
            ppc[p] = "cas" /\ ppos[p] = enqueue_pos
              => /\ enqueue_pos < dequeue_pos + 1 + Capacity
                 /\ ~ Taken(enqueue_pos - Capacity)'
      BY <1>0, <2>5 DEF ProducerInv
    <3>3. \A p \in Producers : Filling(p)' <=> Filling(p)
      BY DEF Filling
    <3>4. QED
      BY <1>0, <1>a, <3>1, <3>2, <3>3 DEF ProducerInv
  <2>8. ConsumerInv'
    BY <1>0, <1>b, <2>4, <2>3 DEF ConsumerInv, BoundedOccupancy
  <2>9. QED
    BY <2>1, <2>3, <2>6, <2>7, <2>8 DEF IInv
<1>4. CASE PopRelease(c)
  <2> USE <1>4 DEF PopRelease, pvars
  <2>1. PosTypeOK'
    <3>1. cpos[c] + Capacity \in Nat /\ Slot(cpos[c]) \in Slots
      BY <1>0, SlotInRange
    <3>2. seq' \in [Slots -> Nat]
      BY <1>0, <3>1
    <3>3. QED
      BY <1>0, <1>a, <3>2
  <2>2. BoundedOccupancy'
    BY <1>0 DEF BoundedOccupancy
  <2>3. /\ Taking(c) /\ ~ Taking(c)'
        /\ \A d \in Consumers : d # c => (Taking(d)' <=> Taking(d)) /\ cpos'[d] = cpos[d]
    BY <1>0 DEF Taking
  <2>4. \A k \in Int : Taken(k)' <=> (Taken(k) /\ k # cpos[c])
    BY <1>0, <2>3 DEF Taken, ConsumerInv
  <2>5. cpos[c] < dequeue_pos /\ enqueue_pos <= cpos[c] + Capacity
    BY <1>0, <2>3 DEF ConsumerInv
  <2>6. SlotInv'
    <3> SUFFICES ASSUME NEW k \in Nat, dequeue_pos <= k, k < dequeue_pos + Capacity
                 PROVE  seq'[Slot(k)] = Expected(k)'
      BY DEF SlotInv, Slot
    <3>1. seq[Slot(k)] = Expected(k)
      BY <1>0 DEF SlotInv
    <3>2. Slot(cpos[c] + Capacity) = Slot(cpos[c])
      BY <1>0, SlotRepeats
    <3>3. CASE k = cpos[c] + Capacity
      <4>1. seq'[Slot(k)] = k
        BY <1>0, <3>2, <3>3, SlotInRange
      <4>2. ~ Taken(k - Capacity)'
        BY <1>0, <2>4, <3>3
      <4>3. QED
        BY <1>0, <2>5, <3>3, <4>1, <4>2 DEF Expected
    <3>4. CASE k # cpos[c] + Capacity
      <4>0. dequeue_pos <= cpos[c] + Capacity
        BY <1>0, <2>5 DEF BoundedOccupancy
      <4>1. Slot(k) # Slot(cpos[c] + Capacity)
        <5>1. /\ cpos[c] + Capacity \in Nat /\ dequeue_pos \in Nat
              /\ cpos[c] + Capacity < dequeue_pos + Capacity
          BY <1>0, <2>5
        <5>2. QED
          BY <5>1, <3>4, <4>0, WindowDistinct
      <4>2. seq'[Slot(k)] = seq[Slot(k)]
        BY <1>0, <3>2, <4>1, SlotInRange
      <4>3. k - Capacity \in Int /\ k - Capacity # cpos[c]
        BY <1>0, <3>4
      <4>4. Expected(k)' = Expected(k)
        BY <1>b, <2>4, <4>3 DEF Expected
      <4>5. QED
        BY <3>1, <4>2, <4>4
    <3>5. QED
      BY <3>3, <3>4
  <2>7. ProducerInv'
    BY <1>0, <1>a, <2>4 DEF ProducerInv, Filling
  <2>8. ConsumerInv'
    BY <1>0, <1>b, <2>3 DEF ConsumerInv
  <2>9. QED
    BY <2>1, <2>2, <2>6, <2>7, <2>8 DEF IInv
<1>5. QED
  BY <1>1, <1>2, <1>3, <1>4 DEF Pop

(* Doing nothing preserves the invariant. *)
LEMMA StutterStep == IInv /\ UNCHANGED vars => IInv'
  BY DEF IInv, vars, qvars, pvars, cvars, PosTypeOK, BoundedOccupancy, SlotInv,
         Slot, Expected, Reserved, Taken, Filling, Taking, ProducerInv, ConsumerInv

-----------------------------------------------------------------------------
(* The theorems *)

THEOREM Invariance ==
  ASSUME Capacity > 1
  PROVE  Spec => []IInv
<1>1. IInv /\ [Next]_vars => IInv'
  BY PushStep, PopStep, StutterStep DEF Next
<1>2. QED
  BY <1>1, InitIInv, PTL DEF Spec

(* Positions of one lap lie in different slots, and the invariant places
   every position a thread owns within one lap of dequeue_pos. *)
LEMMA IInvNoSlotRace == IInv => NoSlotRace
<1> SUFFICES ASSUME IInv PROVE NoSlotRace
  OBVIOUS
<1> USE CapacityType DEF IInv, PosTypeOK
<1>1. \A p, q \in Producers :
        p # q /\ Filling(p) /\ Filling(q) => Slot(ppos[p]) # Slot(ppos[q])
  BY WindowDistinct DEF ProducerInv, BoundedOccupancy
<1>2. ASSUME NEW c \in Consumers, Taking(c)
      PROVE  /\ Slot(cpos[c] + Capacity) = Slot(cpos[c])
             /\ cpos[c] + Capacity \in Nat
             /\ enqueue_pos <= cpos[c] + Capacity
             /\ dequeue_pos <= cpos[c] + Capacity
             /\ cpos[c] + Capacity < dequeue_pos + Capacity
  BY <1>2, SlotRepeats DEF ConsumerInv, BoundedOccupancy
<1>3. \A c, d \in Consumers :
        c # d /\ Taking(c) /\ Taking(d) => Slot(cpos[c]) # Slot(cpos[d])
  <2> SUFFICES ASSUME NEW c \in Consumers, NEW d \in Consumers,
                      c # d, Taking(c), Taking(d)
               PROVE  Slot(cpos[c]) # Slot(cpos[d])
    OBVIOUS
  <2>1. cpos[c] + Capacity # cpos[d] + Capacity
    BY DEF ConsumerInv
  <2>2. Slot(cpos[c] + Capacity) # Slot(cpos[d] + Capacity)
    BY <1>2, <2>1, WindowDistinct
  <2>3. QED
    BY <1>2, <2>2
<1>4. \A p \in Producers, c \in Consumers :
        Filling(p) /\ Taking(c) => Slot(ppos[p]) # Slot(cpos[c])
  <2> SUFFICES ASSUME NEW p \in Producers, NEW c \in Consumers,
                      Filling(p), Taking(c)
               PROVE  Slot(ppos[p]) # Slot(cpos[c])
    OBVIOUS
  <2>1. /\ dequeue_pos <= ppos[p] /\ ppos[p] < enqueue_pos
        /\ ppos[p] < dequeue_pos + Capacity
    BY DEF ProducerInv, BoundedOccupancy
  <2>2. ppos[p] # cpos[c] + Capacity
    BY <1>2, <2>1
  <2>3. Slot(ppos[p]) # Slot(cpos[c] + Capacity)
    BY <1>2, <2>1, <2>2, WindowDistinct
  <2>4. QED
    BY <1>2, <2>3
<1>5. QED
  BY <1>1, <1>3, <1>4 DEF NoSlotRace

(* Whatever the interleaving, no two threads copy into or out of the same
   slot of data_ at the same time. *)
THEOREM NoSlotRaceTheorem ==
  ASSUME Capacity > 1
  PROVE  Spec => []NoSlotRace
  BY Invariance, IInvNoSlotRace, PTL

(* The queue never holds more claimed, untaken positions than slots, so a
   push into a full queue is never accepted. *)
THEOREM BoundedOccupancyTheorem ==
  ASSUME Capacity > 1
  PROVE  Spec => []BoundedOccupancy
<1>1. IInv => BoundedOccupancy
  BY DEF IInv
<1>2. QED
  BY <1>1, Invariance, PTL

-----------------------------------------------------------------------------
(* Type correctness *)

(* Beyond the types: a producer inside try_push has an argument. *)
TypeInv ==
  /\ TypeOK
  /\ \A p \in Producers : ppc[p] # "idle" => rec[p] \in Records

LEMMA TypeInit == Init => TypeInv
<1> SUFFICES ASSUME Init PROVE TypeInv
  OBVIOUS
<1> USE CapacityType, MaxPushAssumption DEF Init
<1>1. seq \in [Slots -> Nat] /\ data \in [Slots -> Records \cup {NoRec}]
  BY DEF Slots
<1>2. calls \in [Producers -> 0..MaxPush]
  OBVIOUS
<1>3. claims \in Seq(Records) /\ popped \in Seq(Records \cup {NoRec})
  OBVIOUS
<1>4. QED
  BY <1>1, <1>2, <1>3 DEF TypeInv, TypeOK

LEMMA NextCall ==
  ASSUME NEW m \in Nat, NEW n \in 0..m, n < m
  PROVE  n + 1 \in 1..m /\ n + 1 \in 0..m
  OBVIOUS

LEMMA TypePush ==
  ASSUME TypeInv, NEW p \in Producers, Push(p)
  PROVE  TypeInv'
<1> USE CapacityType, MaxPushAssumption, SlotInRange
        DEF TypeInv, TypeOK, qvars, cvars
<1>1. CASE PushBegin(p)
  <2>0. MaxPush \in Nat /\ calls[p] \in 0..MaxPush /\ calls[p] < MaxPush
    BY <1>1 DEF PushBegin
  <2>1. calls[p] + 1 \in 1..MaxPush /\ calls[p] + 1 \in 0..MaxPush
    BY <2>0, NextCall
  <2>2. <<p, calls[p] + 1>> \in Records
    BY <2>1 DEF Records
  <2>3. rec' \in [Producers -> Records \cup {NoRec}] /\ rec'[p] \in Records
    BY <1>1, <2>2 DEF PushBegin
  <2>4. calls' \in [Producers -> 0..MaxPush]
    BY <1>1, <2>1 DEF PushBegin
  <2>5. \A q \in Producers : ppc'[q] # "idle" => rec'[q] \in Records
    BY <1>1, <2>3 DEF PushBegin
  <2>6. QED
    BY <1>1, <2>3, <2>4, <2>5 DEF PushBegin
<1>2. CASE PushSlotFree(p)
  BY <1>2 DEF PushSlotFree
<1>3. CASE PushFull(p)
  BY <1>3 DEF PushFull
<1>4. CASE PushReload(p)
  BY <1>4 DEF PushReload
<1>5. CASE PushClaim(p)
  <2>1. claims' \in Seq(Records)
    BY <1>5 DEF PushClaim
  <2>2. ppc' \in [Producers -> {"idle", "check", "cas", "write", "publish"}]
    BY <1>5 DEF PushClaim
  <2>3. \A q \in Producers : ppc'[q] # "idle" => rec'[q] \in Records
    BY <1>5 DEF PushClaim
  <2>4. enqueue_pos' \in Nat
    <3>1. enqueue_pos \in Nat /\ enqueue_pos' = enqueue_pos + 1
      BY <1>5 DEF PushClaim
    <3>2. QED
      BY ONLY <3>1
  <2>5. UNCHANGED <<seq, data, dequeue_pos, cpc, cpos, out, popped,
                    ppos, rec, calls>>
    BY <1>5 DEF PushClaim
  <2>6. TypeOK'
    BY <2>1, <2>2, <2>4, <2>5
  <2>7. QED
    BY ONLY <2>3, <2>6 DEF TypeInv
<1>6. CASE PushCasFail(p)
  BY <1>6 DEF PushCasFail
<1>7. CASE PushWrite(p)
  <2>1. data' \in [Slots -> Records \cup {NoRec}]
    BY <1>7 DEF PushWrite
  <2>2. ppc' \in [Producers -> {"idle", "check", "cas", "write", "publish"}]
    BY <1>7 DEF PushWrite
  <2>3. \A q \in Producers : ppc'[q] # "idle" => rec'[q] \in Records
    BY <1>7 DEF PushWrite
  <2>4. UNCHANGED <<seq, enqueue_pos, dequeue_pos, cpc, cpos, out, popped,
                    claims, ppos, rec, calls>>
    BY <1>7 DEF PushWrite
  <2>5. TypeOK'
    BY <2>1, <2>2, <2>4
  <2>6. QED
    BY ONLY <2>3, <2>5 DEF TypeInv
<1>8. CASE PushPublish(p)
  <2>1. ppos[p] + 1 \in Nat
    OBVIOUS
  <2>2. seq' \in [Slots -> Nat]
    BY <1>8, <2>1 DEF PushPublish
  <2>3. QED
    BY <1>8, <2>2 DEF PushPublish
<1>9. QED
  BY <1>1, <1>2, <1>3, <1>4, <1>5, <1>6, <1>7, <1>8 DEF Push

LEMMA TypePop ==
  ASSUME TypeInv, NEW c \in Consumers, Pop(c)
  PROVE  TypeInv'
<1> USE CapacityType, SlotInRange DEF TypeInv, TypeOK, qvars, pvars
<1>1. CASE PopBegin(c)
  BY <1>1 DEF PopBegin
<1>2. CASE PopSlotReady(c)
  BY <1>2 DEF PopSlotReady
<1>3. CASE PopEmpty(c)
  BY <1>3 DEF PopEmpty
<1>4. CASE PopReload(c)
  BY <1>4 DEF PopReload
<1>5. CASE PopClaim(c)
  <2>1. dequeue_pos' \in Nat
    BY <1>5 DEF PopClaim
  <2>2. cpc' \in [Consumers -> {"idle", "check", "cas", "read", "release"}]
    BY <1>5 DEF PopClaim
  <2>3. QED
    BY <1>5, <2>1, <2>2 DEF PopClaim
<1>6. CASE PopCasFail(c)
  BY <1>6 DEF PopCasFail
<1>7. CASE PopRead(c)
  <2>1. data[Slot(cpos[c])] \in Records \cup {NoRec}
    OBVIOUS
  <2>2. QED
    BY <1>7, <2>1 DEF PopRead
<1>8. CASE PopRelease(c)
  <2>1. cpos[c] + Capacity \in Nat
    OBVIOUS
  <2>2. seq' \in [Slots -> Nat]
    BY <1>8, <2>1 DEF PopRelease
  <2>3. popped' \in Seq(Records \cup {NoRec})
    BY <1>8 DEF PopRelease
  <2>4. QED
    BY <1>8, <2>2, <2>3 DEF PopRelease
<1>9. QED
  BY <1>1, <1>2, <1>3, <1>4, <1>5, <1>6, <1>7, <1>8 DEF Pop

(* Every variable keeps its type, at every capacity. *)
THEOREM TypeCorrect == Spec => []TypeOK
<1>1. TypeInv /\ UNCHANGED vars => TypeInv'
  BY DEF TypeInv, TypeOK, vars, qvars, pvars, cvars
<1>2. TypeInv /\ [Next]_vars => TypeInv'
  BY <1>1, TypePush, TypePop DEF Next
<1>3. TypeInv => TypeOK
  BY DEF TypeInv
<1>4. QED
  BY <1>2, <1>3, TypeInit, PTL DEF Spec

-----------------------------------------------------------------------------
(* What travels through the slots *)

(* A position that is claimed and not yet taken holds, once committed, the
   record its producer claimed it for; so does the hand of whoever owns it. *)
DataInv ==
  /\ Len(claims) = enqueue_pos
  /\ \A p \in Producers :
       /\ Filling(p) => rec[p] = claims[ppos[p] + 1]
       /\ ppc[p] = "publish" => data[Slot(ppos[p])] = rec[p]
  /\ \A k \in Nat : dequeue_pos <= k /\ k < enqueue_pos /\ ~ Reserved(k)
                      => data[Slot(k)] = claims[k + 1]
  /\ \A c \in Consumers :
       /\ cpc[c] = "read" => data[Slot(cpos[c])] = claims[cpos[c] + 1]
       /\ cpc[c] = "release" => out[c] = claims[cpos[c] + 1]

(* A slot has moved on from every position that was taken. *)
Passed == \A k \in Nat : k < dequeue_pos => k < seq[Slot(k)]

FifoInv == IInv /\ TypeInv /\ DataInv /\ Passed

LEMMA InitFifoInv == Init => FifoInv
<1> SUFFICES ASSUME Init PROVE FifoInv
  OBVIOUS
<1>1. DataInv /\ Passed
  BY DEF Init, DataInv, Passed, Filling
<1> QED
  BY <1>1, InitIInv, TypeInit DEF FifoInv

LEMMA PassedPush ==
  ASSUME IInv, Passed, NEW p \in Producers, Push(p)
  PROVE  Passed'
<1>1. PosTypeOK /\ ProducerInv /\ dequeue_pos' = dequeue_pos
  BY DEF IInv, Push, PushBegin, PushSlotFree, PushFull, PushReload, PushClaim,
         PushCasFail, PushWrite, PushPublish, qvars, cvars
<1>2. CASE PushPublish(p)
  <2> SUFFICES ASSUME NEW k \in Nat, k < dequeue_pos PROVE k < seq'[Slot(k)]
    BY <1>1 DEF Passed, Slot
  <2>1. k < ppos[p] + 1 /\ ppos[p] \in Nat
    BY <1>1, <1>2 DEF PosTypeOK, ProducerInv, PushPublish, Filling
  <2>2. seq'[Slot(k)] = IF Slot(k) = Slot(ppos[p]) THEN ppos[p] + 1 ELSE seq[Slot(k)]
    BY <1>1, <1>2, SlotInRange DEF PosTypeOK, PushPublish
  <2> QED
    BY <2>1, <2>2 DEF Passed
<1>3. CASE ~ PushPublish(p)
  <2>1. seq' = seq
    BY <1>3 DEF Push, PushBegin, PushSlotFree, PushFull, PushReload, PushClaim,
                PushCasFail, PushWrite, qvars
  <2> QED
    BY <1>1, <2>1 DEF Passed, Slot
<1> QED
  BY <1>2, <1>3

LEMMA PassedPop ==
  ASSUME IInv, Passed, NEW c \in Consumers, Pop(c)
  PROVE  Passed'
<1>1. PosTypeOK /\ ConsumerInv /\ BoundedOccupancy /\ SlotInv
  BY DEF IInv
<1>2. CASE PopClaim(c)
  <2>1. /\ dequeue_pos' = dequeue_pos + 1 /\ seq' = seq /\ dequeue_pos \in Nat
        /\ dequeue_pos < enqueue_pos /\ ~ Reserved(dequeue_pos)
    BY <1>1, <1>2 DEF PopClaim, ConsumerInv, PosTypeOK
  <2>2. seq[Slot(dequeue_pos)] = dequeue_pos + 1
    BY <1>1, <2>1, CapacityType DEF SlotInv, Expected, PosTypeOK
  <2>3. \A k \in Nat : k < dequeue_pos + 1 => k < dequeue_pos \/ k = dequeue_pos
    BY <2>1
  <2> QED
    BY <2>1, <2>2, <2>3 DEF Passed, Slot
<1>3. CASE PopRelease(c)
  <2>1. dequeue_pos' = dequeue_pos
    BY <1>3 DEF PopRelease
  <2> SUFFICES ASSUME NEW k \in Nat, k < dequeue_pos PROVE k < seq'[Slot(k)]
    BY <2>1 DEF Passed, Slot
  <2>2. k < cpos[c] + Capacity
    BY <1>1, <1>3, CapacityType
       DEF PosTypeOK, ConsumerInv, BoundedOccupancy, PopRelease, Taking
  <2>3. cpos[c] \in Nat
    BY <1>1 DEF PosTypeOK
  <2>4. seq'[Slot(k)] = IF Slot(k) = Slot(cpos[c]) THEN cpos[c] + Capacity ELSE seq[Slot(k)]
    BY <1>1, <1>3, <2>3, SlotInRange DEF PosTypeOK, PopRelease
  <2> QED
    BY <2>2, <2>4 DEF Passed
<1>4. CASE ~ PopClaim(c) /\ ~ PopRelease(c)
  <2>1. UNCHANGED <<seq, dequeue_pos>>
    BY <1>4 DEF Pop, PopBegin, PopSlotReady, PopEmpty, PopReload, PopCasFail, PopRead, qvars
  <2> QED
    BY <2>1 DEF Passed, Slot
<1> QED
  BY <1>2, <1>3, <1>4

LEMMA DataPush ==
  ASSUME FifoInv, NEW p \in Producers, Push(p)
  PROVE  DataInv'
<1>1. PosTypeOK /\ BoundedOccupancy /\ ProducerInv /\ ConsumerInv /\ NoSlotRace
  BY IInvNoSlotRace DEF FifoInv, IInv
<1>2. /\ claims \in Seq(Records) /\ rec \in [Producers -> Records \cup {NoRec}]
      /\ data \in [Slots -> Records \cup {NoRec}]
      /\ Len(claims) = enqueue_pos /\ DataInv
      /\ ppc[p] # "idle" => rec[p] \in Records
  BY DEF FifoInv, TypeInv, TypeOK, DataInv
<1>3. UNCHANGED <<cpc, cpos, out, dequeue_pos>>
  BY DEF Push, PushBegin, PushSlotFree, PushFull, PushReload, PushClaim,
         PushCasFail, PushWrite, PushPublish, qvars, cvars
<1>4. /\ \A c \in Consumers : cpos[c] \in Nat /\ (Taking(c) => cpos[c] < dequeue_pos)
      /\ \A q \in Producers : /\ ppos[q] \in Nat
                              /\ Filling(q) => dequeue_pos <= ppos[q] /\ ppos[q] < enqueue_pos
      /\ enqueue_pos \in Nat /\ dequeue_pos \in Nat /\ dequeue_pos <= enqueue_pos
      /\ enqueue_pos <= dequeue_pos + Capacity
  BY <1>1 DEF PosTypeOK, ProducerInv, ConsumerInv, BoundedOccupancy
<1>5. CASE PushBegin(p) \/ PushFull(p) \/ PushReload(p) \/ PushCasFail(p) \/ PushSlotFree(p)
  <2>1. /\ UNCHANGED <<data, enqueue_pos, claims>>
        /\ \A q \in Producers :
             /\ Filling(q)' <=> Filling(q)
             /\ ppc'[q] = "publish" <=> ppc[q] = "publish"
             /\ Filling(q) => ppos'[q] = ppos[q] /\ rec'[q] = rec[q]
    BY <1>1, <1>2, <1>5 DEF PushBegin, PushFull, PushReload, PushCasFail, PushSlotFree, qvars,
                            cvars, PosTypeOK, Filling
  <2>2. \A k \in Nat : Reserved(k)' <=> Reserved(k)
    BY <2>1 DEF Reserved
  <2>3. \A q \in Producers : ppc[q] = "publish" => Filling(q)
    BY DEF Filling
  <2> QED
    BY <1>2, <1>3, <2>1, <2>2, <2>3 DEF DataInv, Slot
<1>6. CASE PushClaim(p)
  <2>1. /\ enqueue_pos' = enqueue_pos + 1 /\ claims' = Append(claims, rec[p])
        /\ ppos' = ppos /\ rec' = rec /\ data' = data /\ ppos[p] = enqueue_pos
        /\ ppc[p] = "cas" /\ rec[p] \in Records /\ ppc' = [ppc EXCEPT ![p] = "write"]
    BY <1>2, <1>6 DEF PushClaim, cvars
  <2>2. /\ Len(claims') = enqueue_pos + 1 /\ claims'[enqueue_pos + 1] = rec[p]
        /\ \A j \in 1..enqueue_pos : claims'[j] = claims[j]
    BY <1>2, <2>1
  <2>3. \A k \in Nat : k < enqueue_pos => claims'[k + 1] = claims[k + 1]
    BY <1>4, <2>2
  <2>4. /\ Filling(p)' /\ ppc'[p] = "write"
        /\ \A q \in Producers \ {p} : ppc'[q] = ppc[q] /\ (Filling(q)' <=> Filling(q))
    BY <1>1, <2>1 DEF Filling, PosTypeOK
  <2>5. \A k \in Nat : Reserved(k)' <=> Reserved(k) \/ k = enqueue_pos
    BY <1>1, <2>1, <2>4 DEF Reserved, Filling
  <2>6. \A q \in Producers :
          /\ Filling(q)' => rec'[q] = claims'[ppos'[q] + 1]
          /\ ppc'[q] = "publish" => data'[Slot(ppos'[q])] = rec'[q]
    <3> SUFFICES ASSUME NEW q \in Producers
                 PROVE  /\ Filling(q)' => rec[q] = claims'[ppos[q] + 1]
                        /\ ppc'[q] = "publish" => data[Slot(ppos[q])] = rec[q]
      BY <2>1
    <3>1. CASE q = p
      BY <2>1, <2>2, <2>4, <3>1
    <3>2. CASE q # p
      BY <1>2, <1>4, <2>3, <2>4, <3>2 DEF DataInv
    <3> QED
      BY <3>1, <3>2
  <2>7. \A k \in Nat : dequeue_pos <= k /\ k < enqueue_pos + 1 /\ ~ Reserved(k)'
                         => data[Slot(k)] = claims'[k + 1]
    <3> SUFFICES ASSUME NEW k \in Nat, dequeue_pos <= k, k < enqueue_pos + 1, ~ Reserved(k)'
                 PROVE  data[Slot(k)] = claims'[k + 1]
      OBVIOUS
    <3>1. k < enqueue_pos /\ ~ Reserved(k)
      BY <1>4, <2>5
    <3> QED
      BY <1>2, <2>3, <3>1 DEF DataInv
  <2>8. \A c \in Consumers :
          /\ cpc[c] = "read" => data[Slot(cpos[c])] = claims'[cpos[c] + 1]
          /\ cpc[c] = "release" => out[c] = claims'[cpos[c] + 1]
    <3>1. \A c \in Consumers : Taking(c) => claims'[cpos[c] + 1] = claims[cpos[c] + 1]
      BY <1>4, <2>3
    <3> QED
      BY <1>2, <3>1 DEF DataInv, Taking
  <2> QED
    BY <1>3, <2>1, <2>2, <2>6, <2>7, <2>8 DEF DataInv, Slot
<1>7. CASE PushWrite(p)
  <2>1. /\ data' = [data EXCEPT ![Slot(ppos[p])] = rec[p]] /\ ppc' = [ppc EXCEPT ![p] = "publish"]
        /\ ppc[p] = "write" /\ UNCHANGED <<enqueue_pos, claims, ppos, rec>>
    BY <1>7 DEF PushWrite
  <2>2. Slot(ppos[p]) \in Slots /\ \A k \in Nat : Slot(k) \in Slots
    BY <1>4, SlotInRange
  <2>3. /\ data'[Slot(ppos[p])] = rec[p]
        /\ \A i \in Slots : i # Slot(ppos[p]) => data'[i] = data[i]
    BY <1>2, <2>1, <2>2
  <2>4. /\ Filling(p) /\ ppc'[p] = "publish"
        /\ \A q \in Producers : Filling(q)' <=> Filling(q)
        /\ \A q \in Producers \ {p} : ppc'[q] = ppc[q]
    BY <1>1, <2>1 DEF Filling, PosTypeOK
  <2>5. \A k \in Nat : Reserved(k)' <=> Reserved(k)
    BY <2>1, <2>4 DEF Reserved
  <2>6. \A q \in Producers : ppc'[q] = "publish" => data'[Slot(ppos[q])] = rec[q]
    <3> SUFFICES ASSUME NEW q \in Producers \ {p}, ppc[q] = "publish"
                 PROVE  data'[Slot(ppos[q])] = rec[q]
      BY <2>3, <2>4
    <3>1. Slot(ppos[q]) # Slot(ppos[p])
      BY <1>1, <2>4 DEF NoSlotRace, Filling
    <3> QED
      BY <1>2, <1>4, <2>2, <2>3, <3>1 DEF DataInv
  <2>7. ASSUME NEW k \in Nat, dequeue_pos <= k, k < enqueue_pos, ~ Reserved(k)
        PROVE  data'[Slot(k)] = claims[k + 1]
    <3>1. k # ppos[p]
      BY <2>4, <2>7 DEF Reserved
    <3>2. /\ dequeue_pos <= ppos[p] /\ ppos[p] < dequeue_pos + Capacity
          /\ k < dequeue_pos + Capacity
      BY <1>4, <2>4, <2>7, CapacityType
    <3>3. Slot(k) # Slot(ppos[p])
      BY <1>4, <2>7, <3>1, <3>2, WindowDistinct
    <3> QED
      BY <1>2, <2>2, <2>3, <2>7, <3>3 DEF DataInv
  <2>8. \A c \in Consumers : cpc[c] = "read" => data'[Slot(cpos[c])] = claims[cpos[c] + 1]
    <3> SUFFICES ASSUME NEW c \in Consumers, cpc[c] = "read"
                 PROVE  data'[Slot(cpos[c])] = claims[cpos[c] + 1]
      OBVIOUS
    <3>1. Slot(ppos[p]) # Slot(cpos[c])
      BY <1>1, <2>4 DEF NoSlotRace, Taking
    <3> QED
      BY <1>2, <1>4, <2>2, <2>3, <3>1 DEF DataInv
  <2> QED
    BY <1>2, <1>3, <2>1, <2>4, <2>5, <2>6, <2>7, <2>8 DEF DataInv, Slot
<1>8. CASE PushPublish(p)
  <2>1. /\ ppc' = [ppc EXCEPT ![p] = "idle"] /\ ppc[p] = "publish"
        /\ UNCHANGED <<enqueue_pos, claims, ppos, rec, data>>
    BY <1>8 DEF PushPublish
  <2>2. /\ Filling(p) /\ ~ Filling(p)'
        /\ \A q \in Producers \ {p} : ppc'[q] = ppc[q] /\ (Filling(q)' <=> Filling(q))
        /\ \A q \in Producers : ppc'[q] = "publish" => ppc[q] = "publish"
    BY <1>1, <2>1 DEF Filling, PosTypeOK
  <2>3. \A k \in Nat : Reserved(k) => Reserved(k)' \/ k = ppos[p]
    BY <2>1, <2>2 DEF Reserved
  <2>4. data[Slot(ppos[p])] = claims[ppos[p] + 1]
    BY <1>2, <2>1, <2>2 DEF DataInv
  <2>5. \A q \in Producers : Filling(q)' => Filling(q)
    BY <2>2
  <2> QED
    BY <1>2, <1>3, <2>1, <2>2, <2>3, <2>4, <2>5 DEF DataInv, Slot
<1> QED
  BY <1>5, <1>6, <1>7, <1>8 DEF Push

LEMMA DataPop ==
  ASSUME FifoInv, NEW c \in Consumers, Pop(c)
  PROVE  DataInv'
<1>1. PosTypeOK /\ ConsumerInv /\ DataInv
  BY DEF FifoInv, IInv
<1>2. UNCHANGED <<ppc, ppos, rec, claims, enqueue_pos, data>>
  BY DEF Pop, PopBegin, PopSlotReady, PopEmpty, PopReload, PopClaim,
         PopCasFail, PopRead, PopRelease, qvars, pvars
<1>3. /\ \A q \in Producers : Filling(q)' <=> Filling(q)
      /\ \A k \in Nat : Reserved(k)' <=> Reserved(k)
  BY <1>2 DEF Filling, Reserved
<1>4. out \in [Consumers -> Records \cup {NoRec}]
  BY DEF FifoInv, TypeInv, TypeOK
<1>5. dequeue_pos' = dequeue_pos \/ dequeue_pos' = dequeue_pos + 1
  BY DEF Pop, PopBegin, PopSlotReady, PopEmpty, PopReload, PopClaim,
         PopCasFail, PopRead, PopRelease, qvars
<1>6. \A k \in Nat : dequeue_pos' <= k => dequeue_pos <= k
  BY <1>1, <1>5 DEF PosTypeOK
<1>7. \A d \in Consumers : /\ cpc'[d] = "read" => data[Slot(cpos'[d])] = claims[cpos'[d] + 1]
                           /\ cpc'[d] = "release" => out'[d] = claims[cpos'[d] + 1]
  <2> SUFFICES ASSUME NEW d \in Consumers
               PROVE  /\ cpc'[d] = "read" => data[Slot(cpos'[d])] = claims[cpos'[d] + 1]
                      /\ cpc'[d] = "release" => out'[d] = claims[cpos'[d] + 1]
    OBVIOUS
  <2>1. CASE d # c
    <3>1. cpc'[d] = cpc[d] /\ cpos'[d] = cpos[d] /\ out'[d] = out[d]
      BY <1>1, <1>4, <2>1 DEF Pop, PopBegin, PopSlotReady, PopEmpty, PopReload, PopClaim,
             PopCasFail, PopRead, PopRelease, PosTypeOK
    <3> QED
      BY <1>1, <3>1 DEF DataInv
  <2>2. CASE d = c /\ PopClaim(c)
    <3>1. /\ cpos' = cpos /\ cpos[c] = dequeue_pos /\ cpc'[c] = "read"
          /\ dequeue_pos < enqueue_pos /\ ~ Reserved(dequeue_pos) /\ dequeue_pos \in Nat
      BY <1>1, <2>2 DEF PopClaim, ConsumerInv, PosTypeOK
    <3>2. dequeue_pos <= dequeue_pos
      BY <3>1
    <3>3. data[Slot(dequeue_pos)] = claims[dequeue_pos + 1]
      BY <1>1, <3>1, <3>2 DEF DataInv
    <3> QED
      BY <2>2, <3>1, <3>3
  <2>3. CASE d = c /\ PopRead(c)
    BY <1>1, <1>4, <2>3 DEF PopRead, DataInv, PosTypeOK
  <2>4. CASE d = c /\ ~ PopClaim(c) /\ ~ PopRead(c)
    BY <1>1, <2>4 DEF Pop, PopBegin, PopSlotReady, PopEmpty, PopReload, PopCasFail, PopRelease,
                      PosTypeOK
  <2> QED
    BY <2>1, <2>2, <2>3, <2>4
<1> QED
  BY <1>1, <1>2, <1>3, <1>6, <1>7 DEF DataInv, Slot

LEMMA FifoStep ==
  ASSUME Capacity > 1, FifoInv, [Next]_vars
  PROVE  FifoInv'
<1>1. CASE UNCHANGED vars
  <2>1. IInv'
    BY <1>1, StutterStep DEF FifoInv
  <2> QED
    BY <1>1, <2>1 DEF FifoInv, TypeInv, TypeOK, DataInv, Passed, Slot, Reserved, Filling,
                      vars, qvars, pvars, cvars
<1>2. ASSUME NEW p \in Producers, Push(p) PROVE FifoInv'
  BY <1>2, PushStep, TypePush, DataPush, PassedPush DEF FifoInv
<1>3. ASSUME NEW c \in Consumers, Pop(c) PROVE FifoInv'
  BY <1>3, PopStep, TypePop, DataPop, PassedPop DEF FifoInv
<1> QED
  BY <1>1, <1>2, <1>3 DEF Next

-----------------------------------------------------------------------------
(* The line of places in use *)

LEMMA LeastNat ==
  ASSUME NEW T \in SUBSET Nat, T # {}
  PROVE  \E n \in T : \A m \in T : n <= m
<1> DEFINE R == OpToRel(<, Nat)
<1>1. IsWellFoundedOn(R, Nat)
  BY NatLessThanWellFounded, Zenon
<1>2. PICK n \in T : \A m \in T : <<m, n>> \notin R
  <2> HIDE DEF R
  <2> QED
    BY <1>1, WFMin, Zenon
<1>3. \A m \in T : ~(m < n)
  BY <1>2 DEF OpToRel
<1> QED
  BY <1>3

IsOldest(k) ==
  /\ k \in 0..enqueue_pos
  /\ k = enqueue_pos \/ State(k) # "free"
  /\ \A j \in 0..k-1 : State(j) = "free"

LEMMA OldestExists == PosTypeOK => IsOldest(Oldest)
<1> SUFFICES ASSUME PosTypeOK PROVE IsOldest(Oldest)
  OBVIOUS
<1> DEFINE T == {k \in 0..enqueue_pos : k = enqueue_pos \/ State(k) # "free"}
<1>1. enqueue_pos \in Nat
  BY DEF PosTypeOK
<1>2. T \in SUBSET Nat /\ enqueue_pos \in T
  BY <1>1
<1>3. PICK k \in T : \A m \in T : k <= m
  BY <1>2, LeastNat
<1>4. k \in Nat /\ k \in 0..enqueue_pos
  BY <1>2, <1>3
<1>5. \A j \in 0..k-1 : State(j) = "free"
  <2> SUFFICES ASSUME NEW j \in 0..k-1, State(j) # "free" PROVE FALSE
    OBVIOUS
  <2>1. j \in 0..enqueue_pos /\ j < k /\ j \in Nat
    BY <1>1, <1>4
  <2> QED
    BY <1>3, <1>4, <2>1
<1>6. \E n \in 0..enqueue_pos : /\ n = enqueue_pos \/ State(n) # "free"
                                /\ \A j \in 0..n-1 : State(j) = "free"
  BY <1>3, <1>4, <1>5
<1> QED
  BY <1>6 DEF Oldest, IsOldest

OnlyOldest == \A k \in Nat : IsOldest(k) => Oldest = k

LEMMA OldestUnique == PosTypeOK => OnlyOldest
<1> SUFFICES ASSUME PosTypeOK, NEW k \in Nat, IsOldest(k) PROVE Oldest = k
  BY DEF OnlyOldest
<1> DEFINE o == Oldest
<1>1. IsOldest(o)
  BY OldestExists
<1> HIDE DEF o
<1>2. enqueue_pos \in Nat /\ o \in Nat
  BY <1>1 DEF PosTypeOK, IsOldest
<1>3. ~ (o < k)
  <2> SUFFICES ASSUME o < k PROVE FALSE
    OBVIOUS
  <2>1. o \in 0..k-1 /\ o # enqueue_pos
    BY <1>2 DEF IsOldest
  <2> QED
    BY <1>1, <2>1 DEF IsOldest
<1>4. ~ (k < o)
  <2> SUFFICES ASSUME k < o PROVE FALSE
    OBVIOUS
  <2>1. k \in 0..o-1 /\ k # enqueue_pos
    BY <1>1, <1>2 DEF IsOldest
  <2> QED
    BY <1>1, <2>1 DEF IsOldest
<1>5. o = k
  BY <1>2, <1>3, <1>4
<1> QED
  BY <1>5 DEF o

Entries == [rec : Records, st : {"reserved", "committed", "taken", "free"}]

(* What the sequence is that the refinement mapping reads off the slots. *)
LineInv ==
  /\ Oldest \in Nat /\ Oldest <= dequeue_pos /\ enqueue_pos <= Oldest + Capacity
  /\ Oldest < dequeue_pos => Taken(Oldest)
  /\ \A j \in Nat : j < Oldest => State(j) = "free"
  /\ Line \in Seq(Entries) /\ Len(Line) = enqueue_pos - Oldest
  /\ \A i \in 1..Len(Line) :
       Line[i] = [rec |-> claims[Oldest + i], st |-> State(Oldest + i - 1)]

LEMMA LineHolds == FifoInv => LineInv
<1> SUFFICES ASSUME FifoInv PROVE LineInv
  OBVIOUS
<1> DEFINE o == Oldest
<1>1. PosTypeOK /\ BoundedOccupancy /\ ConsumerInv /\ Len(claims) = enqueue_pos
      /\ claims \in Seq(Records)
  BY DEF FifoInv, IInv, TypeInv, TypeOK, DataInv
<1>2. IsOldest(o)
  BY <1>1, OldestExists
<1> HIDE DEF o
<1>3. /\ enqueue_pos \in Nat /\ dequeue_pos \in Nat /\ o \in Nat /\ o <= enqueue_pos
      /\ dequeue_pos <= enqueue_pos /\ enqueue_pos <= dequeue_pos + Capacity
      /\ Capacity \in Nat
  BY <1>1, <1>2, CapacityType DEF PosTypeOK, IsOldest, BoundedOccupancy
<1>4. \A j \in Nat : j < o => State(j) = "free"
  <2> SUFFICES ASSUME NEW j \in Nat, j < o PROVE State(j) = "free"
    OBVIOUS
  <2>1. j \in 0..o-1
    BY <1>3
  <2> QED
    BY <1>2, <2>1 DEF IsOldest
<1>5. o <= dequeue_pos
  <2> SUFFICES ASSUME dequeue_pos < o PROVE FALSE
    BY <1>3
  <2>1. State(dequeue_pos) = "free"
    BY <1>3, <1>4
  <2>2. dequeue_pos >= dequeue_pos
    BY <1>3
  <2> QED
    BY <2>1, <2>2 DEF State
<1>6. o < dequeue_pos => Taken(o)
  BY <1>2, <1>3 DEF IsOldest, State
<1>7. enqueue_pos <= o + Capacity
  <2>1. CASE o < dequeue_pos
    <3>1. PICK c \in Consumers : Taking(c) /\ cpos[c] = o
      BY <1>6, <2>1 DEF Taken
    <3> QED
      BY <1>1, <3>1 DEF ConsumerInv
  <2> QED
    BY <1>3, <1>5, <2>1
<1> DEFINE n == enqueue_pos - o
           l == [i \in 1..n |-> [rec |-> claims[o + i], st |-> State(o + i - 1)]]
<1>8. n \in Nat
  BY <1>3
<1>9. \A i \in 1..n : [rec |-> claims[o + i], st |-> State(o + i - 1)] \in Entries
  <2> SUFFICES ASSUME NEW i \in 1..n
               PROVE  claims[o + i] \in Records
                      /\ State(o + i - 1) \in {"reserved", "committed", "taken", "free"}
    BY DEF Entries
  <2>1. o + i \in 1..Len(claims)
    BY <1>1, <1>3
  <2> QED
    BY <1>1, <2>1 DEF State
<1>10. Line = l
  BY DEF Line, o
<1> HIDE DEF n
<1>11. l \in Seq(Entries) /\ Len(l) = n
  BY <1>8, <1>9
<1>12. \A i \in 1..n : l[i] = [rec |-> claims[o + i], st |-> State(o + i - 1)]
  OBVIOUS
<1> HIDE DEF l
<1> QED
  BY <1>3, <1>4, <1>5, <1>6, <1>7, <1>10, <1>11, <1>12 DEF LineInv, o, n

LEMMA NextOldest == PosTypeOK' => OnlyOldest'
  BY OldestUnique, PTL

LEMMA NextLine == FifoInv' => LineInv'
  BY LineHolds, PTL

(* The line after a step, read off at the position it starts with. *)
LEMMA OldestAfter ==
  ASSUME PosTypeOK', NEW o \in Nat, o <= enqueue_pos',
         o = enqueue_pos' \/ State(o)' # "free",
         \A j \in Nat : j < o => State(j)' = "free"
  PROVE  Oldest' = o
<1>1. o \in 0..enqueue_pos'
  BY DEF PosTypeOK
<1>2. \A j \in 0..o-1 : State(j)' = "free"
  OBVIOUS
<1>3. IsOldest(o)'
  BY <1>1, <1>2 DEF IsOldest
<1> QED
  BY <1>3, NextOldest DEF OnlyOldest

LEMMA LineAfter ==
  ASSUME FifoInv', NEW o \in Nat, Oldest' = o
  PROVE  /\ Line' \in Seq(Entries) /\ Len(Line') = enqueue_pos' - o
         /\ \A i \in 1..Len(Line') :
              Line'[i] = [rec |-> claims'[o + i], st |-> State(o + i - 1)']
<1>1. LineInv'
  BY NextLine
<1> QED
  BY <1>1 DEF LineInv, State, Reserved, Taken, Filling, Taking

(* A step that moves no position between its states leaves the line alone. *)
LEMMA SameLine ==
  ASSUME FifoInv, FifoInv', enqueue_pos' = enqueue_pos, claims' = claims,
         \A k \in Nat : State(k)' = State(k)
  PROVE  Line' = Line
<1>1. LineInv /\ PosTypeOK'
  BY LineHolds DEF FifoInv, IInv
<1>2. PICK o \in Nat : o = Oldest
  BY <1>1 DEF LineInv
<1>3. IsOldest(o)
  BY <1>2, OldestExists DEF FifoInv, IInv
<1>4. /\ o <= enqueue_pos /\ (o = enqueue_pos \/ State(o) # "free")
      /\ \A j \in Nat : j < o => State(j) = "free"
  BY <1>1, <1>2, <1>3 DEF LineInv, IsOldest
<1>5. Oldest' = o
  BY <1>1, <1>4, OldestAfter
<1>6. /\ Line' \in Seq(Entries) /\ Len(Line') = enqueue_pos - o
      /\ \A i \in 1..Len(Line') :
              Line'[i] = [rec |-> claims[o + i], st |-> State(o + i - 1)']
  BY <1>5, LineAfter
<1>7. /\ Line \in Seq(Entries) /\ Len(Line) = enqueue_pos - o
      /\ \A i \in 1..Len(Line) : Line[i] = [rec |-> claims[o + i], st |-> State(o + i - 1)]
  BY <1>1, <1>2 DEF LineInv
<1>8. \A i \in 1..Len(Line) : o + i - 1 \in Nat
  BY <1>7
<1>9. \A i \in 1..Len(Line) : Line'[i] = Line[i]
  BY <1>6, <1>7, <1>8
<1> QED
  BY <1>6, <1>7, <1>9, SeqEqual

(* Reserved, then committed. *)
LEMMA LinePush ==
  ASSUME FifoInv, FifoInv', NEW p \in Producers, Push(p)
  PROVE  [Fifo!Next]_(Fifo!vars)
<1>1. /\ PosTypeOK /\ ProducerInv /\ ConsumerInv /\ BoundedOccupancy /\ NoSlotRace
      /\ TypeOK /\ TypeInv /\ DataInv /\ LineInv
  BY IInvNoSlotRace, LineHolds DEF FifoInv, IInv, TypeInv
<1>2. UNCHANGED <<cpc, cpos, dequeue_pos, popped>>
  BY DEF Push, PushBegin, PushSlotFree, PushFull, PushReload, PushClaim,
         PushCasFail, PushWrite, PushPublish, qvars, cvars
<1>3. \A k \in Nat : Taken(k)' <=> Taken(k)
  BY <1>2 DEF Taken, Taking
<1>4. PICK o \in Nat : o = Oldest
  BY <1>1 DEF LineInv
<1>5. /\ enqueue_pos \in Nat /\ dequeue_pos \in Nat /\ ppos[p] \in Nat
      /\ dequeue_pos <= enqueue_pos /\ Capacity \in Nat
      /\ o <= dequeue_pos /\ enqueue_pos <= o + Capacity
  BY <1>1, <1>4, CapacityType DEF PosTypeOK, LineInv, BoundedOccupancy
<1>6. /\ Line \in Seq(Entries) /\ Len(Line) = enqueue_pos - o
      /\ \A i \in 1..Len(Line) : Line[i] = [rec |-> claims[o + i], st |-> State(o + i - 1)]
      /\ \A j \in Nat : j < o => State(j) = "free"
      /\ o < dequeue_pos => Taken(o)
  BY <1>1, <1>4 DEF LineInv
<1>6a. Line \in Seq(Entries) /\ Len(Line) = enqueue_pos - o /\ Len(Line) \in Nat
  BY <1>6
<1>6b. /\ \A j \in Nat : j < o => State(j) = "free"
       /\ o < dequeue_pos => Taken(o)
  BY <1>6
<1>7. o = enqueue_pos \/ State(o) # "free"
  BY <1>1, <1>4, OldestExists DEF IsOldest
<1>8. CASE PushClaim(p)
  <2>1. /\ enqueue_pos' = enqueue_pos + 1 /\ claims' = Append(claims, rec[p])
        /\ ppos[p] = enqueue_pos /\ ppos' = ppos /\ ppc' = [ppc EXCEPT ![p] = "write"]
        /\ ppc[p] = "cas"
    BY <1>8 DEF PushClaim
  <2>2. rec[p] \in Records /\ claims \in Seq(Records) /\ Len(claims) = enqueue_pos
    BY <1>1, <2>1 DEF TypeInv, TypeOK, DataInv
  <2>3. \A k \in Nat : Reserved(k)' <=> Reserved(k) \/ k = enqueue_pos
    <3>1. Filling(p)' /\ \A q \in Producers \ {p} : Filling(q)' <=> Filling(q)
      BY <1>1, <2>1 DEF PosTypeOK, Filling
    <3>2. ~ Filling(p)
      BY <2>1 DEF Filling
    <3> QED
      BY <2>1, <3>1, <3>2 DEF Reserved
  <2>4. \A k \in Nat : k # enqueue_pos => State(k)' = State(k)
    BY <1>2, <1>3, <2>3 DEF State
  <2>5. enqueue_pos' = enqueue_pos + 1
    BY <2>1
  <2>6. \A k \in Nat : k = enqueue_pos => State(k)' = "reserved"
    BY <1>2, <1>5, <2>3 DEF State
  <2>7. Len(Line) < Capacity
    <3>1. enqueue_pos < dequeue_pos + Capacity /\ ~ Taken(enqueue_pos - Capacity)
      BY <1>1, <2>1 DEF ProducerInv
    <3>2. enqueue_pos - o # Capacity
      <4> SUFFICES ASSUME enqueue_pos - o = Capacity PROVE FALSE
        OBVIOUS
      <4>1. o = enqueue_pos - Capacity /\ o < dequeue_pos
        BY <1>5, <3>1
      <4> QED
        BY <1>6b, <3>1, <4>1
    <3>3. enqueue_pos - o < Capacity
      BY <1>5, <3>2
    <3> QED
      BY <1>6a, <3>3
  <2>8. Oldest' = o
    <3>1. /\ o <= enqueue_pos' /\ PosTypeOK'
          /\ \A j \in Nat : j < o => State(j)' = "free"
      BY <1>5, <1>6, <2>1, <2>4 DEF FifoInv, IInv
    <3>2. State(o)' # "free"
      BY <1>5, <1>7, <2>4, <2>6
    <3> QED
      BY <3>1, <3>2, OldestAfter
  <2>9. /\ Line' \in Seq(Entries) /\ Len(Line') = enqueue_pos + 1 - o
        /\ \A i \in 1..Len(Line') :
              Line'[i] = [rec |-> claims'[o + i], st |-> State(o + i - 1)']
    <3>1. /\ Line' \in Seq(Entries) /\ Len(Line') = enqueue_pos' - o
          /\ \A i \in 1..Len(Line') :
                Line'[i] = [rec |-> claims'[o + i], st |-> State(o + i - 1)']
      BY <2>8, LineAfter
    <3>2. Len(Line') = enqueue_pos' - o
      BY <3>1
    <3>3. Len(Line') = enqueue_pos + 1 - o
      BY <1>5, <2>5, <3>2
    <3> QED
      BY <3>1, <3>3, Zenon
  <2> DEFINE e == [rec |-> rec[p], st |-> "reserved"]
  <2>10. e \in Entries
    BY <2>2 DEF Entries
  <2>11. \A i \in 1..Len(Line') : Line'[i] = Append(Line, e)[i]
    <3> SUFFICES ASSUME NEW i \in 1..Len(Line') PROVE Line'[i] = Append(Line, e)[i]
      OBVIOUS
    <3>1. Line'[i] = [rec |-> claims'[o + i], st |-> State(o + i - 1)']
      BY <2>9
    <3>2. CASE i <= Len(Line)
      <4>1. /\ o + i - 1 \in Nat /\ o + i - 1 # enqueue_pos /\ o + i \in 1..Len(claims)
            /\ i \in 1..Len(Line)
        BY <1>5, <1>6, <2>2, <2>9, <3>2
      <4>2. claims'[o + i] = claims[o + i]
        BY <2>1, <2>2, <4>1
      <4>3. Line'[i] = Line[i]
        BY <1>6, <2>4, <3>1, <4>1, <4>2
      <4>4. Append(Line, e)[i] = Line[i]
        BY <1>6, <4>1
      <4> QED
        BY <4>3, <4>4
    <3>3. CASE i = Len(Line) + 1
      <4>1. o + i = enqueue_pos + 1 /\ o + i - 1 = enqueue_pos
        BY <1>5, <1>6, <3>3
      <4>2. claims'[o + i] = rec[p]
        BY <2>1, <2>2, <4>1
      <4>3. Line'[i] = e
        BY <1>5, <2>6, <3>1, <4>1, <4>2
      <4>4. Append(Line, e)[i] = e
        BY <1>6, <3>3
      <4> QED
        BY <4>3, <4>4
    <3>4. i <= Len(Line) \/ i = Len(Line) + 1
      BY <1>5, <1>6, <2>9
    <3> QED
      BY <3>2, <3>3, <3>4
  <2>12. Append(Line, e) \in Seq(Entries) /\ Len(Append(Line, e)) = Len(Line')
    <3>1. Append(Line, e) \in Seq(Entries) /\ Len(Append(Line, e)) = Len(Line) + 1
      BY <1>6a, <2>10
    <3>2. Len(Line) + 1 = enqueue_pos + 1 - o
      BY <1>5, <1>6a
    <3> QED
      BY <2>9, <3>1, <3>2
  <2>13. Line' = Append(Line, e)
    BY <2>9, <2>11, <2>12, SeqEqual
  <2>14. Fifo!Reserve(rec[p])
    BY <1>2, <2>7, <2>13 DEF Fifo!Reserve
  <2> QED
    BY <2>2, <2>14 DEF Fifo!Next
<1>9. CASE PushPublish(p)
  <2>1. /\ UNCHANGED <<enqueue_pos, claims, ppos>> /\ ppc' = [ppc EXCEPT ![p] = "idle"]
        /\ ppc[p] = "publish"
    BY <1>9 DEF PushPublish
  <2>2. Filling(p) /\ ~ Filling(p)' /\ \A q \in Producers \ {p} : Filling(q)' <=> Filling(q)
    BY <1>1, <2>1 DEF PosTypeOK, Filling
  <2>3. /\ Reserved(ppos[p]) /\ dequeue_pos <= ppos[p] /\ ppos[p] < enqueue_pos
        /\ \A q \in Producers \ {p} : Filling(q) => ppos[q] # ppos[p]
    BY <1>1, <2>2 DEF Reserved, ProducerInv
  <2>4. \A k \in Nat : Reserved(k)' <=> Reserved(k) /\ k # ppos[p]
    BY <2>1, <2>2, <2>3 DEF Reserved
  <2>5. \A k \in Nat : State(k)' = IF k = ppos[p] THEN "committed" ELSE State(k)
    BY <1>2, <1>3, <1>5, <2>3, <2>4 DEF State
  <2>6. State(ppos[p]) = "reserved"
    BY <1>5, <2>3 DEF State
  <2>7. Oldest' = o
    <3>1. /\ o <= enqueue_pos' /\ PosTypeOK'
      BY <1>5, <2>1 DEF FifoInv, IInv
    <3>2. \A j \in Nat : j < o => State(j)' = "free"
      BY <1>5, <1>6b, <2>3, <2>5
    <3>3. o = enqueue_pos' \/ State(o)' # "free"
      BY <1>7, <2>1, <2>5
    <3> QED
      BY <3>1, <3>2, <3>3, OldestAfter
  <2>8. /\ Line' \in Seq(Entries) /\ Len(Line') = enqueue_pos - o
        /\ \A i \in 1..Len(Line') :
              Line'[i] = [rec |-> claims[o + i], st |-> State(o + i - 1)']
    BY <2>1, <2>7, LineAfter
  <2>9. PICK n \in 1..Len(Line) : n = ppos[p] - o + 1
    BY <1>5, <1>6, <2>3
  <2>10. Line[n].st = "reserved" /\ n \in DOMAIN Line
    <3>1. o + n - 1 = ppos[p]
      BY <1>5, <2>9
    <3> QED
      BY <1>6, <2>6, <2>9, <3>1
  <2> DEFINE M == [Line EXCEPT ![n].st = "committed"]
  <2>11. M \in Seq(Entries) /\ Len(M) = Len(Line)
    <3>1. Line[n] \in Entries
      BY <1>6a
    <3>2. [Line[n] EXCEPT !.st = "committed"] \in Entries
      BY <3>1 DEF Entries
    <3>3. M = [Line EXCEPT ![n] = [Line[n] EXCEPT !.st = "committed"]]
      BY <1>6a
    <3> QED
      BY <1>6a, <3>2, <3>3
  <2>12. \A i \in 1..Len(Line') : Line'[i] = M[i]
    <3> SUFFICES ASSUME NEW i \in 1..Len(Line) PROVE Line'[i] = M[i]
      BY <1>6, <2>8
    <3>1. /\ o + i - 1 \in Nat /\ (o + i - 1 = ppos[p] <=> i = n)
      <4>1. i \in Nat /\ n \in Nat /\ i >= 1
        BY <1>6a
      <4> QED
        BY <1>5, <2>9, <4>1
    <3>2. Line'[i] = [rec |-> claims[o + i],
                      st |-> IF i = n THEN "committed" ELSE State(o + i - 1)]
      BY <1>6, <2>5, <2>8, <3>1
    <3>3. Line[i] = [rec |-> claims[o + i], st |-> State(o + i - 1)]
      BY <1>6
    <3>4. M[i] = IF i = n THEN [Line[n] EXCEPT !.st = "committed"] ELSE Line[i]
      BY <1>6a
    <3> HIDE DEF M
    <3>5. CASE i = n
      BY <3>2, <3>3, <3>4, <3>5
    <3>6. CASE i # n
      BY <3>2, <3>3, <3>4, <3>6
    <3> QED
      BY <3>5, <3>6
  <2>13. Line' = M
    BY <1>6, <2>8, <2>11, <2>12, SeqEqual
  <2>14. Fifo!Commit(n)
    BY <1>2, <2>10, <2>13 DEF Fifo!Commit
  <2> QED
    BY <2>10, <2>14 DEF Fifo!Next
<1>10. CASE ~ PushClaim(p) /\ ~ PushPublish(p)
  <2>1. /\ UNCHANGED <<enqueue_pos, claims>>
        /\ \A q \in Producers : /\ Filling(q)' <=> Filling(q)
                                /\ Filling(q) => ppos'[q] = ppos[q]
    BY <1>1, <1>10 DEF Push, PushBegin, PushSlotFree, PushFull, PushReload, PushCasFail,
                       PushWrite, qvars, cvars, PosTypeOK, Filling
  <2>2. \A k \in Nat : Reserved(k)' <=> Reserved(k)
    BY <2>1 DEF Reserved
  <2>3. \A k \in Nat : State(k)' = State(k)
    BY <1>2, <1>3, <2>2 DEF State
  <2> QED
    BY <1>2, <2>1, <2>3, SameLine DEF Fifo!vars
<1> QED
  BY <1>8, <1>9, <1>10

(* Taken, then free; the free places at the front leave the line. *)
LEMMA LinePopClaim ==
  ASSUME FifoInv, FifoInv', NEW c \in Consumers, PopClaim(c)
  PROVE  Fifo!Next
<1>1. /\ PosTypeOK /\ ConsumerInv /\ BoundedOccupancy /\ LineInv
  BY LineHolds DEF FifoInv, IInv
<1>2. /\ UNCHANGED <<ppc, ppos, claims, enqueue_pos, popped, cpos>>
      /\ dequeue_pos' = dequeue_pos + 1 /\ cpos[c] = dequeue_pos
      /\ cpc' = [cpc EXCEPT ![c] = "read"] /\ cpc[c] = "cas"
  BY DEF PopClaim, pvars
<1>3. \A k \in Nat : Reserved(k)' <=> Reserved(k)
  BY <1>2 DEF Reserved, Filling
<1>4. PICK o \in Nat : o = Oldest
  BY <1>1 DEF LineInv
<1>5. /\ enqueue_pos \in Nat /\ dequeue_pos \in Nat
      /\ dequeue_pos < enqueue_pos /\ ~ Reserved(dequeue_pos)
      /\ o <= dequeue_pos
  BY <1>1, <1>2, <1>4 DEF PosTypeOK, LineInv, ConsumerInv
<1>6. /\ Line \in Seq(Entries) /\ Len(Line) = enqueue_pos - o
      /\ \A i \in 1..Len(Line) : Line[i] = [rec |-> claims[o + i], st |-> State(o + i - 1)]
      /\ \A j \in Nat : j < o => State(j) = "free"
  BY <1>1, <1>4 DEF LineInv
<1>6a. Line \in Seq(Entries) /\ Len(Line) = enqueue_pos - o /\ Len(Line) \in Nat
  BY <1>6
<1>7. o = enqueue_pos \/ State(o) # "free"
  BY <1>1, <1>4, OldestExists DEF IsOldest
<1>8. \A k \in Nat : Taken(k)' <=> Taken(k) \/ k = dequeue_pos
  <2>1. Taking(c)' /\ ~ Taking(c) /\ \A d \in Consumers \ {c} : Taking(d)' <=> Taking(d)
    BY <1>1, <1>2 DEF Taking, PosTypeOK
  <2> QED
    BY <1>2, <2>1 DEF Taken
<1>9. \A k \in Nat : State(k)' = IF k = dequeue_pos THEN "taken" ELSE State(k)
  <2> SUFFICES ASSUME NEW k \in Nat
               PROVE  State(k)' = IF k = dequeue_pos THEN "taken" ELSE State(k)
    OBVIOUS
  <2>1. k >= dequeue_pos' <=> k >= dequeue_pos /\ k # dequeue_pos
    BY <1>2, <1>5
  <2> QED
    BY <1>3, <1>5, <1>8, <2>1 DEF State
<1>10. Oldest' = o
  <2>1. o <= enqueue_pos' /\ PosTypeOK'
    BY <1>2, <1>5 DEF FifoInv, IInv
  <2>2. \A j \in Nat : j < o => State(j)' = "free"
    BY <1>5, <1>6, <1>9
  <2>3. State(o)' # "free"
    BY <1>5, <1>7, <1>9
  <2> QED
    BY <2>1, <2>2, <2>3, OldestAfter
<1>11. /\ Line' \in Seq(Entries) /\ Len(Line') = enqueue_pos - o
       /\ \A i \in 1..Len(Line') :
             Line'[i] = [rec |-> claims[o + i], st |-> State(o + i - 1)']
  BY <1>2, <1>10, LineAfter
<1>12. PICK n \in 1..Len(Line) : n = dequeue_pos - o + 1
  BY <1>5, <1>6a
<1>13. Line[n].st = "committed" /\ n \in DOMAIN Line
  <2>1. o + n - 1 = dequeue_pos
    BY <1>5, <1>12
  <2>2. State(dequeue_pos) = "committed"
    BY <1>5 DEF State
  <2> QED
    BY <1>6, <1>12, <2>1, <2>2
<1>14. \A j \in 1..n-1 : Line[j].st \in {"taken", "free"}
  <2> SUFFICES ASSUME NEW j \in 1..n-1 PROVE Line[j].st \in {"taken", "free"}
    OBVIOUS
  <2>1. /\ j \in 1..Len(Line) /\ o + j - 1 \in Nat /\ ~ (o + j - 1 >= dequeue_pos)
    BY <1>5, <1>6a, <1>12
  <2>2. State(o + j - 1) \in {"taken", "free"}
    BY <2>1 DEF State
  <2> QED
    BY <1>6, <2>1, <2>2
<1> DEFINE M == [Line EXCEPT ![n].st = "taken"]
<1>15. M \in Seq(Entries) /\ Len(M) = Len(Line)
  <2>1. Line[n] \in Entries
    BY <1>6a
  <2>2. [Line[n] EXCEPT !.st = "taken"] \in Entries
    BY <2>1 DEF Entries
  <2>3. M = [Line EXCEPT ![n] = [Line[n] EXCEPT !.st = "taken"]]
    BY <1>6a
  <2> QED
    BY <1>6a, <2>2, <2>3
<1>16. \A i \in 1..Len(Line') : Line'[i] = M[i]
  <2> SUFFICES ASSUME NEW i \in 1..Len(Line) PROVE Line'[i] = M[i]
    BY <1>6, <1>11
  <2>1. /\ o + i - 1 \in Nat /\ (o + i - 1 = dequeue_pos <=> i = n)
    <3>1. i \in Nat /\ n \in Nat /\ i >= 1
      BY <1>6a
    <3> QED
      BY <1>5, <1>12, <3>1
  <2>2. Line'[i] = [rec |-> claims[o + i],
                    st |-> IF i = n THEN "taken" ELSE State(o + i - 1)]
    BY <1>6, <1>9, <1>11, <2>1
  <2>3. Line[i] = [rec |-> claims[o + i], st |-> State(o + i - 1)]
    BY <1>6
  <2>4. M[i] = IF i = n THEN [Line[n] EXCEPT !.st = "taken"] ELSE Line[i]
    BY <1>6a
  <2> HIDE DEF M
  <2>5. CASE i = n
    BY <2>2, <2>3, <2>4, <2>5
  <2>6. CASE i # n
    BY <2>2, <2>3, <2>4, <2>6
  <2> QED
    BY <2>5, <2>6
<1>17. Line' = M
  BY <1>6, <1>11, <1>15, <1>16, SeqEqual
<1>18. Fifo!Take(n)
  BY <1>2, <1>13, <1>14, <1>17 DEF Fifo!Take
<1> QED
  BY <1>13, <1>18 DEF Fifo!Next

LEMMA EntryFields ==
  ASSUME NEW e, NEW a, NEW b, e = [rec |-> a, st |-> b]
  PROVE  e.rec = a /\ e.st = b
  OBVIOUS

LEMMA LinePopRelease ==
  ASSUME FifoInv, FifoInv', NEW c \in Consumers, PopRelease(c)
  PROVE  Fifo!Next
<1>1. /\ PosTypeOK /\ ConsumerInv /\ BoundedOccupancy /\ LineInv /\ DataInv
  BY LineHolds DEF FifoInv, IInv
<1>2. /\ UNCHANGED <<ppc, ppos, claims, enqueue_pos, dequeue_pos, cpos>>
      /\ popped' = Append(popped, out[c])
      /\ cpc' = [cpc EXCEPT ![c] = "idle"] /\ cpc[c] = "release"
  BY DEF PopRelease, pvars
<1>3. \A k \in Nat : Reserved(k)' <=> Reserved(k)
  BY <1>2 DEF Reserved, Filling
<1>4. PICK o \in Nat : o = Oldest
  BY <1>1 DEF LineInv
<1>5. PICK q \in Nat : q = cpos[c]
  BY <1>1 DEF PosTypeOK
<1>6. Taking(c) /\ Taken(q) /\ q < dequeue_pos /\ out[c] = claims[q + 1]
  BY <1>1, <1>2, <1>5 DEF Taking, Taken, ConsumerInv, DataInv
<1>7. /\ Line \in Seq(Entries) /\ Len(Line) = enqueue_pos - o
      /\ \A i \in 1..Len(Line) : Line[i] = [rec |-> claims[o + i], st |-> State(o + i - 1)]
      /\ \A j \in Nat : j < o => State(j) = "free"
  BY <1>1, <1>4 DEF LineInv
<1>7a. Line \in Seq(Entries) /\ Len(Line) = enqueue_pos - o /\ Len(Line) \in Nat
  BY <1>7
<1>8. /\ enqueue_pos \in Nat /\ dequeue_pos \in Nat /\ o <= enqueue_pos
      /\ dequeue_pos <= enqueue_pos /\ q < dequeue_pos
  BY <1>1, <1>4, <1>6 DEF PosTypeOK, LineInv, BoundedOccupancy
<1>9. State(q) = "taken"
  BY <1>6, <1>8 DEF State
<1>10. o <= q
  <2>1. \A j \in Nat : j < o => j # q
    BY <1>7, <1>9
  <2> QED
    BY <2>1
<1>11. \A k \in Nat : Taken(k)' <=> Taken(k) /\ k # q
  <2>1. ~ Taking(c)' /\ \A d \in Consumers \ {c} : Taking(d)' <=> Taking(d)
    BY <1>1, <1>2 DEF Taking, PosTypeOK
  <2>2. \A d \in Consumers \ {c} : Taking(d) => cpos[d] # q
    BY <1>1, <1>5, <1>6 DEF ConsumerInv
  <2> QED
    BY <1>2, <1>5, <2>1, <2>2 DEF Taken
<1>12. \A k \in Nat : State(k)' = IF k = q THEN "free" ELSE State(k)
  BY <1>2, <1>3, <1>8, <1>11 DEF State
<1>13. PICK n \in 1..Len(Line) : n = q - o + 1
  BY <1>7a, <1>8, <1>10
<1>14. o + n - 1 = q /\ o + n = q + 1
  BY <1>8, <1>13
<1>15. Line[n].st = "taken" /\ Line[n].rec = out[c] /\ n \in DOMAIN Line
  BY <1>6, <1>7, <1>9, <1>13, <1>14
<1> DEFINE M == [Line EXCEPT ![n].st = "free"]
<1>16. M \in Seq(Entries) /\ Len(M) = Len(Line) /\ DOMAIN M = 1..Len(Line)
  <2>1. Line[n] \in Entries
    BY <1>7a
  <2>2. [Line[n] EXCEPT !.st = "free"] \in Entries
    BY <2>1 DEF Entries
  <2>3. M = [Line EXCEPT ![n] = [Line[n] EXCEPT !.st = "free"]]
    BY <1>7a
  <2> QED
    BY <1>7a, <2>2, <2>3
<1>17. \A i \in 1..Len(Line) : M[i] = [rec |-> claims[o + i], st |-> State(o + i - 1)']
  <2> SUFFICES ASSUME NEW i \in 1..Len(Line)
               PROVE  M[i] = [rec |-> claims[o + i], st |-> State(o + i - 1)']
    OBVIOUS
  <2>1. /\ o + i - 1 \in Nat /\ (o + i - 1 = q <=> i = n)
    <3>1. i \in Nat /\ n \in Nat /\ i >= 1
      BY <1>7a
    <3> QED
      BY <1>8, <1>13, <3>1
  <2>2. State(o + i - 1)' = IF i = n THEN "free" ELSE State(o + i - 1)
    BY <1>12, <2>1
  <2>3. Line[i] = [rec |-> claims[o + i], st |-> State(o + i - 1)]
    BY <1>7
  <2>4. M[i] = IF i = n THEN [Line[n] EXCEPT !.st = "free"] ELSE Line[i]
    BY <1>7a
  <2> HIDE DEF M
  <2>5. CASE i = n
    BY <2>2, <2>3, <2>4, <2>5
  <2>6. CASE i # n
    BY <2>2, <2>3, <2>4, <2>6
  <2> QED
    BY <2>5, <2>6
<1> DEFINE used == {j \in DOMAIN M : M[j].st # "free"}
<1>18. Line' = Fifo!WithoutFreeFront(M)
  <2>1. PosTypeOK'
    BY DEF FifoInv, IInv
  <2>2. \A j \in Nat : j < o => State(j)' = "free"
    BY <1>7, <1>12
  <2>3. \A i \in 1..Len(Line) : i \in used <=> State(o + i - 1)' # "free"
    <3> SUFFICES ASSUME NEW i \in 1..Len(Line)
                 PROVE  i \in used <=> State(o + i - 1)' # "free"
      OBVIOUS
    <3>1. M[i].st = State(o + i - 1)'
      <4> HIDE DEF M
      <4>1. M[i] = [rec |-> claims[o + i], st |-> State(o + i - 1)']
        BY <1>17
      <4> QED
        BY <4>1, EntryFields
    <3> HIDE DEF M
    <3> QED
      BY <1>16, <3>1
  <2>4. used \subseteq 1..Len(Line)
    BY <1>16
  <2> HIDE DEF M, used
  <2>5. CASE used = {}
    <3>1. \A k \in Nat : k < enqueue_pos => State(k)' = "free"
      <4> SUFFICES ASSUME NEW k \in Nat, o <= k, k < enqueue_pos PROVE State(k)' = "free"
        BY <1>8, <2>2
      <4>1. PICK i \in 1..Len(Line) : k = o + i - 1
        <5>1. k - o + 1 \in 1..Len(Line) /\ k = o + (k - o + 1) - 1
          BY <1>7a, <1>8
        <5> QED
          BY <5>1
      <4>2. State(o + i - 1)' = "free"
        BY <2>3, <2>5
      <4> QED
        BY <4>1, <4>2
    <3>2. Oldest' = enqueue_pos
      BY <1>2, <1>8, <2>1, <3>1, OldestAfter
    <3>3. Line' \in Seq(Entries) /\ Len(Line') = 0
      BY <1>2, <1>8, <3>2, LineAfter
    <3>4. Line' = <<>>
      BY <3>3
    <3> QED
      BY <2>5, <3>4 DEF Fifo!WithoutFreeFront, used
  <2>6. CASE used # {}
    <3>1. PICK m \in used : \A j \in used : m <= j
      <4>1. used \in SUBSET Nat
        BY <1>7a, <2>4
      <4> QED
        BY <2>6, <4>1, LeastNat
    <3>2. m \in 1..Len(Line) /\ m \in Nat /\ m >= 1 /\ m <= Len(Line)
      BY <1>7a, <2>4, <3>1
    <3>3. Fifo!Min(used) = m
      <4>1. \A x \in used : (\A y \in used : x =< y) => x = m
        <5> SUFFICES ASSUME NEW x \in used, \A y \in used : x =< y PROVE x = m
          OBVIOUS
        <5>1. x \in Nat /\ x <= m /\ m <= x
          BY <1>7a, <2>4, <3>1
        <5> QED
          BY <3>2, <5>1
      <4> QED
        BY <3>1, <4>1 DEF Fifo!Min
    <3>4. PICK k \in Nat : k = o + m - 1
      BY <3>2
    <3>5. \A j \in Nat : j < k => State(j)' = "free"
      <4> SUFFICES ASSUME NEW j \in Nat, o <= j, j < k PROVE State(j)' = "free"
        BY <1>8, <2>2
      <4>1. PICK i \in 1..Len(Line) : j = o + i - 1 /\ i < m
        <5>1. j - o + 1 \in 1..Len(Line) /\ j = o + (j - o + 1) - 1 /\ j - o + 1 < m
          BY <1>7a, <3>2, <3>4
        <5> QED
          BY <5>1
      <4>2. i \notin used
        BY <1>7a, <3>1, <3>2, <4>1
      <4> QED
        BY <2>3, <4>1, <4>2
    <3>6. State(k)' # "free" /\ k <= enqueue_pos
      BY <1>7a, <1>8, <2>3, <3>1, <3>2, <3>4
    <3>7. Oldest' = k
      BY <1>2, <2>1, <3>5, <3>6, OldestAfter
    <3>8. /\ Line' \in Seq(Entries) /\ Len(Line') = enqueue_pos - k
          /\ \A i \in 1..Len(Line') :
                Line'[i] = [rec |-> claims[k + i], st |-> State(k + i - 1)']
      BY <1>2, <3>7, LineAfter
    <3> DEFINE R == SubSeq(M, m, Len(M))
    <3>9. /\ R \in Seq(Entries) /\ Len(R) = Len(Line) - m + 1
          /\ \A i \in 1..Len(R) : R[i] = M[m + i - 1]
      BY <1>7a, <1>16, <3>2
    <3>10. Len(R) = Len(Line')
      BY <1>7a, <1>8, <3>2, <3>4, <3>8, <3>9
    <3> HIDE DEF R
    <3>11. \A i \in 1..Len(Line') : Line'[i] = R[i]
      <4> SUFFICES ASSUME NEW i \in 1..Len(Line') PROVE Line'[i] = R[i]
        OBVIOUS
      <4>1. /\ m + i - 1 \in 1..Len(Line) /\ o + (m + i - 1) = k + i
            /\ o + (m + i - 1) - 1 = k + i - 1
        BY <1>7a, <1>8, <3>2, <3>4, <3>8
      <4>2. R[i] = [rec |-> claims[o + (m + i - 1)], st |-> State(o + (m + i - 1) - 1)']
        BY <1>17, <3>9, <3>10, <4>1
      <4> QED
        BY <3>8, <4>1, <4>2
    <3>12. Line' = R
      BY <3>8, <3>9, <3>10, <3>11, SeqEqual
    <3> QED
      BY <2>6, <3>3, <3>12 DEF Fifo!WithoutFreeFront, used, R
  <2> QED
    BY <2>5, <2>6
<1>19. Fifo!Deliver(n)
  BY <1>2, <1>15, <1>18 DEF Fifo!Deliver
<1> QED
  BY <1>15, <1>19 DEF Fifo!Next

LEMMA LinePop ==
  ASSUME FifoInv, FifoInv', NEW c \in Consumers, Pop(c)
  PROVE  [Fifo!Next]_(Fifo!vars)
<1>1. CASE PopClaim(c)
  BY <1>1, LinePopClaim
<1>2. CASE PopRelease(c)
  BY <1>2, LinePopRelease
<1>3. CASE ~ PopClaim(c) /\ ~ PopRelease(c)
  <2>1. PosTypeOK
    BY DEF FifoInv, IInv
  <2>2. /\ UNCHANGED <<ppc, ppos, enqueue_pos, dequeue_pos, claims, popped>>
        /\ \A d \in Consumers : /\ Taking(d)' <=> Taking(d)
                                /\ Taking(d) => cpos'[d] = cpos[d]
    BY <1>3, <2>1 DEF Pop, PopBegin, PopSlotReady, PopEmpty, PopReload, PopCasFail,
                      PopRead, qvars, pvars, PosTypeOK, Taking
  <2>3. \A k \in Nat : State(k)' = State(k)
    <3>1. \A k \in Nat : (Taken(k)' <=> Taken(k)) /\ (Reserved(k)' <=> Reserved(k))
      BY <2>2 DEF Taken, Reserved, Filling
    <3> QED
      BY <2>2, <3>1 DEF State
  <2> QED
    BY <2>2, <2>3, SameLine DEF Fifo!vars
<1> QED
  BY <1>1, <1>2, <1>3

LEMMA FifoInvariance ==
  ASSUME Capacity > 1
  PROVE  Spec => []FifoInv
<1>1. FifoInv /\ [Next]_vars => FifoInv'
  BY FifoStep
<1> QED
  BY <1>1, InitFifoInv, PTL DEF Spec

(* Refinement: the slots, the two positions and the sequence numbers behave *)
(* as a line of places that are reserved, committed, taken and freed again: *)
(* every record is delivered intact, once, in the order of the claims.      *)
THEOREM QueueImplementsFifo ==
  ASSUME Capacity > 1
  PROVE  Spec => ImplementsFifo
<1>1. Init => Fifo!Init
  <2> SUFFICES ASSUME Init PROVE Fifo!Init
    OBVIOUS
  <2>1. LineInv /\ IsOldest(Oldest)
    BY InitFifoInv, LineHolds, OldestExists DEF FifoInv, IInv
  <2>2. enqueue_pos = 0 /\ popped = <<>>
    BY DEF Init
  <2>3. Oldest = 0
    BY <2>1, <2>2 DEF IsOldest
  <2>4. Line \in Seq(Entries) /\ Len(Line) = 0
    BY <2>1, <2>2, <2>3 DEF LineInv
  <2> QED
    BY <2>2, <2>4 DEF Fifo!Init
<1>2. FifoInv /\ FifoInv' /\ [Next]_vars => [Fifo!Next]_(Fifo!vars)
  <2> SUFFICES ASSUME FifoInv, FifoInv', [Next]_vars PROVE [Fifo!Next]_(Fifo!vars)
    OBVIOUS
  <2>1. CASE UNCHANGED vars
    <3>1. /\ UNCHANGED <<enqueue_pos, claims, popped>>
          /\ \A k \in Nat : State(k)' = State(k)
      BY <2>1 DEF vars, qvars, pvars, cvars, State, Reserved, Taken, Filling, Taking
    <3> QED
      BY <3>1, SameLine DEF Fifo!vars
  <2> QED
    BY <2>1, LinePush, LinePop DEF Next
<1> QED
  BY <1>1, <1>2, FifoInvariance, PTL DEF Spec, ImplementsFifo, Fifo!Spec

LEMMA FullMeansFull ==
  ASSUME FifoInv, NEW p \in Producers, PushFull(p)
  PROVE  Len(Line) = Capacity
<1>1. PosTypeOK /\ ProducerInv /\ BoundedOccupancy /\ SlotInv /\ Passed /\ LineInv
  BY LineHolds DEF FifoInv, IInv
<1>2. PICK k \in Nat : k = ppos[p]
  BY <1>1 DEF PosTypeOK
<1>3. seq[Slot(k)] < k /\ k <= enqueue_pos
  BY <1>1, <1>2 DEF PushFull, ProducerInv
<1>4. PICK o \in Nat : o = Oldest
  BY <1>1 DEF LineInv
<1>5. /\ enqueue_pos \in Nat /\ dequeue_pos \in Nat /\ Capacity \in Nat /\ Capacity > 0
      /\ seq[Slot(k)] \in Nat
      /\ dequeue_pos <= enqueue_pos /\ enqueue_pos <= dequeue_pos + Capacity
      /\ o <= dequeue_pos /\ enqueue_pos <= o + Capacity
  BY <1>1, <1>4, CapacityType, SlotInRange DEF PosTypeOK, LineInv, BoundedOccupancy
<1>6. k >= dequeue_pos
  BY <1>1, <1>3, <1>5 DEF Passed
<1>7. CASE k < dequeue_pos + Capacity
  <2>1. seq[Slot(k)] = Expected(k)
    BY <1>1, <1>6, <1>7 DEF SlotInv
  <2>2. ~ (k < enqueue_pos)
    BY <1>3, <1>5, <2>1 DEF Expected
  <2>3. Taken(k - Capacity)
    BY <1>3, <1>5, <2>1, <2>2 DEF Expected
  <2>4. PICK c \in Consumers : Taking(c) /\ cpos[c] = k - Capacity
    BY <2>3 DEF Taken
  <2>5. k - Capacity \in Nat
    BY <1>1, <2>4 DEF PosTypeOK
  <2>6. k - Capacity < dequeue_pos /\ ~ (k - Capacity >= dequeue_pos)
    BY <1>5, <1>7, <2>5
  <2>7. State(k - Capacity) # "free"
    BY <2>3, <2>6 DEF State
  <2>8. o <= k - Capacity
    BY <1>1, <1>4, <2>5, <2>7 DEF LineInv
  <2>9. enqueue_pos - o = Capacity
    BY <1>3, <1>5, <2>2, <2>8
  <2> QED
    BY <1>1, <1>4, <2>9 DEF LineInv
<1>8. CASE ~ (k < dequeue_pos + Capacity)
  <2>1. enqueue_pos - o = Capacity
    BY <1>3, <1>5, <1>8
  <2> QED
    BY <1>1, <1>4, <2>1 DEF LineInv
<1> QED
  BY <1>7, <1>8

LEMMA EmptyMeansEmpty ==
  ASSUME FifoInv, NEW c \in Consumers, PopEmpty(c)
  PROVE  dequeue_pos = enqueue_pos \/ State(dequeue_pos) = "reserved"
<1>1. PosTypeOK /\ ConsumerInv /\ BoundedOccupancy /\ SlotInv /\ Passed
  BY DEF FifoInv, IInv
<1>2. PICK k \in Nat : k = cpos[c]
  BY <1>1 DEF PosTypeOK
<1>3. seq[Slot(k)] < k + 1 /\ k <= dequeue_pos
  BY <1>1, <1>2 DEF PopEmpty, ConsumerInv
<1>4. /\ enqueue_pos \in Nat /\ dequeue_pos \in Nat /\ Capacity \in Nat /\ Capacity > 0
      /\ seq[Slot(k)] \in Nat /\ dequeue_pos <= enqueue_pos
  BY <1>1, CapacityType, SlotInRange DEF PosTypeOK, BoundedOccupancy
<1>5. k = dequeue_pos
  BY <1>1, <1>3, <1>4 DEF Passed
<1>6. k >= dequeue_pos /\ k < dequeue_pos + Capacity
  BY <1>4, <1>5
<1>7. seq[Slot(k)] = Expected(k)
  BY <1>1, <1>6 DEF SlotInv
<1>8. k < enqueue_pos => Reserved(k)
  BY <1>3, <1>4, <1>7 DEF Expected
<1>9. State(k) = "reserved" \/ k = enqueue_pos
  BY <1>4, <1>5, <1>6, <1>8 DEF State
<1> QED
  BY <1>5, <1>9

(* A push is refused only when every place is in use, a pop comes back      *)
(* empty only when nothing is committed at the head: a thread that read a   *)
(* stale position is sent round again, never told "full" or "empty".        *)
THEOREM RefusalsTrue ==
  ASSUME Capacity > 1
  PROVE  Spec => RefusalsAreTrue
<1>1. FifoInv => [/\ \A p \in Producers : PushFull(p) => Len(Line) = Capacity
                  /\ \A c \in Consumers :
                       PopEmpty(c) => \/ dequeue_pos = enqueue_pos
                                      \/ State(dequeue_pos) = "reserved"]_vars
  BY FullMeansFull, EmptyMeansEmpty
<1> QED
  BY <1>1, FifoInvariance, PTL DEF RefusalsAreTrue
=============================================================================
