---------------------- MODULE TelemetryPipeline_proofs ----------------------
(***************************************************************************)
(* Proofs about TelemetryPipeline for any rings, any number of events, any *)
(* capacities and batch size: the consumer thread is a legal owner of the  *)
(* event store (so what is proved of the store holds in the pipeline), no  *)
(* event vanishes uncounted, and only events pushed after the shutdown     *)
(* began stay in the bus.  The argument: the unread events of a ring are   *)
(* the last ones it received, and every earlier one is in exactly one of   *)
(* the dropped events, the two queues, what the store was handed and what  *)
(* route_event passed over.                                                *)
(***************************************************************************)
EXTENDS TelemetryPipeline, FiniteSetTheorems, TLAPS

(* The event store's own theorems, for a process that is not killed. *)
SP == INSTANCE EventStore_proofs WITH MaxCrashes <- 0

(* The unread events of a ring are the last ones it received, in order. *)
RingTail ==
  \A r \in Rings :
    /\ Len(unread[r]) <= produced[r]
    /\ \A i \in 1..Len(unread[r]) :
         unread[r][i] = <<r, produced[r] - Len(unread[r]) + i>>

(* The events the main thread has consumed, and those route_event has had. *)
Consumed == {e \in Events : e[2] <= produced[e[1]] - Len(unread[e[1]])}
Taken    == appended \cup discarded \cup passed

(* Every consumed event is in exactly one place. *)
Partition ==
  /\ Consumed = dropped \cup Queued \cup Taken
  /\ dropped \cap Queued = {} /\ dropped \cap Taken = {} /\ Queued \cap Taken = {}
  /\ IsInjective(hi) /\ IsInjective(lo)

(* What is counted is finite, and counted right. *)
Counts ==
  /\ IsFiniteSet(Produced)
  /\ drops = Cardinality(dropped)
  /\ pushed_ = Len(hi) + Len(lo) + Cardinality(Taken)

(* The store works on events it was handed only. *)
StoreLink ==
  /\ pending \in Seq(Events) /\ Range(pending) \subseteq appended
  /\ UNION batches \subseteq appended
  /\ appended \subseteq Events /\ discarded \subseteq Events
  /\ stored_ \in Nat /\ failed_ \in Nat /\ row \in Nat

(* The store is handed what it keeps, and nothing else is passed over. *)
RouteInv ==
  /\ \A e \in appended \cup discarded : Keeps(e)
  /\ \A e \in passed : ~Keeps(e)

(* How far the consumer has got with its last drain. *)
DrainInv ==
  /\ cpc \in {"drainhi", "drainlo", "flush", "read", "write", "done"} => ~running
  /\ cpc \in {"drainlo", "flush", "read", "write", "done"} => Range(hi) \subseteq late
  /\ cpc \in {"flush", "read", "write", "done"} => Range(lo) \subseteq late

(* The inductive invariant. *)
IInv ==
  TypeOK /\ RingTail /\ Partition /\ Counts /\ StoreLink /\ RouteInv /\ DrainInv

-----------------------------------------------------------------------------
LEMMA StoreConstants == BatchSize \in Nat \ {0} /\ MaxFaults \in Nat
  BY PipelineAssumption

(* The operators of the library are the same in both modules. *)
LEMMA SameOperators ==
  ASSUME NEW S
  PROVE  /\ SP!IsFiniteSet(S) <=> IsFiniteSet(S)
         /\ SP!Cardinality(S) = Cardinality(S)
         /\ SP!Range(S) = Range(S)
         /\ SP!IsInjective(S) <=> IsInjective(S)
         /\ Store!Range(S) = Range(S)
  BY DEF SP!IsFiniteSet, IsFiniteSet, SP!Cardinality, Cardinality,
         SP!Range, Store!Range, Range, SP!IsInjective, IsInjective

(* The facts about sequences the store's proofs rest on. *)
LEMMA RangeFacts ==
  ASSUME NEW S, NEW s \in Seq(S)
  PROVE  Range(s) = {s[i] : i \in 1..Len(s)} /\ Range(s) \subseteq S
  BY DEF Range

LEMMA RangeCardinality ==
  ASSUME NEW S, NEW s \in Seq(S), IsInjective(s)
  PROVE  IsFiniteSet(Range(s)) /\ Cardinality(Range(s)) = Len(s)
  BY StoreConstants, SameOperators, SP!RangeCardinality

LEMMA RangeAppend ==
  ASSUME NEW S, NEW s \in Seq(S), NEW e \in S
  PROVE  /\ Range(Append(s, e)) = Range(s) \cup {e}
         /\ IsInjective(s) /\ e \notin Range(s) => IsInjective(Append(s, e))
  BY StoreConstants, SameOperators, SP!RangeAppend

LEMMA RangeEmpty == Range(<<>>) = {} /\ IsInjective(<<>>) /\ Len(<<>>) = 0
  BY DEF Range, IsInjective

(* The head leaves a sequence without repetitions for good. *)
LEMMA RangeTail ==
  ASSUME NEW S, NEW s \in Seq(S), s # <<>>
  PROVE  /\ Head(s) \in Range(s) /\ Head(s) \in S
         /\ Tail(s) \in Seq(S) /\ Len(Tail(s)) = Len(s) - 1
         /\ Range(s) = Range(Tail(s)) \cup {Head(s)}
         /\ IsInjective(s) => IsInjective(Tail(s)) /\ Head(s) \notin Range(Tail(s))
<1> DEFINE t == Tail(s)
<1>1. /\ Len(s) \in Nat /\ Len(s) > 0 /\ DOMAIN s = 1..Len(s)
      /\ t \in Seq(S) /\ Len(t) = Len(s) - 1 /\ DOMAIN t = 1..(Len(s) - 1)
      /\ \A i \in 1..(Len(s) - 1) : t[i] = s[i + 1]
      /\ Head(s) = s[1] /\ Head(s) \in S
  OBVIOUS
<1> HIDE DEF t
<1>2. Head(s) \in Range(s) /\ Range(t) \subseteq Range(s)
  BY <1>1 DEF Range
<1>3. ASSUME NEW e \in Range(s), e # Head(s) PROVE e \in Range(t)
  <2>1. PICK i \in DOMAIN s : e = s[i]
    BY DEF Range
  <2>2. i - 1 \in DOMAIN t /\ t[i - 1] = e
    BY <1>1, <1>3, <2>1
  <2> QED
    BY <2>2 DEF Range
<1>4. ASSUME IsInjective(s) PROVE IsInjective(t) /\ Head(s) \notin Range(t)
  BY <1>1, <1>4 DEF IsInjective, Range
<1> QED
  BY <1>1, <1>2, <1>3, <1>4 DEF t

LEMMA DisjointUnion ==
  ASSUME NEW S, NEW T, IsFiniteSet(S), IsFiniteSet(T), S \cap T = {}
  PROVE  /\ IsFiniteSet(S \cup T)
         /\ Cardinality(S \cup T) = Cardinality(S) + Cardinality(T)
  BY StoreConstants, SameOperators, SP!DisjointUnion

LEMMA AddOne ==
  ASSUME NEW S, IsFiniteSet(S), NEW e, e \notin S
  PROVE  IsFiniteSet(S \cup {e}) /\ Cardinality(S \cup {e}) = Cardinality(S) + 1
  BY FS_AddElement

(* A pair of a ring and a number. *)
LEMMA EventFacts ==
  /\ \A e \in Events : e[1] \in Rings /\ e[2] \in 1..PerRing[e[1]] /\ e = <<e[1], e[2]>>
  /\ \A r \in Rings : \A n \in 1..PerRing[r] : <<r, n>> \in Events
  BY DEF Events

(* An order of some rings is a sequence of rings. *)
LEMMA OrderFacts ==
  ASSUME NEW R \in SUBSET Rings, NEW order \in SetToSeqs(R)
  PROVE  order \in Seq(Rings)
<1>1. IsFiniteSet(Rings)
  BY PipelineAssumption, RangeCardinality DEF Rings
<1>2. Cardinality(R) \in Nat
  BY <1>1, FS_Subset, FS_CardinalityType
<1>3. order \in [1..Cardinality(R) -> R]
  BY DEF SetToSeqs
<1> QED
  BY <1>2, <1>3

-----------------------------------------------------------------------------
(* What the invariant says of a produced event. *)

LEMMA UnreadFacts ==
  ASSUME TypeOK, RingTail, NEW r \in Rings
  PROVE  /\ unread[r] \in Seq(Events) /\ Len(unread[r]) \in Nat
         /\ produced[r] \in Nat /\ produced[r] <= PerRing[r] /\ PerRing[r] \in Nat
         /\ Len(unread[r]) <= produced[r]
         /\ Range(unread[r])
              = {e \in Events : /\ e[1] = r /\ e[2] <= produced[r]
                                /\ e[2] > produced[r] - Len(unread[r])}
<1> DEFINE s == unread[r]
           k == produced[r] - Len(s)
           Latest == {e \in Events : e[1] = r /\ e[2] <= produced[r] /\ e[2] > k}
<1>1. /\ s \in Seq(Events) /\ Len(s) \in Nat
      /\ produced[r] \in Nat /\ produced[r] <= PerRing[r] /\ PerRing[r] \in Nat
  BY PipelineAssumption DEF TypeOK
<1>2. Len(s) <= produced[r] /\ \A i \in 1..Len(s) : s[i] = <<r, k + i>>
  BY DEF RingTail
<1> HIDE DEF s, k
<1>3. k \in Nat /\ k + Len(s) = produced[r]
  BY <1>1, <1>2 DEF k, s
<1>4. ASSUME NEW e \in Range(s) PROVE e \in Latest
  <2>1. PICK i \in 1..Len(s) : e = s[i]
    BY <1>1 DEF Range
  <2>2. e \in Events /\ e = <<r, k + i>>
    BY <1>1, <1>2, <2>1
  <2>3. e[1] = r /\ e[2] = k + i
    BY <2>2
  <2> QED
    BY <1>1, <1>3, <2>2, <2>3
<1>5. ASSUME NEW e \in Latest PROVE e \in Range(s)
  <2>1. e = <<r, e[2]>> /\ e[2] \in Nat /\ e[2] <= k + Len(s) /\ e[2] > k
    BY <1>1, <1>3, EventFacts
  <2>2. e[2] - k \in 1..Len(s) /\ k + (e[2] - k) = e[2]
    BY <1>1, <1>3, <2>1
  <2>3. s[e[2] - k] = e
    BY <1>2, <2>1, <2>2
  <2> QED
    BY <1>1, <2>2, <2>3 DEF Range
<1> QED
  BY <1>1, <1>2, <1>4, <1>5 DEF s, k

(* A produced event is unread or consumed, and not both. *)
LEMMA UnreadOrConsumed ==
  ASSUME TypeOK, RingTail
  PROVE  Produced = Unread \cup Consumed /\ Unread \cap Consumed = {}
<1>1. ASSUME NEW e \in Events
      PROVE  /\ e \in Unread <=> /\ e[2] <= produced[e[1]]
                                 /\ e[2] > produced[e[1]] - Len(unread[e[1]])
             /\ e[1] \in Rings /\ e[2] \in Nat /\ produced[e[1]] \in Nat
             /\ Len(unread[e[1]]) \in Nat /\ Len(unread[e[1]]) <= produced[e[1]]
  <2>1. e[1] \in Rings /\ e[2] \in Nat
    BY EventFacts, UnreadFacts
  <2>2. \A r \in Rings : e \in Range(unread[r])
          <=> e[1] = r /\ e[2] <= produced[r] /\ e[2] > produced[r] - Len(unread[r])
    BY UnreadFacts
  <2> QED
    BY <2>1, <2>2, UnreadFacts DEF Unread
<1>2. Unread \subseteq Events
  BY UnreadFacts DEF Unread
<1>3. Unread \subseteq Produced /\ Unread \cap Consumed = {}
  BY <1>1, <1>2 DEF Produced, Consumed
<1>4. ASSUME NEW e \in Produced PROVE e \in Unread \cup Consumed
  BY <1>1 DEF Produced, Consumed
<1>5. Consumed \subseteq Produced
  <2> SUFFICES ASSUME NEW e \in Consumed PROVE e[2] <= produced[e[1]]
    BY DEF Consumed, Produced
  <2> QED
    BY <1>1 DEF Consumed
<1> QED
  BY <1>3, <1>4, <1>5

-----------------------------------------------------------------------------
(* The initial state *)

LEMMA CounterTypes ==
  /\ NoCounters \in [DOMAIN NoCounters -> Nat]
  /\ IInv => Counters \in [DOMAIN NoCounters -> Nat]
<1>1. NoCounters \in [DOMAIN NoCounters -> Nat]
  BY DEF NoCounters
<1>2. ASSUME IInv PROVE Counters \in [DOMAIN NoCounters -> Nat]
  <2>1. /\ pushed_ \in Nat /\ drops \in Nat /\ stored_ \in Nat /\ failed_ \in Nat
        /\ Len(hi) \in Nat /\ Len(lo) \in Nat
    BY <1>2 DEF IInv, TypeOK, StoreLink
  <2>2. Len(hi) + Len(lo) \in Nat
    BY <2>1
  <2> QED
    BY <2>1, <2>2 DEF NoCounters, Counters
<1> QED
  BY <1>1, <1>2

LEMMA InitIInv == Init => IInv
<1> SUFFICES ASSUME Init PROVE IInv
  OBVIOUS
<1> USE DEF Init, Store!StoreInit
<1>1. TypeOK
  <2>1. /\ produced \in [Rings -> Nat] /\ \A r \in Rings : produced[r] <= PerRing[r]
        /\ unread \in [Rings -> Seq(Events)]
    BY PipelineAssumption
  <2>2. /\ hi \in Seq({e \in Events : e[1] \in HiRings}) /\ Len(hi) <= HiCapacity
        /\ lo \in Seq({e \in Events : e[1] \notin HiRings}) /\ Len(lo) <= LoCapacity
        /\ todo \in Seq(Rings) /\ pushed_ \in Nat /\ drops \in Nat
    BY PipelineAssumption
  <2>3. {mvals, cvals, user_stats} \subseteq [DOMAIN NoCounters -> Nat]
    BY CounterTypes
  <2>4. running \in BOOLEAN
    OBVIOUS
  <2> QED
    BY <2>1, <2>2, <2>3, <2>4, Zenon DEF TypeOK
<1>2. RingTail
  BY DEF RingTail
<1>3. Produced = {} /\ Consumed = {}
  BY EventFacts, PipelineAssumption DEF Produced, Consumed
<1>4. Partition
  BY <1>3, RangeEmpty DEF Partition, Queued, Taken
<1>5. Counts
  BY <1>3, RangeEmpty, FS_EmptySet DEF Counts, Taken
<1>6. StoreLink
  BY RangeEmpty DEF StoreLink
<1>7. DrainInv /\ RouteInv
  BY DEF DrainInv, RouteInv
<1> QED
  BY <1>1, <1>2, <1>4, <1>5, <1>6, <1>7 DEF IInv

-----------------------------------------------------------------------------
(* Steps that move no event *)

(* Events that stay where they are satisfy the invariant as before. *)
LEMMA Quiet ==
  ASSUME IInv, UNCHANGED <<kern, bus, appended, discarded>>, StoreLink', DrainInv',
         running' \in BOOLEAN, todo' \in Seq(Rings),
         mpc' \in {"poll", "consume", "sync", "join", "done"},
         cpc' \in {"top", "hi", "lo", "due", "drainhi", "drainlo", "flush",
                   "read", "write", "done"},
         {mvals', cvals', user_stats'} \subseteq [DOMAIN NoCounters -> Nat]
  PROVE  IInv'
<1>1. TypeOK'
  BY Zenon DEF IInv, TypeOK, kern, bus
<1>2. RingTail'
  BY DEF IInv, RingTail, kern
<1>3. Partition' /\ Counts' /\ RouteInv'
  BY DEF IInv, Partition, Counts, RouteInv, Keeps, Consumed, Queued, Taken, Produced,
     kern, bus
<1> QED
  BY <1>1, <1>2, <1>3 DEF IInv

(* What the types of the invariant say, for the steps below. *)
LEMMA PartTypes ==
  ASSUME IInv
  PROVE  /\ running \in BOOLEAN /\ todo \in Seq(Rings)
         /\ mpc \in {"poll", "consume", "sync", "join", "done"}
         /\ cpc \in {"top", "hi", "lo", "due", "drainhi", "drainlo", "flush",
                     "read", "write", "done"}
         /\ {mvals, cvals, user_stats} \subseteq [DOMAIN NoCounters -> Nat]
  BY DEF IInv, TypeOK

(* The main thread's own steps and the signal touch no event. *)
LEMMA MainQuiet ==
  ASSUME IInv, \/ Signal \/ MainPoll \/ MainLeave \/ MainNextRing
               \/ MainRoundDone \/ MainSync \/ MainJoin
  PROVE  IInv' /\ UNCHANGED svars
<1> USE DEF Signal, MainPoll, MainLeave, MainNextRing, MainRoundDone, MainSync,
            MainJoin, mvars, cvars
<1>1. UNCHANGED <<kern, bus, svars, cpc>>
  OBVIOUS
<1>2. StoreLink' /\ UNCHANGED <<appended, discarded>>
  BY <1>1 DEF IInv, StoreLink, svars
<1>3. running' = running \/ running' = FALSE
  OBVIOUS
<1>4. DrainInv'
  <2>1. Range(hi)' = Range(hi) /\ Range(lo)' = Range(lo) /\ late' = late /\ cpc' = cpc
    BY <1>1 DEF bus
  <2> QED
    BY <1>3, <2>1 DEF IInv, DrainInv
<1>5. running' \in BOOLEAN
  BY <1>3, PartTypes
<1>6. todo' \in Seq(Rings)
  <2>1. CASE MainPoll
    BY <2>1, OrderFacts
  <2>2. CASE MainNextRing
    BY <2>2, PartTypes
  <2> QED
    BY <2>1, <2>2, PartTypes
<1>7. mpc' \in {"poll", "consume", "sync", "join", "done"} /\ cpc' = cpc
  BY PartTypes
<1>8. {mvals', cvals', user_stats'} \subseteq [DOMAIN NoCounters -> Nat]
  BY PartTypes, CounterTypes
<1> QED
  BY <1>1, <1>2, <1>4, <1>5, <1>6, <1>7, <1>8, PartTypes, Quiet

(* The calls of the store that take no event. *)
LEMMA StoreQuiet ==
  ASSUME IInv, Store!Flush \/ Store!WriteBatch \/ UNCHANGED svars
  PROVE  StoreLink' /\ UNCHANGED <<appended, discarded>>
<1> USE DEF IInv, StoreLink, Store!GiveUp, Store!openvars
<1>1. CASE Store!Flush
  BY <1>1 DEF Store!Flush
<1>2. CASE Store!Begin
  BY <1>2, SameOperators DEF Store!Begin
<1>3. CASE Store!Insert
  BY <1>3 DEF Store!Insert
<1>4. CASE Store!Commit
  BY <1>4 DEF Store!Commit
<1>5. CASE Store!CountStored
  BY <1>5 DEF Store!CountStored
<1>6. CASE Store!Clear
  BY <1>6, RangeEmpty DEF Store!Clear
<1>7. CASE UNCHANGED svars
  BY <1>7 DEF svars
<1>8. Len(pending) \in Nat
  OBVIOUS
<1>9. CASE Store!BeginFails
  BY <1>8, <1>9, SameOperators DEF Store!BeginFails
<1>10. CASE Store!InsertFails
  BY <1>8, <1>10 DEF Store!InsertFails
<1>11. CASE Store!CommitFails
  BY <1>8, <1>11 DEF Store!CommitFails
<1> QED
  BY <1>1, <1>2, <1>3, <1>4, <1>5, <1>6, <1>7, <1>9, <1>10, <1>11
     DEF Store!WriteBatch

(* The consumer's steps between two pops. *)
LEMMA ConsumerQuiet ==
  ASSUME IInv, \/ ConsumerTop \/ HiEmpty \/ LoEmpty \/ FlushIfDue
               \/ Consumer_WriteBatch \/ FinalFlush \/ FinalRead \/ FinalWrite
  PROVE  IInv' /\ (Store!Flush \/ Store!WriteBatch \/ UNCHANGED svars)
<1> USE DEF ConsumerTop, HiEmpty, LoEmpty, FlushIfDue, Consumer_WriteBatch,
            FinalFlush, FinalRead, FinalWrite
<1>1. UNCHANGED <<kern, bus, running, mvars>>
  OBVIOUS
<1>2. Store!Flush \/ Store!WriteBatch \/ UNCHANGED svars
  BY Zenon
<1>3. StoreLink' /\ UNCHANGED <<appended, discarded>>
  BY <1>2, StoreQuiet
<1>4. cpc' \in {"top", "hi", "lo", "due", "drainhi", "drainlo", "flush",
                "read", "write", "done"}
  BY PartTypes DEF cvars
<1>5. {mvals', cvals', user_stats'} \subseteq [DOMAIN NoCounters -> Nat]
  BY PartTypes, CounterTypes DEF cvars, mvars
<1>6. DrainInv'
  <2> USE <1>1 DEF IInv, DrainInv, bus, cvars
  <2>1. CASE ConsumerTop
    BY <2>1
  <2>2. CASE HiEmpty
    BY <2>2, RangeEmpty
  <2>3. CASE LoEmpty
    BY <2>3, RangeEmpty
  <2>4. CASE FlushIfDue
    BY <2>4
  <2>5. CASE Consumer_WriteBatch
    BY <2>5
  <2>6. CASE FinalFlush
    BY <2>6
  <2>7. CASE FinalRead \/ FinalWrite
    BY <2>7
  <2> QED
    BY <2>1, <2>2, <2>3, <2>4, <2>5, <2>6, <2>7
<1> QED
  BY <1>1, <1>2, <1>3, <1>4, <1>5, <1>6, PartTypes, Quiet DEF mvars

-----------------------------------------------------------------------------
(* Steps that move an event *)

(* The kernel adds an event at the end of a ring. *)
LEMMA ProduceStep ==
  ASSUME IInv, NEW r \in Rings, Produce(r)
  PROVE  IInv' /\ UNCHANGED svars
<1> DEFINE n == produced[r]
           e == <<r, n + 1>>
           s == unread[r]
<1> USE DEF Produce, mvars, cvars
<1>1. /\ s \in Seq(Events) /\ Len(s) \in Nat /\ n \in Nat /\ n < PerRing[r]
      /\ PerRing[r] \in Nat /\ Len(s) <= n
      /\ produced \in [Rings -> Nat] /\ unread \in [Rings -> Seq(Events)]
  BY UnreadFacts DEF IInv, TypeOK
<1>2. e \in Events
  <2>1. n + 1 \in 1..PerRing[r]
    BY <1>1
  <2> QED
    BY <2>1, EventFacts
<1>3. /\ produced' \in [Rings -> Nat] /\ produced'[r] = n + 1
      /\ \A q \in Rings : q # r => produced'[q] = produced[q]
      /\ unread' \in [Rings -> Seq(Events)] /\ unread'[r] = Append(s, e)
      /\ \A q \in Rings : q # r => unread'[q] = unread[q]
  BY <1>1, <1>2
<1>4. UNCHANGED <<bus, running, mpc, todo, mvals, cpc, cvals, user_stats, svars>>
  OBVIOUS
<1>5. TypeOK'
  <2>1. \A q \in Rings : produced'[q] <= PerRing[q]
    BY <1>1, <1>3 DEF IInv, TypeOK
  <2> QED
    BY <1>3, <1>4, <2>1, Zenon DEF IInv, TypeOK, bus
<1>6. Len(unread'[r]) = Len(s) + 1 /\ produced'[r] - Len(unread'[r]) = n - Len(s)
  BY <1>1, <1>2, <1>3
<1>7. RingTail'
  <2>1. \A i \in 1..(Len(s) + 1) : unread'[r][i] = <<r, (n - Len(s)) + i>>
    <3> SUFFICES ASSUME NEW i \in 1..(Len(s) + 1)
                 PROVE  unread'[r][i] = <<r, (n - Len(s)) + i>>
      OBVIOUS
    <3>1. CASE i \in 1..Len(s)
      <4>1. unread'[r][i] = s[i]
        BY <1>1, <1>2, <1>3, <3>1
      <4> QED
        BY <3>1, <4>1 DEF IInv, RingTail
    <3>2. CASE i = Len(s) + 1
      <4>1. unread'[r][i] = e /\ (n - Len(s)) + i = n + 1
        BY <1>1, <1>2, <1>3, <3>2
      <4> QED
        BY <4>1
    <3> QED
      BY <1>1, <3>1, <3>2
  <2>2. Len(unread'[r]) <= produced'[r]
    BY <1>1, <1>3, <1>6
  <2>3. ASSUME NEW q \in Rings, q # r
        PROVE  /\ Len(unread'[q]) <= produced'[q]
               /\ \A i \in 1..Len(unread'[q]) :
                    unread'[q][i] = <<q, produced'[q] - Len(unread'[q]) + i>>
    BY <1>3, <2>3 DEF IInv, RingTail
  <2> QED
    BY <1>6, <2>1, <2>2, <2>3 DEF RingTail
<1>8. Consumed' = Consumed
  BY <1>3, <1>6, EventFacts DEF Consumed
<1>9. Partition'
  BY <1>4, <1>8 DEF IInv, Partition, Queued, Taken, bus, svars
<1>10. Produced' = Produced \cup {e}
  <2>1. ASSUME NEW x \in Events
        PROVE  x[2] <= produced'[x[1]] <=> x[2] <= produced[x[1]] \/ x = e
    <3>1. x[1] \in Rings /\ x[2] \in Nat /\ x = <<x[1], x[2]>>
      BY EventFacts, UnreadFacts, PipelineAssumption
    <3>2. CASE x[1] # r
      BY <1>3, <3>1, <3>2
    <3>3. CASE x[1] = r
      <4>1. x = e <=> x[2] = n + 1
        BY <3>1, <3>3
      <4> QED
        BY <1>1, <1>3, <3>1, <3>3, <4>1
    <3> QED
      BY <3>2, <3>3
  <2> QED
    BY <1>2, <2>1 DEF Produced
<1>11. Counts'
  <2>1. IsFiniteSet(Produced')
    BY <1>10, FS_AddElement DEF IInv, Counts
  <2> QED
    BY <1>4, <2>1 DEF IInv, Counts, Taken, bus, svars
<1>12. StoreLink'
  BY <1>4 DEF IInv, StoreLink, svars
<1>13. DrainInv' /\ RouteInv'
  BY <1>4 DEF IInv, DrainInv, RouteInv, Keeps, bus, svars
<1> QED
  BY <1>4, <1>5, <1>7, <1>9, <1>11, <1>12, <1>13 DEF IInv

(* The main thread takes the first unread event of a ring: the next number. *)
LEMMA HeadUnread ==
  ASSUME IInv, NEW r \in Rings, unread[r] # <<>>,
         unread' = [unread EXCEPT ![r] = Tail(@)], UNCHANGED produced
  PROVE  LET e == Head(unread[r])
         IN  /\ e \in Events /\ e \notin Consumed
             /\ Consumed' = Consumed \cup {e}
             /\ unread' \in [Rings -> Seq(Events)] /\ RingTail'
<1> DEFINE s == unread[r]
           k == produced[r] - Len(s)
           e == Head(s)
<1>1. /\ s \in Seq(Events) /\ Len(s) \in Nat /\ Len(s) > 0
      /\ produced[r] \in Nat /\ Len(s) <= produced[r]
      /\ unread \in [Rings -> Seq(Events)]
      /\ \A i \in 1..Len(s) : s[i] = <<r, k + i>>
  BY UnreadFacts DEF IInv, TypeOK, RingTail
<1>2. e = s[1] /\ e = <<r, k + 1>> /\ e \in Events /\ k \in Nat
  BY <1>1
<1>3. /\ unread' \in [Rings -> Seq(Events)] /\ unread'[r] = Tail(s)
      /\ \A q \in Rings : q # r => unread'[q] = unread[q]
      /\ produced' = produced
  BY <1>1
<1>4. /\ Len(Tail(s)) = Len(s) - 1
      /\ \A i \in 1..(Len(s) - 1) : Tail(s)[i] = s[i + 1]
  BY <1>1
<1>5. produced'[r] - Len(unread'[r]) = k + 1
  BY <1>1, <1>3, <1>4
<1>6. RingTail'
  <2>1. \A i \in 1..(Len(s) - 1) : Tail(s)[i] = <<r, (k + 1) + i>>
    <3> SUFFICES ASSUME NEW i \in 1..(Len(s) - 1)
                 PROVE  Tail(s)[i] = <<r, (k + 1) + i>>
      OBVIOUS
    <3>1. i + 1 \in 1..Len(s)
      BY <1>1
    <3>2. s[i + 1] = <<r, k + (i + 1)>> /\ k + (i + 1) = (k + 1) + i
      <4>1. s[i + 1] = <<r, k + (i + 1)>>
        BY <1>1, <3>1
      <4> HIDE DEF k
      <4> QED
        BY <1>2, <4>1
    <3> QED
      BY <1>4, <3>1, <3>2
  <2>2. Len(unread'[r]) <= produced'[r]
    BY <1>1, <1>3, <1>4
  <2>3. ASSUME NEW q \in Rings, q # r
        PROVE  /\ Len(unread'[q]) <= produced'[q]
               /\ \A i \in 1..Len(unread'[q]) :
                    unread'[q][i] = <<q, produced'[q] - Len(unread'[q]) + i>>
    BY <1>3, <2>3 DEF IInv, RingTail
  <2> QED
    BY <1>3, <1>4, <1>5, <2>1, <2>2, <2>3 DEF RingTail
<1>7. e \notin Consumed
  BY <1>2 DEF Consumed
<1>8. ASSUME NEW x \in Events
      PROVE  x[2] <= produced'[x[1]] - Len(unread'[x[1]])
               <=> x[2] <= produced[x[1]] - Len(unread[x[1]]) \/ x = e
  <2>1. x[1] \in Rings /\ x[2] \in Nat /\ x = <<x[1], x[2]>>
    BY EventFacts, PipelineAssumption
  <2>2. CASE x[1] # r
    <3>1. x # e
      BY <1>2, <2>2
    <3> QED
      BY <1>3, <2>1, <2>2, <3>1
  <2>3. CASE x[1] = r
    <3>1. x = e <=> x[2] = k + 1
      BY <1>2, <2>1, <2>3
    <3>2. x[2] <= k + 1 <=> x[2] <= k \/ x[2] = k + 1
      BY <1>2, <2>1
    <3> QED
      BY <1>5, <2>3, <3>1, <3>2
  <2> QED
    BY <2>2, <2>3
<1>9. Consumed' = Consumed \cup {e}
  BY <1>2, <1>8 DEF Consumed
<1> QED
  BY <1>2, <1>3, <1>6, <1>7, <1>9

(* Finitely many events have been produced, so what is counted is finite. *)
LEMMA FinitelyMany ==
  ASSUME IInv
  PROVE  /\ IsFiniteSet(dropped) /\ IsFiniteSet(Taken) /\ IsFiniteSet(Unread)
         /\ Cardinality(Taken) \in Nat
<1>1. /\ dropped \subseteq Produced /\ Taken \subseteq Produced
      /\ Unread \subseteq Produced /\ IsFiniteSet(Produced)
  BY UnreadOrConsumed DEF IInv, Partition, Counts
<1> QED
  BY <1>1, FS_Subset, FS_CardinalityType

(* Where a consumed event goes: into its queue, or it is dropped. *)
LEMMA ConsumeStep ==
  ASSUME IInv, MainConsume
  PROVE  IInv' /\ UNCHANGED svars
<1> DEFINE r == Head(todo)
           e == Head(unread[r])
<1>1. /\ r \in Rings /\ unread[r] # <<>> /\ TryPush(e)
      /\ unread' = [unread EXCEPT ![r] = Tail(@)]
      /\ UNCHANGED <<produced, running, mpc, todo, mvals, cpc, cvals, user_stats, svars>>
      /\ UNCHANGED <<store_on, passed>>
  BY PartTypes DEF MainConsume, mvars, cvars
<1>2. /\ e \in Events /\ e \notin Consumed /\ Consumed' = Consumed \cup {e}
      /\ unread' \in [Rings -> Seq(Events)] /\ RingTail'
  BY <1>1, HeadUnread
<1> HIDE DEF e
<1> DEFINE HiEvents == {x \in Events : x[1] \in HiRings}
           LoEvents == {x \in Events : x[1] \notin HiRings}
<1>3. /\ hi \in Seq(HiEvents) /\ lo \in Seq(LoEvents)
      /\ hi \in Seq(Events) /\ lo \in Seq(Events)
      /\ Len(hi) \in Nat /\ Len(lo) \in Nat
      /\ HiCapacity \in Nat /\ LoCapacity \in Nat
      /\ Len(hi) <= HiCapacity /\ Len(lo) <= LoCapacity
      /\ pushed_ \in Nat /\ drops \in Nat
      /\ dropped \subseteq Events /\ late \subseteq Events /\ running \in BOOLEAN
  BY PipelineAssumption DEF IInv, TypeOK
<1>4. e \notin dropped /\ e \notin Range(hi) /\ e \notin Range(lo) /\ e \notin Taken
  BY <1>2 DEF IInv, Partition, Queued
<1>5. UNCHANGED Taken /\ StoreLink' /\ UNCHANGED Produced /\ RouteInv'
  BY <1>1 DEF Taken, IInv, StoreLink, svars, Produced, RouteInv, Keeps
<1>6. /\ hi' \in Seq(HiEvents) /\ lo' \in Seq(LoEvents)
      /\ Len(hi') <= HiCapacity /\ Len(lo') <= LoCapacity
      /\ pushed_' \in Nat /\ drops' \in Nat
      /\ dropped' \subseteq Events /\ late' \subseteq Events
      /\ Partition' /\ Counts' /\ DrainInv'
  <2> USE <1>3
  <2>1. CASE e[1] \in HiRings /\ Len(hi) < HiCapacity
    <3>1. /\ hi' = Append(hi, e) /\ lo' = lo /\ pushed_' = pushed_ + 1
          /\ UNCHANGED <<drops, dropped>>
          /\ late' = IF running THEN late ELSE late \cup {e}
      BY <1>1, <2>1 DEF TryPush
    <3>2. /\ hi' \in Seq(HiEvents) /\ Len(hi') = Len(hi) + 1
          /\ Range(hi') = Range(hi) \cup {e}
          /\ IsInjective(hi) => IsInjective(hi')
      <4>1. e \in HiEvents
        BY <1>2, <2>1
      <4> HIDE DEF HiEvents
      <4>2. hi' \in Seq(HiEvents) /\ Len(hi') = Len(hi) + 1
        BY <3>1, <4>1
      <4> QED
        BY <1>4, <3>1, <4>1, <4>2, RangeAppend
    <3>3. Partition'
      BY <1>2, <1>4, <1>5, <3>1, <3>2 DEF IInv, Partition, Queued
    <3>4. Counts'
      <4>1. /\ IsFiniteSet(Produced) /\ drops = Cardinality(dropped)
            /\ pushed_ = Len(hi) + Len(lo) + Cardinality(Taken)
            /\ Cardinality(Taken) \in Nat
        BY FinitelyMany DEF IInv, Counts
      <4>2. Len(hi') + Len(lo') = Len(hi) + Len(lo) + 1
        BY <3>1, <3>2
      <4>3. pushed_' = Len(hi') + Len(lo') + Cardinality(Taken')
        BY <1>5, <3>1, <4>1, <4>2
      <4> QED
        BY <1>5, <3>1, <4>1, <4>3 DEF Counts
    <3>5. DrainInv'
      BY <1>1, <3>1, <3>2 DEF IInv, DrainInv
    <3> QED
      BY <1>2, <2>1, <3>1, <3>2, <3>3, <3>4, <3>5
  <2>2. CASE e[1] \notin HiRings /\ Len(lo) < LoCapacity
    <3>1. /\ lo' = Append(lo, e) /\ hi' = hi /\ pushed_' = pushed_ + 1
          /\ UNCHANGED <<drops, dropped>>
          /\ late' = IF running THEN late ELSE late \cup {e}
      BY <1>1, <2>2 DEF TryPush
    <3>2. /\ lo' \in Seq(LoEvents) /\ Len(lo') = Len(lo) + 1
          /\ Range(lo') = Range(lo) \cup {e}
          /\ IsInjective(lo) => IsInjective(lo')
      <4>1. e \in LoEvents
        BY <1>2, <2>2
      <4> HIDE DEF LoEvents
      <4>2. lo' \in Seq(LoEvents) /\ Len(lo') = Len(lo) + 1
        BY <3>1, <4>1
      <4> QED
        BY <1>4, <3>1, <4>1, <4>2, RangeAppend
    <3>3. Partition'
      BY <1>2, <1>4, <1>5, <3>1, <3>2 DEF IInv, Partition, Queued
    <3>4. Counts'
      <4>1. /\ IsFiniteSet(Produced) /\ drops = Cardinality(dropped)
            /\ pushed_ = Len(hi) + Len(lo) + Cardinality(Taken)
            /\ Cardinality(Taken) \in Nat
        BY FinitelyMany DEF IInv, Counts
      <4>2. Len(hi') + Len(lo') = Len(hi) + Len(lo) + 1
        BY <3>1, <3>2
      <4>3. pushed_' = Len(hi') + Len(lo') + Cardinality(Taken')
        BY <1>5, <3>1, <4>1, <4>2
      <4> QED
        BY <1>5, <3>1, <4>1, <4>3 DEF Counts
    <3>5. DrainInv'
      BY <1>1, <3>1, <3>2 DEF IInv, DrainInv
    <3> QED
      BY <1>2, <2>2, <3>1, <3>2, <3>3, <3>4, <3>5
  <2>3. CASE ~(IF e[1] \in HiRings THEN Len(hi) < HiCapacity ELSE Len(lo) < LoCapacity)
    <3>1. /\ UNCHANGED <<hi, lo, pushed_, late>> /\ drops' = drops + 1
          /\ dropped' = dropped \cup {e}
      BY <1>1, <2>3 DEF TryPush
    <3>2. Partition'
      BY <1>2, <1>4, <1>5, <3>1 DEF IInv, Partition, Queued
    <3>3. Counts'
      BY <1>4, <1>5, <3>1, FinitelyMany, AddOne DEF IInv, Counts
    <3>4. DrainInv'
      BY <1>1, <3>1 DEF IInv, DrainInv
    <3> QED
      BY <1>2, <3>1, <3>2, <3>3, <3>4
  <2> QED
    BY <2>1, <2>2, <2>3
<1>7. TypeOK'
  BY <1>1, <1>2, <1>6, Zenon DEF IInv, TypeOK
<1> QED
  BY <1>1, <1>2, <1>5, <1>6, <1>7 DEF IInv

(* What the consumer pops is new to the store, which is handed it or not. *)
LEMMA RoutedStep ==
  ASSUME IInv, NEW e \in Events, e \notin Taken, Route(e), UNCHANGED store_on
  PROVE  /\ \/ e \in Events \ Store!Used /\ (Store!Append_(e) \/ Store!Discard(e))
            \/ UNCHANGED svars
         /\ StoreLink' /\ RouteInv' /\ passed' \subseteq Events
         /\ Taken' = Taken \cup {e}
<1>1. e \in Events \ Store!Used /\ passed \subseteq Events
  BY DEF IInv, TypeOK, StoreLink, Store!Used, Taken
<1> USE <1>1 DEF Keeps
<1>2. CASE Keeps(e) /\ Store!Append_(e) /\ UNCHANGED passed
  <2>1. pending' \in Seq(Events) /\ Range(pending') = Range(pending) \cup {e}
    BY <1>2, RangeAppend DEF Store!Append_, IInv, StoreLink
  <2> QED
    BY <1>2, <2>1 DEF Store!Append_, IInv, StoreLink, RouteInv, Taken, Store!openvars
<1>3. CASE Keeps(e) /\ Store!Discard(e) /\ UNCHANGED passed
  BY <1>3 DEF Store!Discard, IInv, StoreLink, RouteInv, Taken
<1>4. CASE ~Keeps(e) /\ UNCHANGED svars /\ passed' = passed \cup {e}
  BY <1>4 DEF IInv, StoreLink, RouteInv, Taken, svars
<1> QED
  BY <1>2, <1>3, <1>4 DEF Route

(* Popping a queue moves its first event into the hands of route_event. *)
LEMMA PopStep ==
  ASSUME IInv, PopHi \/ PopLo
  PROVE  /\ IInv'
         /\ \/ \E e \in Events \ Store!Used : Store!Append_(e) \/ Store!Discard(e)
            \/ UNCHANGED svars
<1> DEFINE HiEvents == {x \in Events : x[1] \in HiRings}
           LoEvents == {x \in Events : x[1] \notin HiRings}
<1>1. /\ hi \in Seq(HiEvents) /\ lo \in Seq(LoEvents)
      /\ hi \in Seq(Events) /\ lo \in Seq(Events)
      /\ Len(hi) \in Nat /\ Len(lo) \in Nat
      /\ HiCapacity \in Nat /\ LoCapacity \in Nat
      /\ Len(hi) <= HiCapacity /\ Len(lo) <= LoCapacity
  BY PipelineAssumption DEF IInv, TypeOK
<1>2. /\ UNCHANGED <<produced, unread, pushed_, drops, dropped, late, running,
                     mpc, todo, mvals, cpc, cvals, user_stats, store_on>>
      /\ UNCHANGED <<Consumed, Produced>>
  BY DEF PopHi, PopLo, kern, mvars, cvars, Consumed, Produced
<1>3. RingTail'
  BY <1>2 DEF IInv, RingTail
<1>4. CASE PopHi
  <2> DEFINE e == Head(hi)
  <2>1. /\ Route(e)
        /\ hi # <<>> /\ hi' = Tail(hi) /\ lo' = lo
    BY <1>4 DEF PopHi
  <2>2. /\ e \in Range(hi) /\ e \in Events /\ e[1] \in HiRings
        /\ hi' \in Seq(HiEvents) /\ Len(hi') = Len(hi) - 1
        /\ Range(hi) = Range(hi') \cup {e}
        /\ IsInjective(hi') /\ e \notin Range(hi')
    BY <1>1, <2>1, RangeTail DEF IInv, Partition
  <2>3. e \notin Range(lo) /\ e \notin Taken /\ e \notin dropped
    <3>1. Range(lo) \subseteq LoEvents
      BY <1>1, RangeFacts
    <3> QED
      BY <2>2, <3>1 DEF IInv, Partition, Queued
  <2> HIDE DEF e
  <2>4. /\ \/ e \in Events \ Store!Used /\ (Store!Append_(e) \/ Store!Discard(e))
           \/ UNCHANGED svars
        /\ StoreLink' /\ RouteInv' /\ passed' \subseteq Events
        /\ Taken' = Taken \cup {e}
    BY <1>2, <2>1, <2>2, <2>3, RoutedStep
  <2>5. Partition'
    BY <1>2, <2>1, <2>2, <2>3, <2>4 DEF IInv, Partition, Queued
  <2>6. Counts'
    <3>1. Cardinality(Taken') = Cardinality(Taken) + 1 /\ Cardinality(Taken) \in Nat
      BY <2>3, <2>4, FinitelyMany, AddOne
    <3> QED
      BY <1>1, <1>2, <2>1, <2>2, <3>1 DEF IInv, Counts
  <2>7. DrainInv'
    BY <1>2, <2>1, <2>2 DEF IInv, DrainInv
  <2>8. TypeOK'
    <3>1. Len(hi') <= HiCapacity
      BY <1>1, <2>2
    <3> QED
      BY <1>2, <2>1, <2>2, <2>4, <3>1, Zenon DEF IInv, TypeOK
  <2> QED
    BY <1>3, <2>1, <2>4, <2>5, <2>6, <2>7, <2>8 DEF IInv
<1>5. CASE PopLo
  <2> DEFINE e == Head(lo)
  <2>1. /\ Route(e)
        /\ lo # <<>> /\ lo' = Tail(lo) /\ hi' = hi
    BY <1>5 DEF PopLo
  <2>2. /\ e \in Range(lo) /\ e \in Events /\ e[1] \notin HiRings
        /\ lo' \in Seq(LoEvents) /\ Len(lo') = Len(lo) - 1
        /\ Range(lo) = Range(lo') \cup {e}
        /\ IsInjective(lo') /\ e \notin Range(lo')
    BY <1>1, <2>1, RangeTail DEF IInv, Partition
  <2>3. e \notin Range(hi) /\ e \notin Taken /\ e \notin dropped
    <3>1. Range(hi) \subseteq HiEvents
      BY <1>1, RangeFacts
    <3> QED
      BY <2>2, <3>1 DEF IInv, Partition, Queued
  <2> HIDE DEF e
  <2>4. /\ \/ e \in Events \ Store!Used /\ (Store!Append_(e) \/ Store!Discard(e))
           \/ UNCHANGED svars
        /\ StoreLink' /\ RouteInv' /\ passed' \subseteq Events
        /\ Taken' = Taken \cup {e}
    BY <1>2, <2>1, <2>2, <2>3, RoutedStep
  <2>5. Partition'
    BY <1>2, <2>1, <2>2, <2>3, <2>4 DEF IInv, Partition, Queued
  <2>6. Counts'
    <3>1. Cardinality(Taken') = Cardinality(Taken) + 1 /\ Cardinality(Taken) \in Nat
      BY <2>3, <2>4, FinitelyMany, AddOne
    <3> QED
      BY <1>1, <1>2, <2>1, <2>2, <3>1 DEF IInv, Counts
  <2>7. DrainInv'
    BY <1>2, <2>1, <2>2 DEF IInv, DrainInv
  <2>8. TypeOK'
    <3>1. Len(lo') <= LoCapacity
      BY <1>1, <2>2
    <3> QED
      BY <1>2, <2>1, <2>2, <2>4, <3>1, Zenon DEF IInv, TypeOK
  <2> QED
    BY <1>3, <2>1, <2>4, <2>5, <2>6, <2>7, <2>8 DEF IInv
<1> QED
  BY <1>4, <1>5

-----------------------------------------------------------------------------
(* Theorems *)

(* Every step preserves the invariant, and is a step of the store or none. *)
LEMMA EveryStep ==
  ASSUME IInv, [Next]_vars
  PROVE  IInv' /\ [Store!Next]_svars
<1>1. CASE \E r \in Rings : Produce(r)
  BY <1>1, ProduceStep
<1>2. CASE Signal \/ Main
  <2>1. CASE MainConsume
    BY <2>1, ConsumeStep
  <2>2. CASE \/ Signal \/ MainPoll \/ MainLeave \/ MainNextRing
             \/ MainRoundDone \/ MainSync \/ MainJoin
    BY <2>2, MainQuiet
  <2> QED
    BY <1>2, <2>1, <2>2 DEF Main
<1>3. CASE Consumer
  <2>1. CASE PopHi \/ PopLo
    BY <2>1, PopStep DEF Store!Next
  <2>2. CASE \/ ConsumerTop \/ HiEmpty \/ LoEmpty \/ FlushIfDue
             \/ Consumer_WriteBatch \/ FinalFlush \/ FinalRead \/ FinalWrite
    BY <2>2, ConsumerQuiet DEF Store!Next
  <2> QED
    BY <1>3, <2>1, <2>2 DEF Consumer
<1>4. CASE UNCHANGED vars
  <2>1. /\ UNCHANGED <<kern, bus, running, mpc, todo, mvals, cpc, cvals, user_stats>>
        /\ UNCHANGED svars
    BY <1>4 DEF vars, mvars, cvars
  <2>2. StoreLink' /\ UNCHANGED <<appended, discarded>>
    BY <2>1, StoreQuiet
  <2>3. DrainInv'
    BY <2>1 DEF IInv, DrainInv, bus
  <2> QED
    BY <2>1, <2>2, <2>3, PartTypes, Quiet
<1> QED
  BY <1>1, <1>2, <1>3, <1>4 DEF Next, Stopped

LEMMA Invariance == Spec => []IInv
<1>1. IInv /\ [Next]_vars => IInv'
  BY EveryStep
<1> QED
  BY <1>1, InitIInv, PTL DEF Spec

(* Refinement: the consumer thread calls the store as its specification    *)
(* allows: each event at most once, and nothing while a flush is at work.  *)
THEOREM ConsumerUsesStore == Spec => UsesStore
<1>1. Init => Store!StoreInit
  BY DEF Init
<1>2. IInv /\ [Next]_vars => [Store!Next]_(Store!svars)
  BY EveryStep DEF svars, Store!svars, Store!openvars
<1> QED
  BY <1>1, <1>2, Invariance, PTL DEF Spec, UsesStore, Store!Spec

(* Every event the kernel produced is unread, dropped and counted, queued, *)
(* in the store's hands or one the store is not to keep, whatever the two  *)
(* threads are doing.                                                      *)
THEOREM NoEventVanishes == Spec => []PipeInv
<1>1. ASSUME IInv PROVE PipeInv
  <2>1. /\ Produced = Unread \cup Consumed /\ Unread \cap Consumed = {}
        /\ Consumed = (dropped \cup Queued) \cup Taken
    BY <1>1, UnreadOrConsumed DEF IInv, Partition
  <2>2. hi \in Seq(Events) /\ lo \in Seq(Events)
        /\ Range(hi) \cap Range(lo) = {}
    <3>1. /\ hi \in Seq({x \in Events : x[1] \in HiRings})
          /\ lo \in Seq({x \in Events : x[1] \notin HiRings})
      BY <1>1 DEF IInv, TypeOK
    <3>2. /\ Range(hi) \subseteq {x \in Events : x[1] \in HiRings}
          /\ Range(lo) \subseteq {x \in Events : x[1] \notin HiRings}
      BY <3>1, RangeFacts
    <3> QED
      BY <3>1, <3>2
  <2>3. IsFiniteSet(Queued) /\ Cardinality(Queued) = Len(hi) + Len(lo)
    BY <1>1, <2>2, RangeCardinality, DisjointUnion DEF IInv, Partition, Queued
  <2>4. /\ IsFiniteSet(dropped \cup Queued)
        /\ Cardinality(dropped \cup Queued) = Cardinality(dropped) + Cardinality(Queued)
    BY <1>1, <2>3, FinitelyMany, DisjointUnion DEF IInv, Partition
  <2>5. /\ IsFiniteSet(Consumed)
        /\ Cardinality(Consumed) = Cardinality(dropped \cup Queued) + Cardinality(Taken)
    <3>1. (dropped \cup Queued) \cap Taken = {}
      BY <1>1 DEF IInv, Partition
    <3> QED
      BY <1>1, <2>1, <2>4, <3>1, FinitelyMany, DisjointUnion
  <2>6. Cardinality(Produced) = Cardinality(Unread) + Cardinality(Consumed)
    BY <1>1, <2>1, <2>5, FinitelyMany, DisjointUnion
  <2>7. /\ drops = Cardinality(dropped)
        /\ pushed_ = (Len(hi) + Len(lo)) + Cardinality(Taken)
        /\ drops \in Nat /\ pushed_ \in Nat /\ Cardinality(Unread) \in Nat
        /\ Len(hi) \in Nat /\ Len(lo) \in Nat /\ Cardinality(Taken) \in Nat
    BY <1>1, FinitelyMany, FS_CardinalityType DEF IInv, Counts, TypeOK
  <2>8. Cardinality(Unread) + drops + pushed_ = Cardinality(Produced)
    BY <2>3, <2>4, <2>5, <2>6, <2>7
  <2>9. /\ Produced = Unread \cup dropped \cup Queued \cup appended \cup discarded \cup passed
        /\ pushed_ = Len(hi) + Len(lo) + Cardinality(appended \cup discarded \cup passed)
    BY <2>1, <2>7, Zenon DEF Taken
  <2>10. TypeOK /\ RouteInv
    BY <1>1 DEF IInv
  <2> QED
    BY <2>7, <2>8, <2>9, <2>10 DEF PipeInv, NothingVanishes, RouteInv
<1> QED
  BY <1>1, Invariance, PTL

(* The last drain leaves only what was pushed after the shutdown began. *)
THEOREM LateEventsOnly == Spec => []OnlyLateEventsStranded
<1>1. IInv => OnlyLateEventsStranded
  BY DEF IInv, DrainInv, OnlyLateEventsStranded, Queued
<1> QED
  BY <1>1, Invariance, PTL

(* The two readings of the store's specification agree. *)
LEMMA SameStore == Store!Spec => SP!Spec
<1> USE DEF Store!openvars, SP!openvars, Store!StoreIdle, SP!StoreIdle
<1>1. Store!StoreInit => SP!StoreInit
  BY DEF Store!StoreInit, SP!StoreInit
<1>2. Store!Next => SP!Next
  <2>1. \A e : Store!Append_(e) => SP!Append_(e)
    BY DEF Store!Append_, SP!Append_
  <2>2. \A e : Store!Discard(e) => SP!Discard(e)
    BY DEF Store!Discard, SP!Discard
  <2>3. Store!Used = SP!Used
    BY DEF Store!Used, SP!Used
  <2>4. Store!Flush => SP!Flush
    BY DEF Store!Flush, SP!Flush
  <2>5. Store!WriteBatch => SP!WriteBatch
    BY SameOperators DEF Store!WriteBatch, SP!WriteBatch, Store!GiveUp, SP!GiveUp,
       Store!Begin, SP!Begin, Store!BeginFails, SP!BeginFails,
       Store!Insert, SP!Insert, Store!InsertFails, SP!InsertFails,
       Store!Commit, SP!Commit, Store!CommitFails, SP!CommitFails,
       Store!CountStored, SP!CountStored, Store!Clear, SP!Clear
  <2>6. Store!Crash => SP!Crash
    BY DEF Store!Crash, SP!Crash
  <2> QED
    BY <2>1, <2>2, <2>3, <2>4, <2>5, <2>6 DEF Store!Next, SP!Next
<1>3. [Store!Next]_(Store!svars) => [SP!Next]_(SP!svars)
  BY <1>2 DEF Store!svars, SP!svars
<1> QED
  BY <1>1, <1>3, PTL DEF Store!Spec, SP!Spec

(* What the store promises holds in the pipeline: a batch is written       *)
(* wholly or not at all, and every event handed over is accounted for.     *)
THEOREM StorePromisesHold == Spec => [](Store!StoreInv /\ Store!BatchAtomic)
<1>1. SP!Spec => []SP!StoreInv /\ []SP!BatchAtomic
  BY StoreConstants, SP!StoreInvariant, SP!BatchesAreAtomic
<1>2. SP!BatchAtomic => Store!BatchAtomic
  BY DEF SP!BatchAtomic, Store!BatchAtomic
<1>3. SP!StoreInv => Store!StoreInv
  BY SameOperators
     DEF SP!StoreInv, Store!StoreInv, SP!StoreTypeOK, Store!StoreTypeOK,
         SP!Accounted, Store!Accounted, SP!Settled, Store!Settled,
         SP!Cardinality, Store!Cardinality
<1> QED
  BY <1>1, <1>2, <1>3, ConsumerUsesStore, SameStore, PTL DEF UsesStore
=============================================================================
