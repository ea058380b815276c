------------------------- MODULE EventStore_proofs --------------------------
(***************************************************************************)
(* Proofs about EventStore for every set of events, every batch size and   *)
(* any number of failing calls and restarts: every accepted event is       *)
(* pending, stored or given up and counted as such, and a batch is stored  *)
(* wholly or not at all.  The argument: a batch in work is disjoint from   *)
(* every earlier one, its open transaction holds exactly the rows inserted *)
(* so far, and a transaction a failed COMMIT left open can never be        *)
(* committed, because BEGIN refuses to start over it.                      *)
(***************************************************************************)
EXTENDS EventStore, FiniteSetTheorems, TLAPS

(* What is counted is finite. *)
FiniteInv == IsFiniteSet(table) /\ IsFiniteSet(lost)

(* Where pending_ and the batches stand to each other and to the table. *)
BatchInv ==
  /\ IsInjective(pending)
  /\ Range(pending) \subseteq appended
  /\ lost \subseteq appended
  /\ spc = "idle" => Len(pending) < BatchSize
  /\ table \subseteq UNION batches
  /\ \A b \in batches :
       \/ b \cap Range(pending) = {}
       \/ b = Range(pending) /\ spc \in {"insert", "count", "clear"}
  /\ spc = "insert" => Range(pending) \in batches

(* What the open transaction holds. *)
TxnInv ==
  /\ spc = "insert" =>
       /\ row <= Len(pending)
       /\ uncommitted = {pending[i] : i \in 1..row}
  /\ spc = "count" =>
       /\ row = Len(pending)
       /\ Range(pending) \subseteq table
       /\ Range(pending) \cap lost = {}
       /\ appended = lost \cup (table \cap appended)
       /\ stored_ + row = Cardinality(table \cap appended)

(* The inductive invariant. *)
IInv == StoreTypeOK /\ FiniteInv /\ BatchInv /\ TxnInv /\ Accounted /\ BatchAtomic

-----------------------------------------------------------------------------
(* Facts about sequences *)

LEMMA RangeFacts ==
  ASSUME NEW S, NEW s \in Seq(S)
  PROVE  /\ Len(s) \in Nat /\ DOMAIN s = 1..Len(s)
         /\ Range(s) = {s[i] : i \in 1..Len(s)}
         /\ Range(s) \subseteq S
  BY DEF Range

LEMMA RangeEmpty == Range(<<>>) = {} /\ IsInjective(<<>>) /\ Len(<<>>) = 0
  BY DEF Range, IsInjective

(* A new element keeps a sequence without repetitions so. *)
LEMMA RangeAppend ==
  ASSUME NEW S, NEW s \in Seq(S), NEW e \in S
  PROVE  /\ Range(Append(s, e)) = Range(s) \cup {e}
         /\ IsInjective(s) /\ e \notin Range(s) => IsInjective(Append(s, e))
<1> DEFINE t == Append(s, e)
<1>1. /\ t \in Seq(S) /\ Len(t) = Len(s) + 1 /\ Len(s) \in Nat
      /\ \A i \in 1..Len(s) : t[i] = s[i]
      /\ t[Len(s) + 1] = e
      /\ DOMAIN s = 1..Len(s) /\ DOMAIN t = 1..(Len(s) + 1)
  OBVIOUS
<1> HIDE DEF t
<1>2. Range(t) = Range(s) \cup {e}
  BY <1>1 DEF Range
<1>3. ASSUME IsInjective(s), e \notin Range(s),
             NEW i \in DOMAIN t, NEW j \in DOMAIN t, t[i] = t[j]
      PROVE  i = j
  <2>1. CASE i \in 1..Len(s) /\ j \in 1..Len(s)
    BY <1>1, <1>3, <2>1 DEF IsInjective
  <2>2. CASE i = Len(s) + 1 \/ j = Len(s) + 1
    BY <1>1, <1>3, <2>2 DEF Range
  <2> QED
    BY <1>1, <2>1, <2>2
<1> QED
  BY <1>2, <1>3 DEF t, IsInjective

(* A sequence without repetitions has as many elements as it is long. *)
LEMMA RangeCardinality ==
  ASSUME NEW S, NEW s \in Seq(S), IsInjective(s)
  PROVE  IsFiniteSet(Range(s)) /\ Cardinality(Range(s)) = Len(s)
<1>1. Len(s) \in Nat /\ DOMAIN s = 1..Len(s)
  OBVIOUS
<1>2. s \in [1..Len(s) -> Range(s)]
  BY <1>1 DEF Range
<1>3. s \in Bijection(1..Len(s), Range(s))
  BY <1>1, <1>2 DEF Bijection, Injection, Surjection, Range, IsInjective
<1>4. ExistsBijection(1..Len(s), Range(s))
  BY <1>3 DEF ExistsBijection
<1> QED
  BY <1>1, <1>4, FS_NatBijection, FS_CountingElements

LEMMA DisjointUnion ==
  ASSUME NEW S, NEW T, IsFiniteSet(S), IsFiniteSet(T), S \cap T = {}
  PROVE  /\ IsFiniteSet(S \cup T)
         /\ Cardinality(S \cup T) = Cardinality(S) + Cardinality(T)
<1>1. /\ IsFiniteSet(S \cup T)
      /\ Cardinality(S \cup T)
           = Cardinality(S) + Cardinality(T) - Cardinality(S \cap T)
  BY FS_Union
<1>2. Cardinality(S) \in Nat /\ Cardinality(T) \in Nat /\ Cardinality(S \cap T) = 0
  BY FS_CardinalityType, FS_EmptySet
<1> QED
  BY <1>1, <1>2

-----------------------------------------------------------------------------
LEMMA InitIInv == StoreInit => IInv
<1> SUFFICES ASSUME StoreInit PROVE IInv
  OBVIOUS
<1> USE DEF StoreInit
<1>1. StoreTypeOK
  <2>1. pending \in Seq(Events) /\ Len(pending) <= BatchSize
    BY StoreAssumption
  <2>2. faults \in 0..MaxFaults /\ crashes \in 0..MaxCrashes /\ row \in 0..BatchSize
    BY StoreAssumption
  <2>3. usable \in BOOLEAN
    OBVIOUS
  <2> QED
    BY <2>1, <2>2, <2>3, Zenon DEF StoreTypeOK
<1>2. FiniteInv
  BY FS_EmptySet DEF FiniteInv
<1>3. BatchInv
  BY RangeEmpty, StoreAssumption DEF BatchInv
<1>4. TxnInv
  BY DEF TxnInv
<1>5. Accounted
  <2>1. table \cap appended = {}
    OBVIOUS
  <2> QED
    BY <2>1, RangeEmpty, FS_EmptySet DEF Accounted, Settled
<1>6. BatchAtomic
  BY DEF BatchAtomic
<1> QED
  BY <1>1, <1>2, <1>3, <1>4, <1>5, <1>6 DEF IInv

(* A batch given up: its events were accepted, are not stored, and each is *)
(* counted once.                                                           *)
LEMMA GiveUpCounts ==
  ASSUME IInv, spc \in {"begin", "insert"}, GiveUp,
         UNCHANGED <<pending, table, stored_, appended>>
  PROVE  /\ failed_' \in Nat /\ lost' \subseteq Events /\ spc' = "clear"
         /\ IsFiniteSet(lost')
         /\ lost' \subseteq appended'
         /\ Accounted'
<1>1. /\ pending \in Seq(Events) /\ IsInjective(pending) /\ failed_ \in Nat
      /\ IsFiniteSet(lost) /\ lost \subseteq Events /\ lost \subseteq appended
      /\ Range(pending) \subseteq appended
  BY DEF IInv, StoreTypeOK, FiniteInv, BatchInv
<1>2. /\ appended = Range(pending) \cup lost \cup (table \cap appended)
      /\ Range(pending) \cap (lost \cup table) = {}
      /\ stored_ = Cardinality(table \cap appended)
      /\ lost \cap table = {} /\ failed_ = Cardinality(lost)
  BY DEF IInv, Accounted, Settled
<1>3. Range(pending) \subseteq Events /\ Len(pending) \in Nat
  BY <1>1, RangeFacts
<1>4. IsFiniteSet(Range(pending)) /\ Cardinality(Range(pending)) = Len(pending)
  BY <1>1, RangeCardinality
<1>5. lost \cap Range(pending) = {}
  BY <1>2
<1>6. IsFiniteSet(lost \cup Range(pending))
      /\ Cardinality(lost \cup Range(pending)) = failed_ + Len(pending)
  BY <1>1, <1>2, <1>4, <1>5, DisjointUnion
<1>7. Accounted'
  BY <1>2, <1>6 DEF GiveUp, Accounted, Settled
<1> QED
  BY <1>1, <1>3, <1>6, <1>7 DEF GiveUp

-----------------------------------------------------------------------------
(* Every step keeps the inductive invariant *)

LEMMA AppendStep ==
  ASSUME IInv, NEW e \in Events \ Used, Append_(e)
  PROVE  IInv'
<1> USE DEF Append_, StoreIdle, openvars
<1>1. /\ pending \in Seq(Events) /\ Len(pending) < BatchSize /\ BatchSize \in Nat
      /\ IsInjective(pending) /\ Range(pending) \subseteq appended
  BY StoreAssumption DEF IInv, StoreTypeOK, BatchInv
<1>2. /\ e \notin appended /\ e \notin table
      /\ e \notin Range(pending) /\ e \notin lost
      /\ \A b \in batches : e \notin b
  BY DEF IInv, BatchInv, Used
<1>3. /\ pending' \in Seq(Events) /\ Len(pending') = Len(pending) + 1
      /\ Range(pending') = Range(pending) \cup {e} /\ IsInjective(pending')
  BY <1>1, <1>2, RangeAppend
<1>4. Len(pending') <= BatchSize /\ (spc' = "idle" => Len(pending') < BatchSize)
  BY <1>1, <1>3
<1>5. StoreTypeOK'
  BY <1>3, <1>4 DEF IInv, StoreTypeOK
<1>6. FiniteInv'
  BY DEF IInv, FiniteInv
<1>7. BatchInv'
  BY <1>2, <1>3, <1>4 DEF IInv, BatchInv
<1>8. TxnInv'
  BY DEF IInv, TxnInv
<1>9. Accounted'
  <2>1. table \cap appended' = table \cap appended
    BY <1>2
  <2> QED
    BY <1>2, <1>3, <2>1 DEF IInv, Accounted, Settled
<1>10. BatchAtomic'
  BY DEF IInv, BatchAtomic
<1> QED
  BY <1>5, <1>6, <1>7, <1>8, <1>9, <1>10 DEF IInv

LEMMA DiscardStep ==
  ASSUME IInv, NEW e \in Events \ Used, Discard(e)
  PROVE  IInv'
<1> USE DEF Discard, StoreIdle
<1>1. StoreTypeOK'
  BY DEF IInv, StoreTypeOK
<1>2. FiniteInv' /\ BatchInv' /\ TxnInv'
  BY DEF IInv, FiniteInv, BatchInv, TxnInv
<1>3. Accounted' /\ BatchAtomic'
  BY DEF IInv, Accounted, Settled, BatchAtomic
<1> QED
  BY <1>1, <1>2, <1>3 DEF IInv

LEMMA FlushStep ==
  ASSUME IInv, Flush
  PROVE  IInv'
<1> USE DEF Flush, StoreIdle, openvars
<1>1. StoreTypeOK'
  BY DEF IInv, StoreTypeOK
<1>2. FiniteInv' /\ BatchInv' /\ TxnInv'
  BY DEF IInv, FiniteInv, BatchInv, TxnInv
<1>3. Accounted' /\ BatchAtomic'
  BY DEF IInv, Accounted, Settled, BatchAtomic
<1> QED
  BY <1>1, <1>2, <1>3 DEF IInv

LEMMA BeginStep ==
  ASSUME IInv, Begin
  PROVE  IInv'
<1> USE DEF Begin, openvars
<1>1. pending \in Seq(Events) /\ Range(pending) \subseteq Events /\ Len(pending) \in Nat
  BY RangeFacts DEF IInv, StoreTypeOK
<1>2. Range(pending) \cap table = {}
  BY DEF IInv, Accounted, Settled
<1>3. StoreTypeOK'
  BY <1>1, StoreAssumption DEF IInv, StoreTypeOK
<1>4. FiniteInv'
  BY DEF IInv, FiniteInv
<1>5. BatchInv'
  BY DEF IInv, BatchInv
<1>6. TxnInv'
  <2>1. uncommitted' = {pending'[i] : i \in 1..row'} /\ row' <= Len(pending')
    BY <1>1
  <2> QED
    BY <2>1 DEF TxnInv
<1>7. Accounted'
  BY DEF IInv, Accounted, Settled
<1>8. BatchAtomic'
  BY <1>2 DEF IInv, BatchAtomic
<1> QED
  BY <1>3, <1>4, <1>5, <1>6, <1>7, <1>8 DEF IInv

LEMMA InsertStep ==
  ASSUME IInv, Insert
  PROVE  IInv'
<1> USE DEF Insert, openvars
<1>1. /\ pending \in Seq(Events) /\ Len(pending) \in Nat /\ Len(pending) <= BatchSize
      /\ row \in Nat /\ BatchSize \in Nat /\ DOMAIN pending = 1..Len(pending)
  BY StoreAssumption DEF IInv, StoreTypeOK
<1>2. row + 1 \in 1..Len(pending) /\ row' = row + 1
  BY <1>1
<1>3. pending[row + 1] \in Events
  BY <1>1, <1>2
<1>4. uncommitted' = {pending[i] : i \in 1..row'}
  <2>1. 1..(row + 1) = (1..row) \cup {row + 1}
    BY <1>1
  <2>2. uncommitted = {pending[i] : i \in 1..row}
    BY DEF IInv, TxnInv
  <2> QED
    BY <1>2, <2>1, <2>2
<1>5. StoreTypeOK'
  <2>1. row' \in 0..BatchSize /\ uncommitted' \subseteq Events
    BY <1>1, <1>2, <1>3 DEF IInv, StoreTypeOK
  <2> QED
    BY <2>1 DEF IInv, StoreTypeOK
<1>6. FiniteInv' /\ BatchInv'
  BY DEF IInv, FiniteInv, BatchInv
<1>7. TxnInv'
  BY <1>1, <1>2, <1>4 DEF TxnInv
<1>8. Accounted' /\ BatchAtomic'
  BY DEF IInv, Accounted, Settled, BatchAtomic
<1> QED
  BY <1>5, <1>6, <1>7, <1>8 DEF IInv

(* The three ways a batch is given up. *)
LEMMA GiveUpStep ==
  ASSUME IInv, BeginFails \/ InsertFails \/ CommitFails
  PROVE  IInv'
<1> USE DEF BeginFails, InsertFails, CommitFails, openvars
<1>1. /\ spc \in {"begin", "insert"} /\ GiveUp
      /\ UNCHANGED <<pending, table, stored_, appended, row, crashes, usable, discarded>>
  OBVIOUS
<1>2. /\ failed_' \in Nat /\ lost' \subseteq Events /\ spc' = "clear"
      /\ IsFiniteSet(lost') /\ lost' \subseteq appended' /\ Accounted'
  BY <1>1, GiveUpCounts
<1>3. pending \in Seq(Events) /\ Range(pending) \subseteq Events
  BY RangeFacts DEF IInv, StoreTypeOK
<1>4. Range(pending) \cap table = {}
  BY <1>1 DEF IInv, Accounted, Settled
<1>5. batches' \in {batches, batches \cup {Range(pending)}}
  OBVIOUS
<1>6. StoreTypeOK'
  <2>1. faults' \in 0..MaxFaults
    BY StoreAssumption DEF IInv, StoreTypeOK
  <2>2. txn' \in BOOLEAN /\ uncommitted' \subseteq Events
    BY DEF IInv, StoreTypeOK
  <2>3. batches' \subseteq SUBSET Events
    BY <1>3, <1>5 DEF IInv, StoreTypeOK
  <2> QED
    BY <1>1, <1>2, <2>1, <2>2, <2>3 DEF IInv, StoreTypeOK
<1>7. FiniteInv'
  BY <1>1, <1>2 DEF IInv, FiniteInv
<1>8. BatchInv'
  <2>1. table' \subseteq UNION batches'
    BY <1>1, <1>5 DEF IInv, BatchInv
  <2>2. \A b \in batches' : b \cap Range(pending) = {} \/ b = Range(pending)
    BY <1>5 DEF IInv, BatchInv
  <2> QED
    BY <1>1, <1>2, <2>1, <2>2 DEF IInv, BatchInv
<1>9. TxnInv'
  BY <1>2 DEF TxnInv
<1>10. BatchAtomic'
  BY <1>1, <1>4, <1>5 DEF IInv, BatchAtomic
<1> QED
  BY <1>2, <1>6, <1>7, <1>8, <1>9, <1>10 DEF IInv

LEMMA CommitStep ==
  ASSUME IInv, Commit
  PROVE  IInv'
<1> USE DEF Commit, openvars
<1>1. /\ pending \in Seq(Events) /\ IsInjective(pending) /\ Len(pending) \in Nat
      /\ Range(pending) = {pending[i] : i \in 1..Len(pending)}
      /\ Range(pending) \subseteq Events
  BY RangeFacts DEF IInv, StoreTypeOK, BatchInv
<1>2. IsFiniteSet(Range(pending)) /\ Cardinality(Range(pending)) = Len(pending)
  BY <1>1, RangeCardinality
<1>3. row = Len(pending) /\ uncommitted = Range(pending)
  BY <1>1 DEF IInv, TxnInv
<1>4. table' = table \cup Range(pending)
  BY <1>3
<1>5. /\ appended = Range(pending) \cup lost \cup (table \cap appended)
      /\ Range(pending) \cap (lost \cup table) = {}
      /\ stored_ = Cardinality(table \cap appended)
      /\ lost \cap table = {} /\ failed_ = Cardinality(lost)
  BY DEF IInv, Accounted, Settled
<1>6. StoreTypeOK'
  BY <1>1, <1>4 DEF IInv, StoreTypeOK
<1>7. FiniteInv'
  BY <1>2, <1>4, FS_Union DEF IInv, FiniteInv
<1>8. BatchInv'
  <2>1. Range(pending) \in batches
    BY DEF IInv, BatchInv
  <2> QED
    BY <1>4, <2>1 DEF IInv, BatchInv
<1>9. TxnInv'
  <2>1. table' \cap appended = (table \cap appended) \cup Range(pending)
    BY <1>4, <1>5
  <2>2. IsFiniteSet(table \cap appended)
    BY FS_Intersection DEF IInv, FiniteInv
  <2>3. (table \cap appended) \cap Range(pending) = {}
    BY <1>5
  <2>4. Cardinality(table' \cap appended) = stored_ + Len(pending)
    BY <1>2, <1>5, <2>1, <2>2, <2>3, DisjointUnion
  <2>5. appended = lost \cup (table' \cap appended)
    BY <1>5, <2>1
  <2> QED
    BY <1>3, <1>4, <1>5, <2>4, <2>5 DEF TxnInv
<1>10. Accounted'
  BY <1>4, <1>5 DEF Accounted
<1>11. BatchAtomic'
  BY <1>4 DEF IInv, BatchInv, BatchAtomic
<1> QED
  BY <1>6, <1>7, <1>8, <1>9, <1>10, <1>11 DEF IInv

LEMMA CountStoredStep ==
  ASSUME IInv, CountStored
  PROVE  IInv'
<1> USE DEF CountStored, openvars
<1>1. StoreTypeOK'
  <2>1. stored_' \in Nat
    BY StoreAssumption DEF IInv, StoreTypeOK
  <2> QED
    BY <2>1 DEF IInv, StoreTypeOK
<1>2. FiniteInv' /\ BatchInv' /\ TxnInv'
  BY DEF IInv, FiniteInv, BatchInv, TxnInv
<1>3. Accounted'
  BY DEF IInv, TxnInv, Accounted, Settled
<1>4. BatchAtomic'
  BY DEF IInv, BatchAtomic
<1> QED
  BY <1>1, <1>2, <1>3, <1>4 DEF IInv

LEMMA ClearStep ==
  ASSUME IInv, Clear
  PROVE  IInv'
<1> USE DEF Clear, openvars
<1>1. pending' \in Seq(Events) /\ Len(pending') < BatchSize /\ row' \in 0..BatchSize
  BY RangeEmpty, StoreAssumption
<1>2. StoreTypeOK'
  BY <1>1, StoreAssumption DEF IInv, StoreTypeOK
<1>3. FiniteInv' /\ BatchInv' /\ TxnInv'
  BY <1>1, RangeEmpty DEF IInv, FiniteInv, BatchInv, TxnInv
<1>4. Accounted' /\ BatchAtomic'
  BY RangeEmpty DEF IInv, Accounted, Settled, BatchAtomic
<1> QED
  BY <1>2, <1>3, <1>4 DEF IInv

(* A kill: the histories of the process start anew, the table stays. *)
LEMMA CrashStep ==
  ASSUME IInv, Crash
  PROVE  IInv'
<1> USE DEF Crash
<1>1. pending' \in Seq(Events) /\ Len(pending') < BatchSize
  BY RangeEmpty, StoreAssumption
<1>2. StoreTypeOK'
  <2>1. faults' \in 0..MaxFaults /\ crashes' \in 0..MaxCrashes /\ row' \in 0..BatchSize
    BY StoreAssumption DEF IInv, StoreTypeOK
  <2>2. usable' \in BOOLEAN
    OBVIOUS
  <2>3. Len(pending') <= BatchSize
    BY RangeEmpty, StoreAssumption
  <2>4. /\ stored_' \in Nat /\ failed_' \in Nat /\ pending' = <<>>
        /\ uncommitted' \subseteq Events /\ appended' \subseteq Events
        /\ lost' \subseteq Events /\ txn' \in BOOLEAN
        /\ table' \subseteq Events /\ batches' \subseteq SUBSET Events
        /\ discarded' \subseteq Events
        /\ spc' \in {"idle", "begin", "insert", "count", "clear"}
    BY DEF IInv, StoreTypeOK
  <2> QED
    BY <1>1, <2>1, <2>2, <2>3, <2>4, Zenon DEF StoreTypeOK
<1>3. FiniteInv'
  BY FS_EmptySet DEF IInv, FiniteInv
<1>4. BatchInv' /\ TxnInv'
  BY <1>1, RangeEmpty DEF IInv, BatchInv, TxnInv
<1>5. Accounted'
  <2>1. table' \cap appended' = {} /\ Cardinality({}) = 0
    BY FS_EmptySet
  <2> QED
    BY <2>1, RangeEmpty DEF Accounted, Settled
<1>6. BatchAtomic'
  BY DEF IInv, BatchAtomic
<1> QED
  BY <1>2, <1>3, <1>4, <1>5, <1>6 DEF IInv

LEMMA StutterStep ==
  ASSUME IInv, UNCHANGED svars
  PROVE  IInv'
<1> USE DEF svars, openvars
<1>1. StoreTypeOK' /\ FiniteInv'
  BY DEF IInv, StoreTypeOK, FiniteInv
<1>2. BatchInv' /\ TxnInv'
  BY DEF IInv, BatchInv, TxnInv
<1>3. Accounted' /\ BatchAtomic'
  BY DEF IInv, Accounted, Settled, BatchAtomic
<1> QED
  BY <1>1, <1>2, <1>3 DEF IInv

LEMMA StepIInv == IInv /\ [Next]_svars => IInv'
<1> SUFFICES ASSUME IInv, [Next]_svars PROVE IInv'
  OBVIOUS
<1>1. ASSUME NEW e \in Events \ Used, Append_(e) \/ Discard(e) PROVE IInv'
  BY <1>1, AppendStep, DiscardStep
<1>2. CASE Flush
  BY <1>2, FlushStep
<1>3. CASE WriteBatch
  BY <1>3, BeginStep, InsertStep, GiveUpStep, CommitStep, CountStoredStep, ClearStep
     DEF WriteBatch
<1>4. CASE Crash
  BY <1>4, CrashStep
<1>5. CASE UNCHANGED svars
  BY <1>5, StutterStep
<1> QED
  BY <1>1, <1>2, <1>3, <1>4, <1>5 DEF Next

LEMMA Invariance == Spec => []IInv
  BY InitIInv, StepIInv, PTL DEF Spec

(***************************************************************************)
(* Whatever calls of SQLite fail and whenever the process is killed, every *)
(* accepted event is pending, committed or given up, in exactly one of     *)
(* these, and the counters of WriteBatch say how many.                     *)
(***************************************************************************)
THEOREM StoreInvariant == Spec => []StoreInv
<1>1. IInv => StoreInv
  BY DEF IInv, StoreInv
<1> QED
  BY <1>1, Invariance, PTL

(***************************************************************************)
(* The transaction of WriteBatch makes a batch atomic, also when a COMMIT  *)
(* that failed leaves it open and when the process is killed.              *)
(***************************************************************************)
THEOREM BatchesAreAtomic == Spec => []BatchAtomic
<1>1. IInv => BatchAtomic
  BY DEF IInv
<1> QED
  BY <1>1, Invariance, PTL
=============================================================================
