----------------------------- MODULE EventStore -----------------------------
(***************************************************************************)
(* The batched SQLite store of telemetry events (storage/event_store.cpp). *)
(* One thread appends rendered events to pending_; a batch is written in   *)
(* one transaction when it is full, when it is due, or on a forced flush.  *)
(* WriteBatch is split at every SQLite call, because each may fail and     *)
(* because a crash or a reader may come in between.  After a failure the   *)
(* batch is given up: Flush clears pending_ whatever WriteBatch did.       *)
(* SQLite itself is modelled by one connection: an open transaction with   *)
(* its uncommitted rows, and the committed table.                          *)
(***************************************************************************)
EXTENDS Naturals, Sequences, FiniteSets, Functions

CONSTANTS
  Events,        (* the events that may be appended                 *)
  BatchSize,     (* batch_size_, at least 1                         *)
  MaxFaults,     (* bound: SQLite calls that fail by themselves     *)
  MaxCrashes     (* bound: times the process is killed and restarted *)

ASSUME StoreAssumption ==
  BatchSize \in Nat \ {0} /\ MaxFaults \in Nat /\ MaxCrashes \in Nat

VARIABLES
  pending,       (* pending_                                        *)
  spc,           (* where Flush stands                              *)
  row,           (* rows of the batch inserted so far: batch_stored *)
  txn,           (* SQLite: a transaction is open                   *)
  uncommitted,   (* SQLite: the rows of the open transaction        *)
  table,         (* SQLite: the committed rows                      *)
  stored_, failed_,      (* the counters                            *)
  appended,      (* history: events accepted by this process        *)
  lost,          (* history: events of the batches given up         *)
  batches,       (* history: every batch Flush started to write     *)
  faults, crashes,
  usable,        (* insert_stmt_: the INSERT could be prepared      *)
  discarded      (* history: events Append returned without taking  *)

openvars == <<usable, discarded>>
svars == <<pending, spc, row, txn, uncommitted, table, stored_, failed_,
           appended, lost, batches, faults, crashes, openvars>>

(* The database is open; the INSERT may still fail to be prepared (a table *)
(* of other columns), which ok() does not tell.                            *)
StoreInit ==
  /\ pending = <<>> /\ spc = "idle" /\ row = 0
  /\ txn = FALSE /\ uncommitted = {} /\ table = {}
  /\ stored_ = 0 /\ failed_ = 0
  /\ appended = {} /\ lost = {} /\ batches = {}
  /\ crashes = 0 /\ discarded = {}
  /\ \/ usable = TRUE /\ faults = 0
     \/ usable = FALSE /\ faults = 1 /\ MaxFaults > 0

-----------------------------------------------------------------------------
(* Calls of the owner of the store *)

StoreIdle == spc = "idle"

(* pending_ reaching batch_size_ flushes at once *)
Append_(e) ==
  /\ StoreIdle /\ usable
  /\ pending' = Append(pending, e)
  /\ appended' = appended \cup {e}
  /\ spc' = IF Len(pending) + 1 >= BatchSize THEN "begin" ELSE "idle"
  /\ UNCHANGED <<row, txn, uncommitted, table, stored_, failed_, lost,
                 batches, faults, crashes, openvars>>

(* without a prepared INSERT the event is dropped, and counted nowhere *)
Discard(e) ==
  /\ StoreIdle /\ ~usable
  /\ discarded' = discarded \cup {e}
  /\ UNCHANGED <<pending, spc, row, txn, uncommitted, table, stored_, failed_,
                 appended, lost, batches, faults, crashes, usable>>

(* FlushIfDue when the batch is due, and the forced Flush of the shutdown *)
Flush ==
  /\ StoreIdle
  /\ pending # <<>>
  /\ spc' = "begin"
  /\ UNCHANGED <<pending, row, txn, uncommitted, table, stored_, failed_,
                 appended, lost, batches, faults, crashes, openvars>>

-----------------------------------------------------------------------------
(* WriteBatch *)

(* the batch is given up: counted, and cleared by Flush *)
GiveUp ==
  /\ failed_' = failed_ + Len(pending)
  /\ lost' = lost \cup Range(pending)
  /\ spc' = "clear"

Begin ==
  /\ spc = "begin"
  /\ ~txn
  /\ txn' = TRUE
  /\ uncommitted' = {}
  /\ row' = 0
  /\ spc' = "insert"
  /\ batches' = batches \cup {Range(pending)}
  /\ UNCHANGED <<pending, table, stored_, failed_, appended, lost, faults, crashes, openvars>>

(* BEGIN fails by itself, or because a transaction is still open *)
BeginFails ==
  /\ spc = "begin"
  /\ \/ txn /\ UNCHANGED faults
     \/ faults < MaxFaults /\ faults' = faults + 1
  /\ GiveUp
  /\ batches' = batches \cup {Range(pending)}
  /\ UNCHANGED <<pending, row, txn, uncommitted, table, stored_, appended, crashes, openvars>>

Insert ==
  /\ spc = "insert"
  /\ row < Len(pending)
  /\ uncommitted' = uncommitted \cup {pending[row + 1]}
  /\ row' = row + 1
  /\ UNCHANGED <<pending, spc, txn, table, stored_, failed_, appended, lost,
                 batches, faults, crashes, openvars>>

(* Mutant: only the rows already inserted are counted as lost. *)
InsertFails_CountsRows ==
  /\ spc = "insert"
  /\ row < Len(pending)
  /\ faults < MaxFaults /\ faults' = faults + 1
  /\ txn' = FALSE /\ uncommitted' = {}
  /\ failed_' = failed_ + row
  /\ lost' = lost \cup Range(pending)
  /\ spc' = "clear"
  /\ UNCHANGED <<pending, row, table, stored_, appended, batches, crashes, openvars>>

(* Mutant: after a failed insert the rows before it are committed. *)
InsertFails_CommitsRest ==
  /\ spc = "insert"
  /\ row < Len(pending)
  /\ faults < MaxFaults /\ faults' = faults + 1
  /\ table' = table \cup uncommitted
  /\ txn' = FALSE /\ uncommitted' = {}
  /\ GiveUp
  /\ UNCHANGED <<pending, row, stored_, appended, batches, crashes, openvars>>

(* a failed insert rolls the whole batch back *)
InsertFails ==
  /\ spc = "insert"
  /\ row < Len(pending)
  /\ faults < MaxFaults /\ faults' = faults + 1
  /\ txn' = FALSE /\ uncommitted' = {}
  /\ GiveUp
  /\ UNCHANGED <<pending, row, table, stored_, appended, batches, crashes, openvars>>

Commit ==
  /\ spc = "insert"
  /\ row = Len(pending)
  /\ table' = table \cup uncommitted
  /\ txn' = FALSE /\ uncommitted' = {}
  /\ spc' = "count"
  /\ UNCHANGED <<pending, row, stored_, failed_, appended, lost, batches,
                 faults, crashes, openvars>>

(* A COMMIT that fails may leave the transaction open (SQLITE_BUSY) or have *)
(* rolled it back (disk full, I/O error); WriteBatch issues no ROLLBACK.    *)
CommitFails ==
  /\ spc = "insert"
  /\ row = Len(pending)
  /\ faults < MaxFaults /\ faults' = faults + 1
  /\ \/ UNCHANGED <<txn, uncommitted>>
     \/ txn' = FALSE /\ uncommitted' = {}
  /\ GiveUp
  /\ UNCHANGED <<pending, row, table, stored_, appended, batches, crashes, openvars>>

CountStored ==
  /\ spc = "count"
  /\ stored_' = stored_ + row
  /\ spc' = "clear"
  /\ UNCHANGED <<pending, row, txn, uncommitted, table, failed_, appended,
                 lost, batches, faults, crashes, openvars>>

Clear ==
  /\ spc = "clear"
  /\ pending' = <<>>
  /\ spc' = "idle"
  /\ row' = 0
  /\ UNCHANGED <<txn, uncommitted, table, stored_, failed_, appended, lost,
                 batches, faults, crashes, openvars>>

WriteBatch == \/ Begin \/ BeginFails \/ Insert \/ InsertFails
              \/ Commit \/ CommitFails \/ CountStored \/ Clear

(* The process dies; SQLite recovers the committed rows at the next start, *)
(* which opens the database and prepares the INSERT anew.                  *)
Crash ==
  /\ crashes < MaxCrashes
  /\ crashes' = crashes + 1
  /\ pending' = <<>> /\ spc' = "idle" /\ row' = 0
  /\ txn' = FALSE /\ uncommitted' = {}
  /\ stored_' = 0 /\ failed_' = 0
  /\ appended' = {} /\ lost' = {}
  /\ \/ usable' = TRUE /\ UNCHANGED faults
     \/ usable' = FALSE /\ faults < MaxFaults /\ faults' = faults + 1
  /\ UNCHANGED <<table, batches, discarded>>

-----------------------------------------------------------------------------
(* The store with an owner that appends every event at most once. *)
Used == appended \cup discarded \cup UNION batches

Next ==
  \/ \E e \in Events \ Used : Append_(e) \/ Discard(e)
  \/ Flush
  \/ WriteBatch
  \/ Crash

Spec == StoreInit /\ [][Next]_svars

-----------------------------------------------------------------------------
(* Properties *)

(* Each variable holds what the code keeps in it. *)
StoreTypeOK ==
  /\ pending \in Seq(Events) /\ Len(pending) <= BatchSize
  /\ spc \in {"idle", "begin", "insert", "count", "clear"}
  /\ row \in 0..BatchSize
  /\ txn \in BOOLEAN
  /\ uncommitted \subseteq Events /\ table \subseteq Events
  /\ stored_ \in Nat /\ failed_ \in Nat
  /\ appended \subseteq Events /\ lost \subseteq Events
  /\ batches \subseteq SUBSET Events
  /\ faults \in 0..MaxFaults /\ crashes \in 0..MaxCrashes
  /\ usable \in BOOLEAN /\ (~usable => pending = <<>>)
  /\ discarded \subseteq Events

(***************************************************************************)
(* Every accepted event is pending, committed or given up, in exactly one  *)
(* of these; and the counters say how many ("counted only after COMMIT").  *)
(***************************************************************************)
Settled == IF spc = "clear" THEN {} ELSE Range(pending)

Accounted ==
  /\ spc # "count" =>
       /\ appended = Settled \cup lost \cup (table \cap appended)
       /\ Settled \cap (lost \cup table) = {}
       /\ stored_ = Cardinality(table \cap appended)
  /\ lost \cap table = {}
  /\ failed_ = Cardinality(lost)

(* What holds of the store between any two SQLite calls, also after one     *)
(* that failed or a kill: types and the fate of every accepted event.       *)
StoreInv == StoreTypeOK /\ Accounted

(* A batch is stored wholly or not at all, through failures and crashes. *)
BatchAtomic ==
  \A b \in batches : b \cap table = {} \/ b \subseteq table

=============================================================================
