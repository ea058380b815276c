------------------------ MODULE BaselineStore_proofs ------------------------
(***************************************************************************)
(* Theorems about the baseline database: type correctness, the audit trail *)
(* that accounts for every entry, no loss of an entry whose file is there, *)
(* snapshots that are all or nothing, counted and take effect, and the     *)
(* refinement of BaselineLedger, for any number of processes, paths,       *)
(* versions and commands.                                                  *)
(***************************************************************************)
EXTENDS BaselineStore, Integers, FiniteSetTheorems, TLAPS

(* A process that runs has a run number. *)
Numbered == \A p \in Procs : pc[p] # "idle" => id[p] \in Runs

TypeInv == TypeOK /\ Numbered

-----------------------------------------------------------------------------
(* Databases *)

(* The content before a transaction, and after one was given up, has its type. *)
LEMMA EmptyType == EmptyDatabase \in Database
  <1>1. [f \in Paths |-> NoEntry] \in Entries
    BY DEF NoEntry, Entries, Value
  <1>2. [f \in Paths |-> <<>>] \in [Paths -> Seq(Changes)]
    OBVIOUS
  <1>3. [r \in Runs |-> NoStats] \in [Runs -> Counters]
    BY DEF NoStats, Counters
  <1> QED BY <1>1, <1>2, <1>3 DEF EmptyDatabase, Database

(* Copying the old table's rows (InitTable) keeps the type. *)
LEMMA MigratedType ==
  ASSUME NEW d \in Database, legacy \in [Paths -> Value]
  PROVE  Migrated(d) \in Database
  <1>1. [f \in Paths |-> IF ~Has(d.entries, f) /\ legacy[f] # Absent
                           THEN [ver |-> legacy[f], legacy |-> TRUE]
                           ELSE d.entries[f]] \in Entries
    BY DEF Database, Entries
  <1> QED BY <1>1 DEF Migrated, Database

(* An audited change of an entry (write_audit with write_entry or           *)
(* delete_entry) keeps the type.                                            *)
LEMMA AuditedType ==
  ASSUME NEW d \in Database, NEW p \in Procs, NEW f \in Paths,
         NEW type \in {"added", "modified", "removed", "delete"},
         NEW entry \in [ver : Value, legacy : BOOLEAN],
         current[p] \in Entries, id[p] \in Runs
  PROVE  Audited(d, p, f, type, entry) \in Database
  <1> DEFINE rec == [type |-> type, old |-> current[p][f].ver,
                     new |-> entry.ver, run |-> id[p]]
  <1>1. rec \in Changes
    BY DEF Changes, Entries
  <1>2. Append(d.audit[f], rec) \in Seq(Changes)
    BY <1>1 DEF Database
  <1>3. [d.audit EXCEPT ![f] = Append(@, rec)] \in [Paths -> Seq(Changes)]
    BY <1>2 DEF Database
  <1>4. [d.entries EXCEPT ![f] = entry] \in Entries
    BY DEF Database, Entries
  <1> HIDE DEF rec
  <1>5. [d EXCEPT !.audit[f] = Append(@, rec), !.entries[f] = entry] \in Database
    BY <1>3, <1>4 DEF Database
  <1> QED BY <1>5 DEF Audited, rec

(* Writing the snapshot's row at COMMIT keeps the type. *)
LEMMA ClosedType ==
  ASSUME NEW d \in Database, NEW p \in Procs, id[p] \in Runs, stats[p] \in Counters
  PROVE  Closed(d, p) \in Database
  <1>1. [d.snapshots EXCEPT ![id[p]] = stats[p]] \in [Runs -> Counters]
    BY DEF Database
  <1>2. d.done \cup {id[p]} \in SUBSET Runs
    BY DEF Database
  <1> QED BY <1>1, <1>2 DEF Closed, Database

(* Counting keeps the type of a snapshot's counters. *)
LEMMA CountedType ==
  ASSUME NEW s \in Counters, NEW field \in {"added", "modified", "removed", "unchanged"}
  PROVE  Counted(s, field) \in Counters
  BY DEF Counted, Counters

-----------------------------------------------------------------------------
(* Types of a step *)

(* The programme, operation and counters of one process after its end keep *)
(* their types.                                                             *)
LEMMA FinishType ==
  ASSUME TypeInv, NEW p \in Procs, Finish(p)
  PROVE  /\ pc' \in [Procs -> {"idle", "collect", "read", "begin", "write", "select",
                               "list", "examine", "report", "rules"}]
         /\ op' \in [Procs -> Operation] /\ id' \in [Procs -> 0..MaxRuns]
         /\ todo' \in [Procs -> SUBSET Paths] /\ hit' \in [Procs -> SUBSET Paths]
         /\ seen' \in [Procs -> [Paths -> Value]] /\ current' \in [Procs -> Entries]
         /\ stats' \in [Procs -> Counters]
         /\ Numbered'
<1>1. NoOp \in Operation
  BY DEF NoOp, Operation, Kinds
<1>2. NoStats \in Counters
  BY DEF NoStats, Counters
<1>3. [f \in Paths |-> NoEntry] \in Entries /\ [f \in Paths |-> Absent] \in [Paths -> Value]
  BY DEF NoEntry, Entries, Value
<1>4. MaxRuns \in Nat
  BY BaselineStoreAssumption
<1>5. /\ pc' \in [Procs -> {"idle", "collect", "read", "begin", "write", "select",
                            "list", "examine", "report", "rules"}]
      /\ id' \in [Procs -> 0..MaxRuns]
      /\ todo' \in [Procs -> SUBSET Paths] /\ hit' \in [Procs -> SUBSET Paths]
  BY <1>4 DEF Finish, TypeInv, TypeOK
<1>6. op' \in [Procs -> Operation] /\ stats' \in [Procs -> Counters]
  BY <1>1, <1>2 DEF Finish, TypeInv, TypeOK
<1>7. seen' \in [Procs -> [Paths -> Value]] /\ current' \in [Procs -> Entries]
  BY <1>3 DEF Finish, TypeInv, TypeOK
<1>8. Numbered'
  BY DEF Finish, TypeInv, TypeOK, Numbered
<1>9. QED
  BY <1>5, <1>6, <1>7, <1>8

(* Telling the other processes what changed keeps the histories' types. *)
LEMMA NoteType ==
  ASSUME TypeInv, NEW p, NEW paths \in SUBSET Paths, Note(p, paths)
  PROVE  touched' \in [Procs -> SUBSET Paths]
  BY DEF Note, TypeInv, TypeOK

(* What a SELECT returned are entries, and those it did not reach none. *)
LEMMA RowsType ==
  ASSUME NEW entries \in Entries, NEW held \in SUBSET Paths
  PROVE  /\ Rows(entries, held) \in Entries
         /\ \A f \in Paths : Rows(entries, held)[f] = IF f \in held THEN entries[f] ELSE NoEntry
  BY DEF Rows, NoEntry, Entries, Value

(* A SELECT that is cut off counts as an upset, within their bound. *)
LEMMA FetchedUpsets ==
  ASSUME TypeInv, NEW held, NEW rows, Fetched(held, rows)
  PROVE  upsets' \in 0..MaxUpsets
  BY BaselineStoreAssumption DEF Fetched, TypeInv, TypeOK

(* What ReadCurrent keeps of the rows it was given. *)
ReadRows(p, rows) ==
  /\ current' = [current EXCEPT ![p] = rows]
  /\ stats' = [stats EXCEPT ![p] =
                 [NoStats EXCEPT !.scanned = Cardinality(Found(p)),
                                 !.removed = Cardinality(Missing(p, rows))]]
  /\ todo' = [todo EXCEPT ![p] = Found(p) \cup Missing(p, rows)]

(* ReadCurrent reads some of the committed rows. *)
LEMMA ReadPicks ==
  ASSUME NEW p \in Procs, ReadCurrent(p)
  PROVE  \E held \in SUBSET Held(db.entries) : ReadRows(p, Rows(db.entries, held))
<1>1. PICK held \in SUBSET Held(db.entries) :
        LET rows == Rows(db.entries, held)
        IN  /\ current' = [current EXCEPT ![p] = rows]
            /\ stats' = [stats EXCEPT ![p] =
                           [NoStats EXCEPT !.scanned = Cardinality(Found(p)),
                                           !.removed = Cardinality(Missing(p, rows))]]
            /\ todo' = [todo EXCEPT ![p] = Found(p) \cup Missing(p, rows)]
  BY Zenon DEF ReadCurrent
<1>2. ReadRows(p, Rows(db.entries, held))
  BY <1>1, Zenon DEF ReadRows
<1>3. QED
  BY <1>2

(* What else ReadCurrent, the SELECT of the victims and the listing of all  *)
(* entries do.                                                              *)
LEMMA ReadFacts ==
  ASSUME NEW p \in Procs, ReadCurrent(p)
  PROVE  /\ pc[p] = "read" /\ pc' = [pc EXCEPT ![p] = "begin"] /\ Quiet
         /\ UNCHANGED <<disk, legacy, db, tx, writer, op, id, seen, hit, alerts, lost, runs>>
         /\ \E S : todo' = [todo EXCEPT ![p] = S]
<1>1. \E S : todo' = [todo EXCEPT ![p] = S]
  BY Zenon, ReadPicks DEF ReadRows
<1>2. QED
  BY <1>1, Zenon DEF ReadCurrent

LEMMA SelectFacts ==
  ASSUME NEW p \in Procs, Select(p)
  PROVE  /\ pc[p] = "select" /\ Quiet
         /\ UNCHANGED <<disk, legacy, db, tx, writer, alerts, lost, runs>>
         /\ \/ Finish(p)
            \/ \E S \in SUBSET (hit[p] \cap Held(db.entries)) :
                 /\ S # {} /\ current' = [current EXCEPT ![p] = Rows(db.entries, S)]
                 /\ todo' = [todo EXCEPT ![p] = S] /\ pc' = [pc EXCEPT ![p] = "begin"]
                 /\ UNCHANGED <<op, id, seen, hit, stats>>
  BY Zenon DEF Select

LEMMA ListFacts ==
  ASSUME NEW p \in Procs, List(p)
  PROVE  /\ pc[p] = "list" /\ pc' = [pc EXCEPT ![p] = "examine"] /\ Quiet
         /\ UNCHANGED <<disk, legacy, db, tx, writer, op, id, seen, hit, stats, alerts,
                        lost, runs>>
         /\ \E held \in SUBSET Held(db.entries) :
              /\ current' = [current EXCEPT ![p] = Rows(db.entries, held)]
              /\ todo' = [todo EXCEPT ![p] =
                    held \cap (IF op[p].kind = "clean" THEN Paths ELSE op[p].paths)]
  BY Zenon DEF List

(* Initially every variable has its type. *)
LEMMA InitType == Init => TypeInv
<1> SUFFICES ASSUME Init PROVE TypeInv
  OBVIOUS
<1> USE BaselineStoreAssumption
<1>1. NoOp \in Operation
  BY DEF NoOp, Operation, Kinds
<1>2. NoStats \in Counters
  BY DEF NoStats, Counters
<1>3. current \in [Procs -> Entries] /\ seen \in [Procs -> [Paths -> Value]]
  BY DEF Init, NoEntry, Entries, Value
<1>4. db \in Database /\ tx \in Database
  BY EmptyType DEF Init
<1>5. op \in [Procs -> Operation] /\ stats \in [Procs -> Counters]
  BY <1>1, <1>2 DEF Init
<1>6. Numbered
  BY DEF Init, Numbered
<1>7. /\ pc \in [Procs -> {"idle", "collect", "read", "begin", "write", "select",
                          "list", "examine", "report", "rules"}]
      /\ id \in [Procs -> 0..MaxRuns]
      /\ todo \in [Procs -> SUBSET Paths] /\ hit \in [Procs -> SUBSET Paths]
      /\ touched \in [Procs -> SUBSET Paths] /\ gone \in [Procs -> SUBSET Paths]
      /\ skipped \in [Procs -> SUBSET Paths]
  BY DEF Init
<1>8. /\ disk \in [Paths -> Value] /\ legacy \in [Paths -> Value]
      /\ writer \in Procs \cup {Nobody}
      /\ alerts \subseteq Runs \X Paths /\ lost \subseteq Runs \X Paths
  BY DEF Init
<1>9. runs \in 0..MaxRuns /\ upsets \in 0..MaxUpsets
  BY DEF Init
<1>10. QED
  BY <1>3, <1>4, <1>5, <1>6, <1>7, <1>8, <1>9 DEF TypeInv, TypeOK

(* Each step keeps every variable in its type, and a running process keeps  *)
(* its number.                                                              *)
LEMMA StepType == TypeInv /\ [Next]_vars => TypeInv'
<1> SUFFICES ASSUME TypeInv, [Next]_vars PROVE TypeInv'
  OBVIOUS
<1> USE BaselineStoreAssumption
<1>1. ASSUME NEW f \in Paths, NEW v \in Value, Edit(f, v) PROVE TypeInv'
  <2>1. touched' \in [Procs -> SUBSET Paths]
    BY <1>1, NoteType DEF Edit
  <2>2. gone' \in [Procs -> SUBSET Paths] /\ disk' \in [Paths -> Value]
    BY <1>1 DEF Edit, TypeInv, TypeOK
  <2>3. upsets' \in 0..MaxUpsets
    BY <1>1 DEF Edit, TypeInv, TypeOK
  <2>4. Numbered'
    BY <1>1 DEF Edit, procvars, TypeInv, Numbered
  <2>5. QED
    BY <1>1, <2>1, <2>2, <2>3, <2>4 DEF Edit, procvars, TypeInv, TypeOK
<1>2. ASSUME NEW p \in Procs, NEW o \in Ops, Launch(p, o) PROVE TypeInv'
  <2>1. o \in Operation
    OBVIOUS
  <2>2. /\ todo' \in [Procs -> SUBSET Paths] /\ hit' \in [Procs -> SUBSET Paths]
        /\ touched' \in [Procs -> SUBSET Paths] /\ gone' \in [Procs -> SUBSET Paths]
        /\ skipped' \in [Procs -> SUBSET Paths] /\ op' \in [Procs -> Operation]
    BY <1>2, <2>1 DEF Launch, TypeInv, TypeOK, Collected, Operation
  <2>3. runs' \in 0..MaxRuns /\ id' \in [Procs -> 0..MaxRuns]
    BY <1>2 DEF Launch, TypeInv, TypeOK
  <2>4. Numbered'
    BY <1>2 DEF Launch, TypeInv, TypeOK, Numbered, Runs
  <2>5. QED
    BY <1>2, <2>2, <2>3, <2>4 DEF Launch, TypeInv, TypeOK
<1>3. ASSUME NEW p \in Procs, NEW f \in Paths,
             \/ CollectPath(p, f) \/ CollectSkips(p, f)
             \/ Examine(p, f) \/ SaveBaseline(p, f)
      PROVE  TypeInv'
  <2>1. Numbered'
    BY <1>3 DEF CollectPath, CollectSkips, Examine, SaveBaseline, TypeInv, Numbered
  <2>2. CASE CollectPath(p, f)
    BY <2>1, <2>2 DEF CollectPath, Quiet, TypeInv, TypeOK
  <2>3. CASE Examine(p, f)
    BY <2>1, <2>3 DEF Examine, Quiet, TypeInv, TypeOK
  <2>4. CASE SaveBaseline(p, f)
    <3>1. Reading(f) \in Value
      BY DEF Reading, Value, TypeInv, TypeOK
    <3>2. legacy' \in [Paths -> Value]
      BY <2>4, <3>1 DEF SaveBaseline, TypeInv, TypeOK
    <3>3. QED
      BY <2>1, <2>4, <3>2 DEF SaveBaseline, Quiet, TypeInv, TypeOK
  <2>5. CASE CollectSkips(p, f)
    BY <2>1, <2>5 DEF CollectSkips, TypeInv, TypeOK
  <2>6. QED
    BY <1>3, <2>2, <2>3, <2>4, <2>5
<1>4. ASSUME NEW p \in Procs, NEW f \in Paths, SaveAlert(p, f) PROVE TypeInv'
  <2>1. id[p] \in Runs
    BY <1>4 DEF SaveAlert, TypeInv, Numbered
  <2>2. alerts' \subseteq Runs \X Paths /\ lost' \subseteq Runs \X Paths
    BY <1>4, <2>1 DEF SaveAlert, TypeInv, TypeOK
  <2>3. Numbered'
    BY <1>4 DEF SaveAlert, TypeInv, Numbered
  <2>4. QED
    BY <1>4, <2>2, <2>3 DEF SaveAlert, Quiet, TypeInv, TypeOK
<1>5. ASSUME NEW p \in Procs, Open(p) PROVE TypeInv'
  <2>1. db' \in Database
    BY <1>5, MigratedType DEF Open, InitTable, TypeInv, TypeOK
  <2>2. touched' \in [Procs -> SUBSET Paths]
    BY <1>5, NoteType DEF Open, Silent, Differ
  <2>3. op[p] \in Operation
    BY DEF TypeInv, TypeOK
  <2>4. todo' \in [Procs -> SUBSET Paths]
    BY <1>5, <2>3 DEF Open, Operation, TypeInv, TypeOK
  <2>5. NextOf(op[p]) \in {"read", "select", "list", "rules"}
    BY <2>3 DEF NextOf, Operation, Kinds
  <2>6. pc' = [pc EXCEPT ![p] = NextOf(op[p])] /\ pc[p] # "idle"
    BY <1>5 DEF Open
  <2>7. pc' \in [Procs -> {"idle", "collect", "read", "begin", "write", "select",
                           "list", "examine", "report", "rules"}]
    BY <2>5, <2>6 DEF TypeInv, TypeOK
  <2>8. Numbered'
    BY <1>5, <2>6 DEF Open, TypeInv, TypeOK, Numbered
  <2>9. QED
    BY <1>5, <2>1, <2>2, <2>4, <2>7, <2>8 DEF Open, Silent, TypeInv, TypeOK
<1>6. ASSUME NEW p \in Procs, ReadCurrent(p) PROVE TypeInv'
  <2> PICK held \in SUBSET Held(db.entries) : ReadRows(p, Rows(db.entries, held))
    BY <1>6, ReadPicks
  <2> DEFINE rows == Rows(db.entries, held)
  <2>1. rows \in Entries
    <3>1. db.entries \in Entries /\ held \in SUBSET Paths
      BY DEF Held, TypeInv, TypeOK, Database
    <3>2. QED
      BY <3>1, RowsType
  <2> HIDE DEF rows
  <2>2. Found(p) \in SUBSET Paths /\ Missing(p, rows) \in SUBSET Paths
    <3>1. op[p] \in Operation
      BY DEF TypeInv, TypeOK
    <3>2. QED
      BY <3>1 DEF Found, Missing, InScope, Operation
  <2>3. Cardinality(Found(p)) \in Nat /\ Cardinality(Missing(p, rows)) \in Nat
    BY <2>2, FS_Subset, FS_CardinalityType
  <2>4. [NoStats EXCEPT !.scanned = Cardinality(Found(p)),
                        !.removed = Cardinality(Missing(p, rows))] \in Counters
    BY <2>3 DEF NoStats, Counters
  <2>5. stats' \in [Procs -> Counters] /\ current' \in [Procs -> Entries]
    BY <2>1, <2>4 DEF ReadRows, rows, TypeInv, TypeOK
  <2>6. todo' \in [Procs -> SUBSET Paths]
    BY <2>2 DEF ReadRows, rows, TypeInv, TypeOK
  <2>7. Numbered'
    BY <1>6 DEF ReadCurrent, TypeInv, TypeOK, Numbered
  <2>8. upsets' \in 0..MaxUpsets
    BY <1>6, FetchedUpsets DEF ReadCurrent
  <2>9. QED
    BY <1>6, <2>5, <2>6, <2>7, <2>8 DEF ReadCurrent, Quiet, TypeInv, TypeOK
<1>7. ASSUME NEW p \in Procs, Begin(p) PROVE TypeInv'
  <2>1. Numbered'
    BY <1>7 DEF Begin, TypeInv, TypeOK, Numbered
  <2>2. QED
    BY <1>7, <2>1 DEF Begin, Quiet, TypeInv, TypeOK
<1>8. ASSUME NEW p \in Procs, NEW f \in Paths, WriteEntry(p, f) \/ RemoveEntry(p, f)
      PROVE  TypeInv'
  <2>1. current[p] \in Entries /\ id[p] \in Runs /\ tx \in Database /\ stats[p] \in Counters
    BY <1>8 DEF WriteEntry, RemoveEntry, TypeInv, TypeOK, Numbered
  <2>2. Numbered'
    BY <1>8 DEF WriteEntry, RemoveEntry, TypeInv, Numbered
  <2>3. todo' \in [Procs -> SUBSET Paths]
    <3>1. todo' = [todo EXCEPT ![p] = @ \ {f}]
      BY <1>8 DEF WriteEntry, RemoveEntry
    <3>2. QED
      BY <3>1 DEF TypeInv, TypeOK
  <2>4. CASE WriteEntry(p, f)
    <3>1. Fresh(p, f) \in [ver : Value, legacy : BOOLEAN]
      BY DEF Fresh, TypeInv, TypeOK
    <3>2. tx' \in Database
      BY <2>1, <2>4, <3>1, AuditedType DEF WriteEntry
    <3>3. \E field \in {"added", "modified", "removed", "unchanged"} :
             stats' = [stats EXCEPT ![p] = Counted(@, field)]
      BY <2>4 DEF WriteEntry
    <3>4. stats' \in [Procs -> Counters]
      BY <2>1, <3>3, CountedType DEF TypeInv, TypeOK
    <3>5. QED
      BY <2>2, <2>3, <2>4, <3>2, <3>4 DEF WriteEntry, Quiet, TypeInv, TypeOK
  <2>5. CASE RemoveEntry(p, f)
    <3>1. NoEntry \in [ver : Value, legacy : BOOLEAN]
      BY DEF NoEntry, Value
    <3>2. tx' \in Database
      BY <2>1, <2>5, <3>1, AuditedType DEF RemoveEntry
    <3>3. QED
      BY <2>2, <2>3, <2>5, <3>2 DEF RemoveEntry, Quiet, TypeInv, TypeOK
  <2>6. QED
    BY <1>8, <2>4, <2>5
<1>9. ASSUME NEW p \in Procs, Commit(p) PROVE TypeInv'
  <2>1. id[p] \in Runs /\ stats[p] \in Counters /\ tx \in Database
    BY <1>9 DEF Commit, TypeInv, TypeOK, Numbered
  <2>2. db' \in Database /\ tx' \in Database
    BY <1>9, <2>1, ClosedType, EmptyType DEF Commit, Release
  <2>3. touched' \in [Procs -> SUBSET Paths]
    BY <1>9, NoteType DEF Commit, Silent, Differ
  <2>4. QED
    BY <1>9, <2>2, <2>3, FinishType DEF Commit, Silent, Release, TypeInv, TypeOK
<1>10. ASSUME NEW p \in Procs,
              \/ BeginFails(p) \/ Rollback(p) \/ Crash(p) \/ Done(p)
              \/ \E f \in Paths : CollectFails(p, f)
       PROVE  TypeInv'
  <2>1. Finish(p) /\ Quiet /\ UNCHANGED <<disk, legacy, db, alerts, lost, runs, upsets>>
    BY <1>10 DEF BeginFails, Rollback, Crash, CollectFails, Done
  <2>2. (writer' = Nobody /\ tx' = EmptyDatabase) \/ UNCHANGED <<writer, tx>>
    BY <1>10 DEF BeginFails, Rollback, Crash, CollectFails, Done, Release
  <2>3. tx' \in Database /\ writer' \in Procs \cup {Nobody}
    BY <2>2, EmptyType DEF TypeInv, TypeOK
  <2>4. QED
    BY <2>1, <2>3, FinishType DEF Quiet, TypeInv, TypeOK
<1>11. ASSUME NEW p \in Procs, Select(p) \/ List(p) PROVE TypeInv'
  <2>1. upsets' \in 0..MaxUpsets
    BY <1>11, FetchedUpsets DEF Select, List
  <2>2. CASE Finish(p)
    BY <1>11, <2>1, <2>2, FinishType DEF Select, List, Quiet, TypeInv, TypeOK
  <2>3. CASE ~Finish(p)
    <3>1. pc[p] # "idle" /\ UNCHANGED <<op, id, seen, hit, stats>>
      BY <1>11, <2>3 DEF Select, List
    <3>2. \E S \in SUBSET Paths, l \in {"begin", "examine"},
             held \in SUBSET Held(db.entries) :
             /\ todo' = [todo EXCEPT ![p] = S] /\ pc' = [pc EXCEPT ![p] = l]
             /\ current' = [current EXCEPT ![p] = Rows(db.entries, held)]
      <4>1. CASE Select(p)
        BY <2>3, <4>1 DEF Select, Held
      <4>2. CASE List(p)
        <5>1. \E held \in SUBSET Held(db.entries) :
                /\ current' = [current EXCEPT ![p] = Rows(db.entries, held)]
                /\ todo' = [todo EXCEPT ![p] =
                      held \cap (IF op[p].kind = "clean" THEN Paths ELSE op[p].paths)]
          BY <4>2 DEF List
        <5>2. pc' = [pc EXCEPT ![p] = "examine"]
          BY <4>2 DEF List
        <5>3. QED
          BY <5>1, <5>2 DEF Held
      <4>3. QED
        BY <1>11, <4>1, <4>2
    <3>3. /\ todo' \in [Procs -> SUBSET Paths] /\ current' \in [Procs -> Entries]
          /\ pc' \in [Procs -> {"idle", "collect", "read", "begin", "write", "select",
                                "list", "examine", "report", "rules"}]
      <4>1. db.entries \in Entries /\ Held(db.entries) \in SUBSET Paths
        BY DEF Held, TypeInv, TypeOK, Database
      <4>2. \A held \in SUBSET Held(db.entries) : Rows(db.entries, held) \in Entries
        BY <4>1, RowsType
      <4>3. QED
        BY <3>1, <3>2, <4>2 DEF TypeInv, TypeOK
    <3>4. Numbered'
      BY <3>1, <3>2 DEF TypeInv, TypeOK, Numbered
    <3>5. QED
      BY <1>11, <2>1, <3>1, <3>3, <3>4 DEF Select, List, Quiet, TypeInv, TypeOK
  <2>4. QED
    BY <2>2, <2>3
<1>12. ASSUME NEW p \in Procs, Examined(p) PROVE TypeInv'
  <2>1. db' \in Database
    BY <1>12, MigratedType DEF Examined, InitTable, TypeInv, TypeOK
  <2>2. /\ touched' \in [Procs -> SUBSET Paths] /\ gone' \in [Procs -> SUBSET Paths]
        /\ skipped' \in [Procs -> SUBSET Paths]
    <3>1. Quiet \/ (Note(p, Differ(db.entries, db'.entries)) /\ UNCHANGED <<gone, skipped>>)
      BY <1>12 DEF Examined, Silent
    <3>2. QED
      BY <3>1, NoteType DEF Quiet, Differ, TypeInv, TypeOK
  <2>3. CASE Finish(p)
    BY <1>12, <2>1, <2>2, <2>3, FinishType DEF Examined, TypeInv, TypeOK
  <2>4. CASE ~Finish(p)
    <3>1. /\ pc[p] # "idle" /\ UNCHANGED <<op, id, seen, current, hit, stats>>
          /\ \E l \in {"select", "report"} : pc' = [pc EXCEPT ![p] = l]
      BY <1>12, <2>4 DEF Examined
    <3>2. todo' = todo \/ todo' = [todo EXCEPT ![p] = hit[p]]
      BY <1>12, <2>4 DEF Examined
    <3>3. /\ todo' \in [Procs -> SUBSET Paths]
          /\ pc' \in [Procs -> {"idle", "collect", "read", "begin", "write", "select",
                                "list", "examine", "report", "rules"}]
      <4>1. todo \in [Procs -> SUBSET Paths] /\ hit \in [Procs -> SUBSET Paths]
        BY DEF TypeInv, TypeOK
      <4>2. todo' \in [Procs -> SUBSET Paths]
        BY <3>2, <4>1
      <4>3. QED
        BY <3>1, <4>2 DEF TypeInv, TypeOK
    <3>4. Numbered'
      BY <3>1 DEF TypeInv, TypeOK, Numbered
    <3>5. QED
      BY <1>12, <2>1, <2>2, <3>1, <3>3, <3>4 DEF Examined, TypeInv, TypeOK
  <2>5. QED
    BY <2>3, <2>4
<1>13. CASE UNCHANGED vars
  BY <1>13 DEF vars, procvars, history, TypeInv, TypeOK, Numbered
<1>14. QED
  BY <1>1, <1>2, <1>3, <1>4, <1>5, <1>6, <1>7, <1>8, <1>9, <1>10, <1>11, <1>12,
     <1>13 DEF Next, Step, Fault

(***************************************************************************)
(* Every variable of the database and of the processes on it keeps its     *)
(* type, through failures and crashes of any of them.                      *)
(***************************************************************************)
THEOREM TypeCorrect == Spec => []TypeOK
<1>1. TypeInv => TypeOK
  BY DEF TypeInv
<1>2. QED
  BY <1>1, InitType, StepType, PTL DEF Spec

-----------------------------------------------------------------------------
(* The audit trail *)

(* What is committed is explained, and so is what the writer has so far. *)
ExplainedInv ==
  TypeInv /\ \A f \in Paths : Explained(db, f) /\ Explained(tx, f)

(* An empty database has nothing to explain. *)
LEMMA EmptyExplained ==
  ASSUME NEW f \in Paths PROVE Explained(EmptyDatabase, f)
  BY DEF Explained, EmptyDatabase, LastNew, NoEntry

(* A row copied from the old table needs no record, and one is copied only  *)
(* where there is no entry.                                                 *)
LEMMA MigratedExplained ==
  ASSUME NEW d \in Database, NEW f \in Paths, Explained(d, f)
  PROVE  Explained(Migrated(d), f)
<1>1. Migrated(d).audit = d.audit
  BY DEF Migrated, Database
<1>2. Migrated(d).entries[f] = IF ~Has(d.entries, f) /\ legacy[f] # Absent
                                 THEN [ver |-> legacy[f], legacy |-> TRUE]
                                 ELSE d.entries[f]
  BY DEF Migrated, Database
<1>3. CASE ~Has(d.entries, f) /\ legacy[f] # Absent
  <2>1. d.entries[f].ver = Absent /\ d.entries[f].legacy = FALSE
    BY <1>3 DEF Has, NoEntry
  <2>2. LastNew(d.audit[f]) = Absent
    BY <2>1 DEF Explained
  <2>3. Migrated(d).entries[f].legacy = TRUE
    BY <1>2, <1>3
  <2>4. QED
    BY <1>1, <2>2, <2>3 DEF Explained
<1>4. CASE ~(~Has(d.entries, f) /\ legacy[f] # Absent)
  BY <1>1, <1>2, <1>4 DEF Explained
<1>5. QED
  BY <1>3, <1>4

(* The record that is written with a change of an entry explains it, and    *)
(* leaves the other paths' explanations alone.                              *)
LEMMA AuditedExplained ==
  ASSUME NEW d \in Database, NEW p \in Procs, NEW f \in Paths,
         NEW type \in {"added", "modified", "removed", "delete"},
         NEW entry \in [ver : Value, legacy : {FALSE}],
         current[p] \in Entries, id[p] \in Runs,
         NEW g \in Paths, Explained(d, g)
  PROVE  Explained(Audited(d, p, f, type, entry), g)
<1> DEFINE rec == [type |-> type, old |-> current[p][f].ver,
                   new |-> entry.ver, run |-> id[p]]
           a == Audited(d, p, f, type, entry)
<1>1. rec \in Changes
  BY DEF Changes, Entries
<1>2. a.audit[g] = IF g = f THEN Append(d.audit[f], rec) ELSE d.audit[g]
  BY DEF Audited, Database
<1>3. a.entries[g] = IF g = f THEN entry ELSE d.entries[g]
  BY DEF Audited, Database, Entries
<1>4. CASE g = f
  <2>1. d.audit[f] \in Seq(Changes)
    BY DEF Database
  <2>2. /\ a.audit[g] # <<>>
        /\ a.audit[g][Len(a.audit[g])] = rec
    <3> HIDE DEF a, rec
    <3>1. QED
      BY <1>1, <1>2, <1>4, <2>1
  <2>3. LastNew(a.audit[g]) = entry.ver
    BY <2>2 DEF LastNew
  <2>4. entry.legacy = FALSE
    OBVIOUS
  <2>5. QED
    BY <1>3, <1>4, <2>3, <2>4 DEF Explained
<1>5. CASE g # f
  BY <1>2, <1>3, <1>5 DEF Explained
<1>6. QED
  BY <1>4, <1>5

(* The row of a snapshot is not part of an explanation. *)
LEMMA ClosedExplained ==
  ASSUME NEW d \in Database, NEW p \in Procs, NEW f \in Paths, Explained(d, f)
  PROVE  Explained(Closed(d, p), f)
<1>1. Closed(d, p).audit = d.audit /\ Closed(d, p).entries = d.entries
  BY DEF Closed, Database
<1>2. QED
  BY <1>1 DEF Explained

(* An empty database is explained. *)
LEMMA InitExplained == Init => ExplainedInv
<1> SUFFICES ASSUME Init PROVE ExplainedInv
  OBVIOUS
<1>1. TypeInv
  BY InitType
<1>2. db = EmptyDatabase /\ tx = EmptyDatabase
  BY DEF Init
<1>3. QED
  BY <1>1, <1>2, EmptyExplained DEF ExplainedInv

(* Each step keeps the trail complete: the two actions that change an entry *)
(* write its record, and a copied row needs none.                           *)
LEMMA StepExplained == ExplainedInv /\ [Next]_vars => ExplainedInv'
<1> SUFFICES ASSUME ExplainedInv, [Next]_vars PROVE ExplainedInv'
  OBVIOUS
<1>1. TypeInv /\ TypeInv'
  BY StepType DEF ExplainedInv
<1>2. \A f \in Paths : Explained(db, f) /\ Explained(tx, f)
  BY DEF ExplainedInv
<1>3. db \in Database /\ tx \in Database
  BY <1>1 DEF TypeInv, TypeOK
<1>4. SUFFICES ASSUME NEW g \in Paths PROVE Explained(db', g) /\ Explained(tx', g)
  BY <1>1 DEF ExplainedInv, Explained, LastNew
<1>5. \A d \in {db, tx, EmptyDatabase, Migrated(db)} : Explained(d, g)
  BY <1>2, <1>3, EmptyExplained, MigratedExplained
<1>6. ASSUME NEW p \in Procs, NEW f \in Paths, WriteEntry(p, f) \/ RemoveEntry(p, f)
      PROVE  Explained(tx', g) /\ db' = db
  <2>1. current[p] \in Entries /\ id[p] \in Runs
    BY <1>1, <1>6 DEF WriteEntry, RemoveEntry, TypeInv, TypeOK, Numbered
  <2>2. Explained(tx, g)
    BY <1>2
  <2>3. CASE WriteEntry(p, f)
    <3>1. Fresh(p, f) \in [ver : Value, legacy : {FALSE}]
      BY <1>1 DEF Fresh, TypeInv, TypeOK
    <3>2. \/ UNCHANGED tx
          \/ \E type \in {"added", "modified"} : tx' = Audited(tx, p, f, type, Fresh(p, f))
      BY <2>3 DEF WriteEntry
    <3>3. Explained(tx', g)
      BY <1>3, <2>1, <2>2, <3>1, <3>2, AuditedExplained
    <3>4. QED
      BY <2>3, <3>3 DEF WriteEntry
  <2>4. CASE RemoveEntry(p, f)
    <3>1. NoEntry \in [ver : Value, legacy : {FALSE}]
      BY DEF NoEntry, Value
    <3>2. \E type \in {"removed", "delete"} : tx' = Audited(tx, p, f, type, NoEntry)
      BY <2>4 DEF RemoveEntry
    <3>3. Explained(tx', g)
      BY <1>3, <2>1, <2>2, <3>1, <3>2, AuditedExplained
    <3>4. QED
      BY <2>4, <3>3 DEF RemoveEntry
  <2>5. QED
    BY <1>6, <2>3, <2>4
<1>7. ASSUME NEW p \in Procs, Commit(p) PROVE Explained(db', g) /\ tx' = EmptyDatabase
  BY <1>2, <1>3, <1>7, ClosedExplained DEF Commit, Release
<1>8. ASSUME ~\E p \in Procs : Commit(p) \/ \E f \in Paths : WriteEntry(p, f) \/ RemoveEntry(p, f)
      PROVE  db' \in {db, Migrated(db)} /\ tx' \in {tx, db, EmptyDatabase}
  <2>1. CASE UNCHANGED vars
    BY <2>1 DEF vars
  <2>2. CASE \E f \in Paths, v \in Value : Edit(f, v)
    BY <2>2 DEF Edit
  <2>3. CASE \E p \in Procs, o \in Ops : Launch(p, o)
    BY <2>3 DEF Launch
  <2>4. CASE \E p \in Procs : Fault(p)
    BY <2>4 DEF Fault, Rollback, Crash, CollectFails, CollectSkips, Release
  <2>5. CASE \E p \in Procs : \/ Open(p) \/ ReadCurrent(p) \/ Begin(p) \/ BeginFails(p)
                              \/ Select(p) \/ List(p) \/ Examined(p) \/ Done(p)
    BY <2>5, ReadFacts, SelectFacts, ListFacts
       DEF Open, Begin, BeginFails, Examined, Done, InitTable
  <2>6. CASE \E p \in Procs, f \in Paths : \/ CollectPath(p, f) \/ Examine(p, f)
                                           \/ SaveAlert(p, f) \/ SaveBaseline(p, f)
    BY <2>6 DEF CollectPath, Examine, SaveAlert, SaveBaseline
  <2>7. QED
    BY <1>8, <2>1, <2>2, <2>3, <2>4, <2>5, <2>6 DEF Next, Step
<1>9. QED
  BY <1>5, <1>6, <1>7, <1>8

(***************************************************************************)
(* The audit trail accounts for the baseline, for any number of processes  *)
(* that snapshot, delete, clean and open the database at once, fail at any *)
(* statement or die (ApplySnapshot, DeleteBaselineEntries, InitTable).     *)
(***************************************************************************)
THEOREM EntriesExplainedTheorem == Spec => []EntriesExplained
<1>1. ExplainedInv => EntriesExplained
  BY DEF ExplainedInv, EntriesExplained
<1>2. QED
  BY <1>1, InitExplained, StepExplained, PTL DEF Spec

-----------------------------------------------------------------------------
(* Nothing present is dropped *)

(* The process that writes is the one that holds the lock. *)
Exclusive == \A p \in Procs : pc[p] = "write" <=> writer = p

(* What is not on disk is known to be gone. *)
GoneInv == \A p \in Procs, f \in Paths :
             pc[p] # "idle" /\ disk[f] = Absent => f \in gone[p]

(* A path that a snapshot has visited and not found was absent, or passed   *)
(* over.                                                                    *)
ScanInv ==
  \A p \in Procs, f \in Paths :
    /\ pc[p] # "idle" /\ op[p].kind = "snapshot" /\ seen[p][f] = Absent
    /\ f \in Collected(op[p]) /\ (pc[p] = "collect" => f \notin todo[p])
    => f \in gone[p] \cup skipped[p]

(* Which program counters a command reaches. *)
PhaseInv ==
  \A p \in Procs :
    /\ pc[p] = "read" => op[p].kind = "snapshot"
    /\ pc[p] = "select" => op[p].kind \in {"delete", "clean"}
    /\ pc[p] \in {"list", "examine"} => op[p].kind \in {"clean", "check"}

(* What a snapshot still has to visit is found or in its scope; what clean  *)
(* has found, and what it is about to remove, was absent.                   *)
DoomInv ==
  \A p \in Procs :
    /\ pc[p] \in {"begin", "write"} /\ op[p].kind = "snapshot"
       => todo[p] \subseteq Found(p) \cup InScope(op[p])
    /\ pc[p] # "idle" /\ op[p].kind = "clean" => hit[p] \subseteq gone[p]
    /\ pc[p] \in {"begin", "write"} /\ op[p].kind = "clean" => todo[p] \subseteq gone[p]

(* What the transaction has removed so far it was entitled to remove. *)
KeptInv ==
  \A p \in Procs, f \in Paths :
    /\ writer = p /\ op[p].kind \in {"snapshot", "clean"}
    /\ Has(db.entries, f) /\ ~Has(tx.entries, f)
    => f \in gone[p] \cup op[p].glob \cup skipped[p]

KeepInv == /\ TypeInv /\ Exclusive /\ GoneInv /\ ScanInv
           /\ PhaseInv /\ DoomInv /\ KeptInv

(* A step of process p. *)
Acts(p) == Step(p) \/ Fault(p) \/ \E o \in Ops : Launch(p, o)

(* One process does not touch the variables of another, the disk or a       *)
(* history of absent files.                                                 *)
LEMMA OthersKeep ==
  ASSUME TypeInv, NEW p \in Procs, Acts(p), NEW q \in Procs, q # p
  PROVE  /\ pc'[q] = pc[q] /\ op'[q] = op[q] /\ todo'[q] = todo[q] /\ hit'[q] = hit[q]
         /\ seen'[q] = seen[q] /\ gone'[q] = gone[q] /\ skipped'[q] = skipped[q]
         /\ UNCHANGED disk
<1> USE DEF TypeInv, TypeOK
<1>1. ASSUME NEW o \in Ops, Launch(p, o)
      PROVE  /\ pc'[q] = pc[q] /\ op'[q] = op[q] /\ todo'[q] = todo[q] /\ hit'[q] = hit[q]
             /\ seen'[q] = seen[q] /\ gone'[q] = gone[q] /\ skipped'[q] = skipped[q]
             /\ UNCHANGED disk
  BY <1>1 DEF Launch
<1>2. CASE Fault(p)
  BY <1>2 DEF Fault, Rollback, Crash, CollectFails, CollectSkips, Finish, Quiet
<1>3. CASE \/ Open(p) \/ ReadCurrent(p) \/ Begin(p) \/ BeginFails(p) \/ Commit(p)
           \/ Select(p) \/ List(p) \/ Done(p)
  BY <1>3, ReadFacts, SelectFacts, ListFacts
     DEF Open, Begin, BeginFails, Commit, Done, Finish, Quiet, Silent
<1>4. CASE Examined(p)
  BY <1>4 DEF Examined, Finish, Quiet, Silent
<1>5. ASSUME NEW f \in Paths,
             \/ CollectPath(p, f) \/ WriteEntry(p, f) \/ RemoveEntry(p, f)
             \/ Examine(p, f) \/ SaveAlert(p, f) \/ SaveBaseline(p, f)
      PROVE  /\ pc'[q] = pc[q] /\ op'[q] = op[q] /\ todo'[q] = todo[q] /\ hit'[q] = hit[q]
             /\ seen'[q] = seen[q] /\ gone'[q] = gone[q] /\ skipped'[q] = skipped[q]
             /\ UNCHANGED disk
  BY <1>5 DEF CollectPath, WriteEntry, RemoveEntry, Examine, SaveAlert, SaveBaseline,
              Quiet
<1>6. QED
  BY <1>1, <1>2, <1>3, <1>4, <1>5 DEF Acts, Step

(* An edit of a file touches no process, and is noted by those that run. *)
LEMMA EditKeeps ==
  ASSUME TypeInv, NEW g \in Paths, NEW v \in Value, Edit(g, v), NEW q \in Procs
  PROVE  /\ UNCHANGED <<db, tx, writer, pc, op, todo, hit, seen>>
         /\ gone[q] \subseteq gone'[q] /\ skipped'[q] = skipped[q]
         /\ \A f \in Paths : /\ pc[q] # "idle" /\ disk[f] # Absent /\ disk'[f] = Absent
                            => f \in gone'[q]
  BY DEF Edit, procvars, TypeInv, TypeOK

(* What a process was told is gone stays so while it runs, and what it      *)
(* passed over stays passed over.                                           *)
LEMMA GoneGrows ==
  ASSUME TypeInv, NEW p \in Procs, Acts(p), pc[p] # "idle"
  PROVE  gone'[p] = gone[p] /\ skipped[p] \subseteq skipped'[p] /\ UNCHANGED disk
<1>1. ~\E o \in Ops : Launch(p, o)
  BY DEF Launch
<1>2. CASE Fault(p)
  BY <1>2 DEF Fault, Rollback, Crash, CollectFails, CollectSkips, Quiet, TypeInv, TypeOK
<1>3. CASE Step(p)
  BY <1>3, ReadFacts, SelectFacts, ListFacts
     DEF Step, Open, Begin, BeginFails, Commit, Examined, Done, CollectPath, WriteEntry,
         RemoveEntry, Examine, SaveAlert, SaveBaseline, Quiet, Silent
<1>4. QED
  BY <1>1, <1>2, <1>3 DEF Acts

(* Next, by who acts. *)
LEMMA WhoActs ==
  ASSUME [Next]_vars
  PROVE  \/ \E p \in Procs : Acts(p)
         \/ \E f \in Paths, v \in Value : Edit(f, v)
         \/ UNCHANGED <<disk, legacy, db, tx, writer, pc, op, id, todo, seen, current,
                        hit, stats, gone, skipped>>
  BY DEF Next, Acts, vars, procvars, history

(* Nobody runs at first. *)
LEMMA InitKeep == Init => KeepInv
<1> SUFFICES ASSUME Init PROVE KeepInv
  OBVIOUS
<1>1. TypeInv
  BY InitType
<1>2. Exclusive
  BY BaselineStoreAssumption DEF Init, Exclusive
<1>3. GoneInv /\ ScanInv /\ PhaseInv /\ DoomInv
  BY DEF Init, GoneInv, ScanInv, PhaseInv, DoomInv
<1>4. KeptInv
  BY BaselineStoreAssumption DEF Init, KeptInv
<1>5. QED
  BY <1>1, <1>2, <1>3, <1>4 DEF KeepInv

(* BEGIN IMMEDIATE excludes a second writer. *)
LEMMA StepExclusive == TypeInv /\ Exclusive /\ [Next]_vars => Exclusive'
<1> SUFFICES ASSUME TypeInv, Exclusive, [Next]_vars, NEW q \in Procs
             PROVE  pc'[q] = "write" <=> writer' = q
  BY DEF Exclusive
<1> USE BaselineStoreAssumption DEF Exclusive
<1>0. Nobody \notin Procs
  OBVIOUS
<1>1. ASSUME NEW p \in Procs, Acts(p) PROVE pc'[q] = "write" <=> writer' = q
  <2> USE DEF TypeInv, TypeOK
  <2>1. ASSUME NEW o \in Ops, Launch(p, o) PROVE pc'[q] = "write" <=> writer' = q
    BY <2>1 DEF Launch
  <2>2. CASE Begin(p)
    BY <2>2, <1>0 DEF Begin
  <2>3. CASE Commit(p) \/ Rollback(p) \/ Crash(p)
    BY <2>3, <1>0 DEF Commit, Rollback, Crash, Finish, Release
  <2>4. CASE Finish(p) /\ UNCHANGED writer /\ pc[p] # "write"
    BY <2>4 DEF Finish
  <2>5. CASE UNCHANGED <<pc, writer>>
    BY <2>5
  <2>6. ASSUME pc[p] # "write", UNCHANGED writer,
               NEW l \in {"read", "select", "list", "rules", "begin", "examine", "report"},
               pc' = [pc EXCEPT ![p] = l]
        PROVE  pc'[q] = "write" <=> writer' = q
    BY <2>6
  <2>7. CASE Open(p)
    <3>1. op[p] \in Operation
      OBVIOUS
    <3>2. NextOf(op[p]) \in {"read", "select", "list", "rules"}
      BY <3>1 DEF NextOf, Operation, Kinds
    <3>3. QED
      BY <2>6, <2>7, <3>2 DEF Open
  <2>8. CASE Select(p) \/ List(p) \/ Examined(p)
    BY <2>4, <2>6, <2>8 DEF Select, List, Examined
  <2>9. CASE ReadCurrent(p)
    BY <2>6, <2>9 DEF ReadCurrent
  <2>10. CASE BeginFails(p) \/ Done(p) \/ \E f \in Paths : CollectFails(p, f)
    BY <2>4, <2>10 DEF BeginFails, Done, CollectFails
  <2>11. CASE \E f \in Paths :
                \/ CollectPath(p, f) \/ WriteEntry(p, f) \/ RemoveEntry(p, f)
                \/ Examine(p, f) \/ SaveAlert(p, f) \/ SaveBaseline(p, f)
                \/ CollectSkips(p, f)
    BY <2>5, <2>11 DEF CollectPath, WriteEntry, RemoveEntry, Examine, SaveAlert,
                       SaveBaseline, CollectSkips
  <2>12. QED
    BY <1>1, <2>1, <2>2, <2>3, <2>7, <2>8, <2>9, <2>10, <2>11 DEF Acts, Step, Fault
<1>2. ASSUME NEW f \in Paths, NEW v \in Value, Edit(f, v)
      PROVE  pc'[q] = "write" <=> writer' = q
  BY <1>2 DEF Edit, procvars
<1>3. QED
  BY <1>1, <1>2, WhoActs

(* An idle process can only be started. *)
LEMMA IdleLaunches ==
  ASSUME TypeInv, NEW p \in Procs, Acts(p), pc[p] = "idle"
  PROVE  \E o \in Ops : Launch(p, o)
<1>1. \/ ~Fault(p) \/ Rollback(p) \/ Crash(p)
      \/ \E f \in Paths : CollectFails(p, f) \/ CollectSkips(p, f)
  BY DEF Fault
<1>2. ~Fault(p)
  BY <1>1 DEF Rollback, Crash, CollectFails, CollectSkips
<1>3. ~Step(p)
  BY DEF Step, Open, ReadCurrent, Begin, BeginFails, Commit, Select, List, Examined,
         Done, CollectPath, WriteEntry, RemoveEntry, Examine, SaveAlert, SaveBaseline
<1>4. QED
  BY <1>2, <1>3 DEF Acts

(* A running process is told of every file that goes away. *)
LEMMA StepGone == TypeInv /\ GoneInv /\ [Next]_vars => GoneInv'
<1> SUFFICES ASSUME TypeInv, GoneInv, [Next]_vars, NEW q \in Procs, NEW f \in Paths,
                    pc'[q] # "idle", disk'[f] = Absent
             PROVE  f \in gone'[q]
  BY DEF GoneInv
<1> USE DEF GoneInv
<1>1. ASSUME NEW p \in Procs, Acts(p) PROVE f \in gone'[q]
  <2>1. CASE q # p
    BY <1>1, <2>1, OthersKeep
  <2>2. CASE q = p /\ pc[p] # "idle"
    BY <1>1, <2>2, GoneGrows
  <2>3. CASE q = p /\ pc[p] = "idle"
    <3>1. PICK o \in Ops : Launch(p, o)
      BY <1>1, <2>3, IdleLaunches
    <3>2. QED
      BY <2>3, <3>1 DEF Launch, TypeInv, TypeOK
  <2>4. QED
    BY <2>1, <2>2, <2>3
<1>2. ASSUME NEW g \in Paths, NEW v \in Value, Edit(g, v) PROVE f \in gone'[q]
  BY <1>2, EditKeeps
<1>3. QED
  BY <1>1, <1>2, WhoActs

(* CollectPath marks a path visited only with what it found there. *)
LEMMA StepScan == TypeInv /\ GoneInv /\ ScanInv /\ [Next]_vars => ScanInv'
<1> SUFFICES ASSUME TypeInv, GoneInv, ScanInv, [Next]_vars,
                    NEW q \in Procs, NEW f \in Paths,
                    pc'[q] # "idle", op'[q].kind = "snapshot", seen'[q][f] = Absent,
                    f \in Collected(op'[q]), pc'[q] = "collect" => f \notin todo'[q]
             PROVE  f \in gone'[q] \cup skipped'[q]
  BY DEF ScanInv
<1>1. ASSUME NEW p \in Procs, Acts(p) PROVE f \in gone'[q] \cup skipped'[q]
  <2>1. CASE q # p
    BY <1>1, <2>1, OthersKeep DEF ScanInv
  <2>2. CASE q = p /\ pc[p] = "idle"
    <3>1. PICK o \in Ops : Launch(p, o)
      BY <1>1, <2>2, IdleLaunches
    <3>2. f \in todo'[q] /\ pc'[q] = "collect"
      BY <2>2, <3>1 DEF Launch, TypeInv, TypeOK
    <3>3. QED
      BY <3>2
  <2>3. CASE q = p /\ pc[p] # "idle"
    <3>1. gone[q] \cup skipped[q] \subseteq gone'[q] \cup skipped'[q]
      BY <1>1, <2>3, GoneGrows
    <3>2. ~Finish(p)
      BY <2>3 DEF Finish, TypeInv, TypeOK
    <3>3. ASSUME NEW g \in Paths, CollectPath(p, g) PROVE f \in gone[q] \cup skipped[q]
      <4>1. op[q] = op'[q] /\ pc[q] = pc'[q] /\ pc[q] = "collect"
            /\ todo'[q] = todo[q] \ {g} /\ (seen'[q][f] = IF f = g THEN disk[f] ELSE seen[q][f])
        BY <2>3, <3>3 DEF CollectPath, TypeInv, TypeOK
      <4>2. CASE f = g
        BY <4>1, <4>2 DEF GoneInv
      <4>3. CASE f # g
        BY <4>1, <4>3 DEF ScanInv
      <4>4. QED
        BY <4>2, <4>3
    <3>4. CASE Open(p)
      BY <2>3, <3>1, <3>4 DEF Open, ScanInv
    <3>5. ASSUME UNCHANGED <<op, seen>>, pc[q] # "collect" PROVE f \in gone[q] \cup skipped[q]
      BY <2>3, <3>5 DEF ScanInv
    <3>6. ASSUME NEW g \in Paths, CollectSkips(p, g) PROVE f \in gone'[q] \cup skipped'[q]
      <4>1. op[q] = op'[q] /\ pc[q] = pc'[q] /\ pc[q] = "collect" /\ seen'[q] = seen[q]
            /\ todo'[q] = todo[q] \ {g} /\ g \in skipped'[q]
        BY <2>3, <3>6 DEF CollectSkips, TypeInv, TypeOK
      <4>2. CASE f # g
        BY <3>1, <4>1, <4>2 DEF ScanInv
      <4>3. QED
        BY <4>1, <4>2
    <3>7. ~\E o \in Ops : Launch(p, o)
      BY <2>3 DEF Launch
    <3>8. CASE \/ ReadCurrent(p) \/ Begin(p) \/ BeginFails(p) \/ Commit(p)
               \/ Select(p) \/ List(p) \/ Examined(p) \/ Done(p)
      BY <2>3, <3>1, <3>2, <3>5, <3>8, ReadFacts, SelectFacts, ListFacts
         DEF Begin, BeginFails, Commit, Examined, Done
    <3>9. CASE \E g \in Paths : \/ WriteEntry(p, g) \/ RemoveEntry(p, g) \/ Examine(p, g)
                               \/ SaveAlert(p, g) \/ SaveBaseline(p, g)
      BY <2>3, <3>1, <3>5, <3>9 DEF WriteEntry, RemoveEntry, Examine, SaveAlert, SaveBaseline
    <3>10. QED
      BY <1>1, <3>1, <3>2, <3>3, <3>4, <3>6, <3>7, <3>8, <3>9
         DEF Acts, Step, Fault, Rollback, Crash, CollectFails
  <2>4. QED
    BY <2>1, <2>2, <2>3
<1>2. ASSUME NEW g \in Paths, NEW v \in Value, Edit(g, v) PROVE f \in gone'[q] \cup skipped'[q]
  BY <1>2, EditKeeps DEF ScanInv
<1>3. QED
  BY <1>1, <1>2, WhoActs DEF ScanInv

(* A program counter belongs to the command that reaches it. *)
LEMMA StepPhase == TypeInv /\ PhaseInv /\ [Next]_vars => PhaseInv'
<1> DEFINE Right(l, k) == /\ l = "read" => k = "snapshot"
                          /\ l = "select" => k \in {"delete", "clean"}
                          /\ l \in {"list", "examine"} => k \in {"clean", "check"}
<1> SUFFICES ASSUME TypeInv, PhaseInv, [Next]_vars, NEW q \in Procs
             PROVE  Right(pc'[q], op'[q].kind)
  BY DEF PhaseInv
<1>0. Right(pc[q], op[q].kind)
  BY DEF PhaseInv
<1>1. ASSUME NEW p \in Procs, Acts(p) PROVE Right(pc'[q], op'[q].kind)
  <2>1. CASE q # p
    BY <1>0, <1>1, <2>1, OthersKeep
  <2>2. CASE q = p /\ pc'[q] \in {"idle", "collect", "begin", "write", "report", "rules"}
    BY <2>2
  <2>3. CASE q = p /\ UNCHANGED <<pc, op>>
    BY <1>0, <2>3
  <2>4. CASE q = p /\ Finish(p)
    BY <2>2, <2>4 DEF Finish, TypeInv, TypeOK
  <2>5. CASE q = p /\ \E o \in Ops : Launch(p, o)
    BY <2>2, <2>5 DEF Launch, TypeInv, TypeOK
  <2>6. CASE q = p /\ Open(p)
    <3>1. pc'[q] = NextOf(op[q]) /\ op'[q] = op[q] /\ op[q] \in Operation
      BY <2>6 DEF Open, TypeInv, TypeOK
    <3>2. QED
      BY <3>1 DEF NextOf, Operation, Kinds
  <2>7. CASE q = p /\ (Select(p) \/ ReadCurrent(p) \/ Begin(p))
    BY <2>2, <2>4, <2>7, ReadFacts, SelectFacts DEF Begin, TypeInv, TypeOK
  <2>8. CASE q = p /\ List(p)
    BY <1>0, <2>8, ListFacts DEF TypeInv, TypeOK
  <2>9. CASE q = p /\ Examined(p)
    BY <2>2, <2>4, <2>9 DEF Examined, TypeInv, TypeOK
  <2>10. CASE q = p /\ (BeginFails(p) \/ Commit(p) \/ Done(p) \/ Fault(p))
    BY <2>3, <2>4, <2>10 DEF BeginFails, Commit, Done, Fault, Rollback, Crash, CollectFails,
                             CollectSkips
  <2>11. CASE q = p /\ \E f \in Paths :
                \/ CollectPath(p, f) \/ WriteEntry(p, f) \/ RemoveEntry(p, f)
                \/ Examine(p, f) \/ SaveAlert(p, f) \/ SaveBaseline(p, f)
    BY <2>3, <2>11 DEF CollectPath, WriteEntry, RemoveEntry, Examine, SaveAlert,
                       SaveBaseline
  <2>12. QED
    BY <1>1, <2>1, <2>5, <2>6, <2>7, <2>8, <2>9, <2>10, <2>11 DEF Acts, Step
<1>2. ASSUME NEW f \in Paths, NEW v \in Value, Edit(f, v)
      PROVE  Right(pc'[q], op'[q].kind)
  BY <1>0, <1>2 DEF Edit, procvars
<1>3. QED
  BY <1>0, <1>1, <1>2, WhoActs

(* ReadCurrent lists what is in scope and not found, clean what is absent. *)
LEMMA StepDoom == TypeInv /\ GoneInv /\ PhaseInv /\ DoomInv /\ [Next]_vars => DoomInv'
<1> DEFINE Doomed(q) ==
      /\ pc[q] \in {"begin", "write"} /\ op[q].kind = "snapshot"
         => todo[q] \subseteq Found(q) \cup InScope(op[q])
      /\ pc[q] # "idle" /\ op[q].kind = "clean" => hit[q] \subseteq gone[q]
      /\ pc[q] \in {"begin", "write"} /\ op[q].kind = "clean" => todo[q] \subseteq gone[q]
<1> SUFFICES ASSUME TypeInv, GoneInv, PhaseInv, DoomInv, [Next]_vars, NEW q \in Procs
             PROVE  Doomed(q)'
  BY DEF DoomInv
<1>0. Doomed(q)
  BY DEF DoomInv
<1>1. ASSUME NEW p \in Procs, Acts(p) PROVE Doomed(q)'
  <2>1. CASE q # p
    BY <1>0, <1>1, <2>1, OthersKeep DEF Found
  <2>2. CASE q = p /\ pc'[q] = "idle"
    BY <2>2
  <2>3. CASE q = p /\ pc[p] = "idle"
    <3>1. PICK o \in Ops : Launch(p, o)
      BY <1>1, <2>3, IdleLaunches
    <3>2. pc'[q] = "collect" /\ (op'[q].kind = "clean" => hit'[q] = {})
      BY <2>3, <3>1 DEF Launch, TypeInv, TypeOK
    <3>3. QED
      BY <3>2
  <2>4. CASE q = p /\ pc[p] # "idle" /\ pc'[p] # "idle"
    <3> USE <2>4
    <3>1. gone'[q] = gone[q]
      BY <1>1, GoneGrows
    <3>2. ~Finish(p)
      BY DEF Finish, TypeInv, TypeOK
    <3>3. ASSUME UNCHANGED <<op, seen, hit>>, todo'[q] \subseteq todo[q],
                 pc'[q] \in {"begin", "write"} => pc[q] \in {"begin", "write"}
          PROVE  Doomed(q)'
      BY <1>0, <3>1, <3>3 DEF Found
    <3>4. ASSUME pc'[q] \notin {"begin", "write"}, UNCHANGED <<op, hit>>
          PROVE  Doomed(q)'
      BY <1>0, <3>1, <3>4
    <3>5. CASE ReadCurrent(p)
      <4>1. op[q].kind = "snapshot" /\ UNCHANGED <<op, seen>>
        BY <3>5, ReadFacts DEF PhaseInv
      <4>2. todo'[q] \subseteq Found(q) \cup InScope(op[q])
        <5>1. \E rows : todo' = [todo EXCEPT ![p] = Found(p) \cup Missing(p, rows)]
          BY <3>5, ReadPicks, Zenon DEF ReadRows
        <5>2. QED
          BY <3>5, <5>1 DEF Missing, TypeInv, TypeOK
      <4>3. QED
        BY <4>1, <4>2 DEF Found
    <3>6. CASE Select(p)
      <4>1. op[q].kind \in {"delete", "clean"} /\ UNCHANGED <<op, hit>>
        BY <3>2, <3>6, SelectFacts DEF PhaseInv
      <4>2. todo'[q] \subseteq hit[q]
        BY <3>2, <3>6, SelectFacts DEF TypeInv, TypeOK
      <4>3. QED
        BY <1>0, <3>1, <4>1, <4>2
    <3>7. ASSUME NEW f \in Paths, Examine(p, f) PROVE Doomed(q)'
      <4>1. UNCHANGED <<op, pc>> /\ pc[q] = "examine"
        BY <3>7 DEF Examine
      <4>2. CASE op[q].kind = "clean"
        <5>1. hit'[q] = IF disk[f] = Absent THEN hit[q] \cup {f} ELSE hit[q]
          BY <3>7, <4>2 DEF Examine, Deviates, TypeInv, TypeOK
        <5>2. disk[f] = Absent => f \in gone[q]
          BY DEF GoneInv
        <5>3. QED
          BY <1>0, <3>1, <4>1, <4>2, <5>1, <5>2
      <4>3. CASE op[q].kind # "clean"
        BY <4>1, <4>3
      <4>4. QED
        BY <4>2, <4>3
    <3>8. CASE Begin(p) \/ \E f \in Paths : \/ WriteEntry(p, f) \/ RemoveEntry(p, f)
                                           \/ SaveAlert(p, f) \/ SaveBaseline(p, f)
      BY <3>3, <3>8 DEF Begin, WriteEntry, RemoveEntry, SaveAlert, SaveBaseline,
                        TypeInv, TypeOK
    <3>9. CASE Open(p)
      <4>1. op[p] \in Operation /\ pc'[q] = NextOf(op[q]) /\ UNCHANGED <<op, hit>>
        BY <3>9 DEF Open, TypeInv, TypeOK
      <4>2. pc'[q] \notin {"begin", "write"}
        BY <4>1 DEF NextOf, Operation, Kinds
      <4>3. QED
        BY <3>4, <4>1, <4>2
    <3>10. CASE List(p) \/ Examined(p)
      BY <3>2, <3>4, <3>10, ListFacts DEF Examined, TypeInv, TypeOK
    <3>11. CASE \E f \in Paths : CollectPath(p, f) \/ CollectSkips(p, f)
      BY <3>4, <3>11 DEF CollectPath, CollectSkips
    <3>12. ~(\/ BeginFails(p) \/ Commit(p) \/ Done(p) \/ Rollback(p) \/ Crash(p)
             \/ \E f \in Paths : CollectFails(p, f))
      BY <3>2 DEF BeginFails, Commit, Done, Rollback, Crash, CollectFails
    <3>13. ~\E o \in Ops : Launch(p, o)
      BY DEF Launch
    <3>14. QED
      BY <1>1, <3>5, <3>6, <3>7, <3>8, <3>9, <3>10, <3>11, <3>12, <3>13
         DEF Acts, Step, Fault
  <2>5. QED
    BY <2>1, <2>2, <2>3, <2>4
<1>2. ASSUME NEW f \in Paths, NEW v \in Value, Edit(f, v) PROVE Doomed(q)'
  <2>1. /\ UNCHANGED <<pc, op, todo, hit, seen>> /\ gone[q] \subseteq gone'[q]
    BY <1>2, EditKeeps
  <2>2. QED
    BY <1>0, <2>1 DEF Found
<1>3. CASE UNCHANGED <<disk, legacy, db, tx, writer, pc, op, id, todo, seen, current,
                       hit, stats, gone, skipped>>
  BY <1>0, <1>3 DEF Found
<1>4. QED
  BY <1>1, <1>2, <1>3, WhoActs

(* Only BEGIN takes the write lock, only the end of a transaction gives it  *)
(* up; who does not hold it changes neither the transaction's image nor,    *)
(* while another does, what is committed.                                   *)
LEMMA WithoutLock ==
  ASSUME NEW p \in Procs, Acts(p),
         ~(Begin(p) \/ Commit(p) \/ Rollback(p) \/ (Crash(p) /\ writer = p))
  PROVE  /\ UNCHANGED writer
         /\ pc[p] # "write" /\ writer # Nobody => UNCHANGED <<db, tx>>
<1>1. CASE \E o \in Ops : Launch(p, o)
  BY <1>1 DEF Launch
<1>2. CASE \/ Crash(p) /\ writer # p
           \/ \E f \in Paths : CollectFails(p, f) \/ CollectSkips(p, f)
  BY <1>2 DEF Crash, CollectFails, CollectSkips
<1>3. CASE Open(p) \/ Examined(p)
  BY <1>3 DEF Open, Examined, InitTable
<1>4. CASE ReadCurrent(p) \/ BeginFails(p) \/ Select(p) \/ List(p) \/ Done(p)
  BY <1>4, ReadFacts, SelectFacts, ListFacts DEF BeginFails, Done
<1>5. CASE \E f \in Paths : WriteEntry(p, f) \/ RemoveEntry(p, f)
  BY <1>5 DEF WriteEntry, RemoveEntry
<1>6. CASE \E f \in Paths : \/ CollectPath(p, f) \/ Examine(p, f)
                           \/ SaveAlert(p, f) \/ SaveBaseline(p, f)
  BY <1>6 DEF CollectPath, Examine, SaveAlert, SaveBaseline
<1>7. CASE Step(p)
  BY <1>3, <1>4, <1>5, <1>6, <1>7 DEF Step
<1>8. CASE Fault(p)
  BY <1>2, <1>8 DEF Fault
<1>9. QED
  BY <1>1, <1>7, <1>8 DEF Acts

(* Only RemoveEntry drops an entry from the transaction's image, and nobody *)
(* else touches the image or the committed entries meanwhile.               *)
LEMMA StepKept == KeepInv /\ [Next]_vars => KeptInv'
<1> SUFFICES ASSUME KeepInv, [Next]_vars, NEW q \in Procs, NEW f \in Paths,
                    writer' = q, op'[q].kind \in {"snapshot", "clean"},
                    Has(db'.entries, f), ~Has(tx'.entries, f)
             PROVE  f \in gone'[q] \cup op'[q].glob \cup skipped'[q]
  BY DEF KeptInv
<1> USE BaselineStoreAssumption
<1>0. /\ TypeInv /\ Exclusive /\ ScanInv /\ DoomInv /\ KeptInv /\ Nobody \notin Procs
      /\ db \in Database /\ tx \in Database
  BY DEF KeepInv, TypeInv, TypeOK
<1>1. ASSUME NEW p \in Procs, Acts(p) PROVE f \in gone'[q] \cup op'[q].glob \cup skipped'[q]
  <2>1. ASSUME writer = q, UNCHANGED <<db, tx>>, op'[q] = op[q],
               gone'[q] = gone[q], skipped[q] \subseteq skipped'[q]
        PROVE  f \in gone'[q] \cup op'[q].glob \cup skipped'[q]
    BY <1>0, <2>1 DEF KeptInv
  <2>2. CASE Begin(p)
    BY <2>2 DEF Begin
  <2>3. CASE Commit(p) \/ Rollback(p) \/ (Crash(p) /\ writer = p)
    BY <1>0, <2>3 DEF Commit, Rollback, Crash, Release
  <2>4. CASE q # p /\ ~(Begin(p) \/ Commit(p) \/ Rollback(p) \/ (Crash(p) /\ writer = p))
    <3>1. op'[q] = op[q] /\ gone'[q] = gone[q] /\ skipped'[q] = skipped[q]
      BY <1>0, <1>1, <2>4, OthersKeep
    <3>2. UNCHANGED writer
      BY <1>1, <2>4, WithoutLock
    <3>3. writer = q /\ pc[p] # "write"
      BY <1>0, <2>4, <3>2 DEF Exclusive
    <3>4. UNCHANGED <<db, tx>>
      BY <1>0, <1>1, <2>4, <3>3, WithoutLock
    <3>5. QED
      BY <2>1, <3>1, <3>3, <3>4
  <2>5. CASE q = p /\ \E g \in Paths : WriteEntry(p, g) \/ RemoveEntry(p, g)
    <3>1. PICK g \in Paths : WriteEntry(p, g) \/ RemoveEntry(p, g)
      BY <2>5
    <3>2. /\ pc[q] = "write" /\ writer = q /\ g \in todo[q]
          /\ UNCHANGED <<db, op, gone, skipped>>
      BY <1>0, <2>5, <3>1 DEF WriteEntry, RemoveEntry, Quiet, Exclusive
    <3>3. /\ current[q] \in Entries /\ id[q] \in Runs
      BY <1>0, <3>2 DEF TypeInv, TypeOK, Numbered
    <3>4. CASE tx'.entries[f] = tx.entries[f]
      BY <1>0, <3>2, <3>4 DEF KeptInv, Has
    <3>5. CASE tx'.entries[f] # tx.entries[f]
      <4>1. CASE WriteEntry(p, g)
        <5>1. \E type \in {"added", "modified"} : tx' = Audited(tx, p, g, type, Fresh(p, g))
          BY <3>5, <4>1 DEF WriteEntry
        <5>2. f = g /\ tx'.entries[f] = Fresh(p, g)
          BY <1>0, <3>5, <5>1 DEF Audited, Database, Entries
        <5>3. seen[p][g] # Absent
          BY <4>1 DEF WriteEntry, Found
        <5>4. QED
          BY <5>2, <5>3 DEF Fresh, Has, NoEntry
      <4>2. CASE RemoveEntry(p, g)
        <5>1. \E type \in {"removed", "delete"} : tx' = Audited(tx, p, g, type, NoEntry)
          BY <4>2 DEF RemoveEntry
        <5>2. f = g
          BY <1>0, <3>5, <5>1 DEF Audited, Database, Entries
        <5>3. CASE op[q].kind = "clean"
          BY <1>0, <3>2, <5>2, <5>3 DEF DoomInv
        <5>4. CASE op[q].kind = "snapshot"
          <6>1. f \notin Found(q)
            BY <2>5, <3>2, <4>2, <5>2 DEF RemoveEntry
          <6>2. f \in InScope(op[q]) /\ seen[q][f] = Absent
            BY <1>0, <3>2, <5>2, <5>4, <6>1 DEF DoomInv, Found
          <6>3. f \in op[q].glob \/ f \in Collected(op[q])
            BY <6>2 DEF InScope, Collected
          <6>4. QED
            BY <1>0, <3>2, <5>4, <6>2, <6>3 DEF ScanInv
        <5>5. QED
          BY <3>2, <5>3, <5>4
      <4>3. QED
        BY <3>1, <4>1, <4>2
    <3>6. QED
      BY <3>4, <3>5
  <2>6. CASE /\ q = p
             /\ ~(Begin(p) \/ Commit(p) \/ Rollback(p) \/ (Crash(p) /\ writer = p))
             /\ ~\E g \in Paths : WriteEntry(p, g) \/ RemoveEntry(p, g)
    <3>1. UNCHANGED writer
      BY <1>1, <2>6, WithoutLock
    <3>2. writer = p /\ pc[p] = "write"
      BY <1>0, <2>6, <3>1 DEF Exclusive
    <3>3. QED
      BY <1>1, <2>6, <3>2 DEF Acts, Step, Fault, Launch, Open, ReadCurrent, BeginFails,
         Select, List, Examined, Done, CollectPath, Examine, SaveAlert, SaveBaseline,
         CollectFails, CollectSkips
  <2>7. QED
    BY <2>2, <2>3, <2>4, <2>5, <2>6
<1>2. ASSUME NEW g \in Paths, NEW v \in Value, Edit(g, v)
      PROVE  f \in gone'[q] \cup op'[q].glob \cup skipped'[q]
  <2>1. UNCHANGED <<db, tx, writer, op>> /\ gone[q] \subseteq gone'[q]
        /\ skipped'[q] = skipped[q]
    BY <1>0, <1>2, EditKeeps
  <2>2. QED
    BY <1>0, <2>1 DEF KeptInv
<1>3. QED
  BY <1>0, <1>1, <1>2, WhoActs DEF KeptInv

(* The parts together are inductive. *)
LEMMA StepKeep == KeepInv /\ [Next]_vars => KeepInv'
  BY StepType, StepExclusive, StepGone, StepScan, StepPhase, StepDoom, StepKept DEF KeepInv

(***************************************************************************)
(* Neither a snapshot nor clean drops the entry of a file that was on disk *)
(* all the time it ran, whatever other processes do to the database and    *)
(* other files meanwhile, except where a glob excludes the file or the     *)
(* scan passed it over, as it does below a directory without permission    *)
(* (CollectPath, skip_permission_denied, in_scope, FileExistsOnDisk).      *)
(***************************************************************************)
THEOREM NothingPresentIsDroppedTheorem == Spec => NothingPresentIsDropped
<1> DEFINE Drops(p, f) == /\ Commits(p, "snapshot") \/ Commits(p, "clean")
                          /\ Has(db.entries, f) /\ ~Has(db'.entries, f)
<1>1. ASSUME KeepInv, [Next]_vars, NEW p \in Procs, NEW f \in Paths, Drops(p, f)
      PROVE  f \in gone[p] \cup op[p].glob \cup skipped[p]
  <2>1. pc[p] = "write" /\ db' = Closed(tx, p) /\ op[p].kind \in {"snapshot", "clean"}
    BY <1>1 DEF Commits, Commit
  <2>2. writer = p
    BY <1>1, <2>1 DEF KeepInv, Exclusive
  <2>3. tx \in Database
    BY <1>1 DEF KeepInv, TypeInv, TypeOK
  <2>4. db'.entries = tx.entries
    BY <2>1, <2>3 DEF Closed, Database
  <2>5. QED
    BY <1>1, <2>1, <2>2, <2>4 DEF KeepInv, KeptInv
<1>2. KeepInv /\ [Next]_vars
      => [\A p \in Procs, f \in Paths :
            /\ Commits(p, "snapshot") \/ Commits(p, "clean")
            /\ Has(db.entries, f) /\ ~Has(db'.entries, f)
            => f \in gone[p] \cup op[p].glob \cup skipped[p]]_vars
  BY <1>1
<1>3. QED
  BY <1>2, InitKeep, StepKeep, PTL DEF Spec, NothingPresentIsDropped

-----------------------------------------------------------------------------
(* Every snapshot is accounted for: what is claimed of each step *)

(* What an operation of run r has recorded in a database. *)
RecOf(d, r, type) ==
  {f \in Paths : \E i \in DOMAIN d.audit[f] :
                   d.audit[f][i].run = r /\ d.audit[f][i].type = type}

SnapshotTypes == {"added", "modified", "removed"}

(* A run that left nothing behind. *)
Blank(d, r) == d.snapshots[r] = NoStats /\ \A t \in SnapshotTypes : RecOf(d, r, t) = {}

(* A run whose row tells what its records say. *)
Tallied(d, r) ==
  LET s == d.snapshots[r]
  IN  /\ Cardinality(RecOf(d, r, "added")) = s.added
      /\ Cardinality(RecOf(d, r, "modified")) = s.modified
      /\ Cardinality(RecOf(d, r, "removed")) = s.removed
      /\ s.scanned = s.added + s.modified + s.unchanged

(* No two running processes share a number, and none has a later one. *)
IdInv ==
  /\ \A p \in Procs : pc[p] # "idle" => id[p] <= runs
  /\ \A p, q \in Procs : pc[p] # "idle" /\ pc[q] # "idle" /\ id[p] = id[q] => p = q

Fixed(r) == r <= runs /\ \A p \in Procs : pc[p] # "idle" => id[p] # r

(* What a run writes shows when it has committed, and only then. *)
BlankInv == \A r \in Runs : Fixed(r) \/ Blank(db, r)

TallyInv == \A r \in Runs : Tallied(db, r)

(* A transaction adds records of its own run only. *)
TxInv ==
  \A p \in Procs : writer = p =>
    /\ tx.snapshots = db.snapshots
    /\ \A r \in Runs \ {id[p]}, t \in SnapshotTypes : RecOf(tx, r, t) = RecOf(db, r, t)

(* What a snapshot makes of a path it found, or did not find. *)
Fate(p, t) ==
  CASE t = "added"     -> {f \in Found(p) : ~Has(current[p], f)}
    [] t = "modified"  -> {f \in Found(p) : Has(current[p], f) /\ current[p][f] # Fresh(p, f)}
    [] t = "unchanged" -> {f \in Found(p) : current[p][f] = Fresh(p, f)}
    [] t = "removed"   -> Missing(p, current[p])

(* The counters of a snapshot: what was done, those of removals what is to  *)
(* be done.                                                                 *)
Counts(p) ==
  /\ stats[p] = [scanned   |-> Cardinality(Found(p)),
                 added     |-> Cardinality(Fate(p, "added") \ todo[p]),
                 modified  |-> Cardinality(Fate(p, "modified") \ todo[p]),
                 removed   |-> Cardinality(Fate(p, "removed")),
                 unchanged |-> Cardinality(Fate(p, "unchanged") \ todo[p])]
  /\ todo[p] \subseteq Found(p) \cup Fate(p, "removed")

(* A snapshot counts right, and has all to do when its transaction begins. *)
CountInv ==
  \A p \in Procs : pc[p] \in {"begin", "write"} /\ op[p].kind = "snapshot" =>
    /\ Counts(p)
    /\ pc[p] = "begin" => Found(p) \subseteq todo[p] /\ Fate(p, "removed") \subseteq todo[p]

(* So do the records. *)
WriteInv ==
  \A p \in Procs, t \in SnapshotTypes : pc[p] = "write" =>
    RecOf(tx, id[p], t) = IF op[p].kind = "snapshot" THEN Fate(p, t) \ todo[p] ELSE {}

AccountInv == /\ TypeInv /\ Exclusive /\ PhaseInv /\ IdInv /\ BlankInv /\ TallyInv
              /\ TxInv /\ CountInv /\ WriteInv

-----------------------------------------------------------------------------
(* Records of one database *)

(* An audited change adds its path to the records of its run and kind. *)
LEMMA AuditedRecords ==
  ASSUME NEW d \in Database, NEW p \in Procs, NEW f \in Paths,
         NEW type \in {"added", "modified", "removed", "delete"},
         NEW entry, entry.ver \in Value,
         current[p] \in Entries, id[p] \in Runs, NEW r, NEW t
  PROVE  /\ r = id[p] /\ t = type
            => RecOf(Audited(d, p, f, type, entry), r, t) = RecOf(d, r, t) \cup {f}
         /\ r # id[p] \/ t # type
            => RecOf(Audited(d, p, f, type, entry), r, t) = RecOf(d, r, t)
<1> DEFINE rec == [type |-> type, old |-> current[p][f].ver,
                   new |-> entry.ver, run |-> id[p]]
           a == Audited(d, p, f, type, entry)
           In(log) == \E i \in DOMAIN log : log[i].run = r /\ log[i].type = t
<1>1. rec \in Changes /\ rec.run = id[p] /\ rec.type = type
  BY DEF Changes, Entries
<1>2. ASSUME NEW g \in Paths
      PROVE  a.audit[g] = IF g = f THEN Append(d.audit[f], rec) ELSE d.audit[g]
  BY DEF Audited, Database
<1>3. d.audit[f] \in Seq(Changes)
  BY DEF Database
<1>4. In(Append(d.audit[f], rec)) <=> In(d.audit[f]) \/ (r = id[p] /\ t = type)
  <2> HIDE DEF rec
  <2>1. DOMAIN Append(d.audit[f], rec) = 1..(Len(d.audit[f]) + 1)
    BY <1>1, <1>3
  <2>2. DOMAIN d.audit[f] = 1..Len(d.audit[f]) /\ Len(d.audit[f]) \in Nat
    BY <1>3
  <2>3. \A i \in 1..Len(d.audit[f]) : Append(d.audit[f], rec)[i] = d.audit[f][i]
    BY <1>1, <1>3
  <2>4. Append(d.audit[f], rec)[Len(d.audit[f]) + 1] = rec
    BY <1>1, <1>3
  <2>5. QED
    BY <1>1, <2>1, <2>2, <2>3, <2>4
<1>5. ASSUME NEW g \in Paths
      PROVE  g \in RecOf(a, r, t)
             <=> g \in RecOf(d, r, t) \/ (g = f /\ r = id[p] /\ t = type)
  <2>1. g \in RecOf(a, r, t) <=> In(a.audit[g])
    BY DEF RecOf
  <2>2. g \in RecOf(d, r, t) <=> In(d.audit[g])
    BY DEF RecOf
  <2> HIDE DEF a, rec, In
  <2>3. QED
    BY <1>2, <1>4, <2>1, <2>2
<1>6. RecOf(a, r, t) \subseteq Paths /\ RecOf(d, r, t) \subseteq Paths
  BY DEF RecOf
<1> HIDE DEF a
<1>7. r = id[p] /\ t = type => RecOf(a, r, t) = RecOf(d, r, t) \cup {f}
  BY <1>5, <1>6
<1>8. r # id[p] \/ t # type => RecOf(a, r, t) = RecOf(d, r, t)
  BY <1>5, <1>6
<1>9. QED
  BY <1>7, <1>8 DEF a

(* Opening the database leaves records and rows alone. *)
LEMMA MigratedRecords ==
  ASSUME NEW d \in Database
  PROVE  /\ Migrated(d).snapshots = d.snapshots
         /\ \A r, t : RecOf(Migrated(d), r, t) = RecOf(d, r, t)
<1>1. Migrated(d).audit = d.audit /\ Migrated(d).snapshots = d.snapshots
  BY DEF Migrated, Database
<1>2. QED
  BY <1>1 DEF RecOf

(* The row a snapshot commits is its own. *)
LEMMA ClosedRecords ==
  ASSUME NEW d \in Database, NEW p \in Procs, id[p] \in Runs
  PROVE  /\ \A r \in Runs : Closed(d, p).snapshots[r]
               = IF op[p].kind = "snapshot" /\ r = id[p] THEN stats[p] ELSE d.snapshots[r]
         /\ \A r, t : RecOf(Closed(d, p), r, t) = RecOf(d, r, t)
<1>1. Closed(d, p).audit = d.audit
  BY DEF Closed, Database
<1>2. ASSUME NEW r \in Runs
      PROVE  Closed(d, p).snapshots[r]
             = IF op[p].kind = "snapshot" /\ r = id[p] THEN stats[p] ELSE d.snapshots[r]
  BY DEF Closed, Database
<1>3. QED
  BY <1>1, <1>2 DEF RecOf

(* Nothing is recorded before the first run. *)
LEMMA EmptyBlank ==
  ASSUME NEW r \in Runs PROVE Blank(EmptyDatabase, r)
  BY DEF Blank, EmptyDatabase, RecOf

(* A run that left nothing behind counts nothing. *)
LEMMA BlankTallied ==
  ASSUME NEW d, NEW r, Blank(d, r) PROVE Tallied(d, r)
<1>1. \A t \in SnapshotTypes : Cardinality(RecOf(d, r, t)) = 0
  BY FS_EmptySet DEF Blank
<1>2. QED
  BY <1>1 DEF Blank, Tallied, NoStats, SnapshotTypes

-----------------------------------------------------------------------------
(* Who changes run numbers, counters and records *)

(* The private variables of a process that the trail is read with are its own. *)
LEMMA OthersCount ==
  ASSUME TypeInv, NEW p \in Procs, Acts(p), NEW q \in Procs, q # p
  PROVE  id'[q] = id[q] /\ stats'[q] = stats[q] /\ current'[q] = current[q]
<1> USE DEF TypeInv, TypeOK
<1>1. ASSUME NEW o \in Ops, Launch(p, o)
      PROVE  id'[q] = id[q] /\ stats'[q] = stats[q] /\ current'[q] = current[q]
  BY <1>1 DEF Launch
<1>2. CASE Fault(p)
  BY <1>2
     DEF Fault, Rollback, Crash, CollectFails, Finish, CollectSkips
<1>3. CASE \/ Open(p) \/ Begin(p) \/ BeginFails(p) \/ Commit(p) \/ Select(p) \/ List(p)
           \/ Done(p)
  BY <1>3, SelectFacts, ListFacts DEF Open, Begin, BeginFails, Commit, Done, Finish
<1>4. CASE Examined(p) \/ ReadCurrent(p)
  <2>1. CASE ReadCurrent(p)
    <3>1. \E rows : current' = [current EXCEPT ![p] = rows]
      BY <2>1, ReadPicks, Zenon DEF ReadRows
    <3>2. \E new : stats' = [stats EXCEPT ![p] = new]
      BY <2>1, ReadPicks, Zenon DEF ReadRows
    <3>3. QED
      BY <2>1, <3>1, <3>2, ReadFacts
  <2>2. CASE Examined(p)
    BY <2>2 DEF Examined, Finish
  <2>3. QED
    BY <1>4, <2>1, <2>2
<1>5. ASSUME NEW f \in Paths,
             \/ CollectPath(p, f) \/ WriteEntry(p, f) \/ RemoveEntry(p, f)
             \/ Examine(p, f) \/ SaveAlert(p, f) \/ SaveBaseline(p, f)
      PROVE  id'[q] = id[q] /\ stats'[q] = stats[q] /\ current'[q] = current[q]
  BY <1>5 DEF CollectPath, WriteEntry, RemoveEntry, Examine, SaveAlert, SaveBaseline
<1>6. QED
  BY <1>1, <1>2, <1>3, <1>4, <1>5 DEF Acts, Step

(* A running process keeps its operation and number until it ends. *)
LEMMA NumberKept ==
  ASSUME TypeInv, NEW p \in Procs, Acts(p), pc[p] # "idle"
  PROVE  /\ runs' = runs
         /\ pc'[p] # "idle" => id'[p] = id[p] /\ op'[p] = op[p]
<1> USE DEF TypeInv, TypeOK
<1>1. ~\E o \in Ops : Launch(p, o)
  BY DEF Launch
<1>2. CASE Fault(p)
  BY <1>2
     DEF Fault, Rollback, Crash, CollectFails, Finish, CollectSkips
<1>3. CASE \/ Open(p) \/ ReadCurrent(p) \/ Begin(p) \/ BeginFails(p) \/ Commit(p)
           \/ Select(p) \/ List(p) \/ Done(p)
  BY <1>3, ReadFacts, SelectFacts, ListFacts
     DEF Open, Begin, BeginFails, Commit, Done, Finish
<1>4. CASE Examined(p)
  BY <1>4 DEF Examined, Finish
<1>5. CASE \E f \in Paths :
             \/ CollectPath(p, f) \/ WriteEntry(p, f) \/ RemoveEntry(p, f)
             \/ Examine(p, f) \/ SaveAlert(p, f) \/ SaveBaseline(p, f)
  BY <1>5 DEF CollectPath, WriteEntry, RemoveEntry, Examine, SaveAlert, SaveBaseline
<1>6. QED
  BY <1>1, <1>2, <1>3, <1>4, <1>5 DEF Acts, Step

(* Only COMMIT changes what is committed, but for rows of the old table. *)
LEMMA CommittedBy ==
  ASSUME NEW p \in Procs, Acts(p), ~Commit(p)
  PROVE  db' \in {db, Migrated(db)}
<1>1. CASE \E o \in Ops : Launch(p, o)
  BY <1>1 DEF Launch
<1>2. CASE Fault(p)
  BY <1>2
     DEF Fault, Rollback, Crash, CollectFails, CollectSkips
<1>3. CASE \/ Open(p) \/ ReadCurrent(p) \/ Begin(p) \/ BeginFails(p)
           \/ Select(p) \/ List(p) \/ Examined(p) \/ Done(p)
  BY <1>3, ReadFacts, SelectFacts, ListFacts
     DEF Open, Begin, BeginFails, Examined, Done, InitTable
<1>4. CASE \E f \in Paths :
             \/ CollectPath(p, f) \/ WriteEntry(p, f) \/ RemoveEntry(p, f)
             \/ Examine(p, f) \/ SaveAlert(p, f) \/ SaveBaseline(p, f)
  BY <1>4 DEF CollectPath, WriteEntry, RemoveEntry, Examine, SaveAlert, SaveBaseline
<1>5. QED
  BY <1>1, <1>2, <1>3, <1>4 DEF Acts, Step

(* A file that is edited has no part in it. *)
LEMMA EditCounts ==
  ASSUME NEW f \in Paths, NEW v \in Value, Edit(f, v)
  PROVE  UNCHANGED <<db, tx, writer, pc, op, id, todo, seen, current, stats, runs>>
  BY DEF Edit, procvars

-----------------------------------------------------------------------------
(* Every snapshot is accounted for *)

(* Run numbers are given out once. *)
LEMMA StepId == TypeInv /\ IdInv /\ [Next]_vars => IdInv'
<1> SUFFICES ASSUME TypeInv, IdInv, [Next]_vars PROVE IdInv'
  OBVIOUS
<1>0. runs \in Nat /\ \A q \in Procs : id[q] \in Nat
  BY BaselineStoreAssumption DEF TypeInv, TypeOK
<1>1. ASSUME NEW p \in Procs, Acts(p) PROVE IdInv'
  <2>1. \A q \in Procs \ {p} : pc'[q] = pc[q] /\ id'[q] = id[q]
    BY <1>1, OthersKeep, OthersCount
  <2>2. CASE pc[p] = "idle"
    <3>1. PICK o \in Ops : Launch(p, o)
      BY <1>1, <2>2, IdleLaunches
    <3>2. runs' = runs + 1 /\ id'[p] = runs + 1
      BY <3>1 DEF Launch, TypeInv, TypeOK
    <3>3. QED
      BY <1>0, <2>1, <3>2 DEF IdInv
  <2>3. CASE pc[p] # "idle"
    BY <1>1, <2>1, <2>3, NumberKept DEF IdInv
  <2>4. QED
    BY <2>2, <2>3
<1>2. CASE UNCHANGED <<pc, id, runs>>
  BY <1>2 DEF IdInv
<1>3. CASE UNCHANGED vars
  BY <1>2, <1>3 DEF vars, procvars
<1>4. QED
  BY <1>1, <1>2, <1>3, EditCounts DEF Next, Acts

(* A run that is over stays over. *)
LEMMA FixedStays ==
  ASSUME TypeInv, NEW p \in Procs, Acts(p), NEW r \in Runs, Fixed(r)
  PROVE  Fixed(r)'
<1>0. runs \in Nat
  BY BaselineStoreAssumption DEF TypeInv, TypeOK
<1>1. \A q \in Procs \ {p} : pc'[q] = pc[q] /\ id'[q] = id[q]
  BY OthersKeep, OthersCount
<1>2. CASE pc[p] = "idle"
  <2>1. PICK o \in Ops : Launch(p, o)
    BY <1>2, IdleLaunches
  <2>2. runs' = runs + 1 /\ id'[p] = runs + 1
    BY <2>1 DEF Launch, TypeInv, TypeOK
  <2>3. QED
    BY <1>0, <1>1, <2>2 DEF Fixed, Runs
<1>3. CASE pc[p] # "idle"
  BY <1>1, <1>3, NumberKept DEF Fixed
<1>4. QED
  BY <1>2, <1>3

(* What a committed transaction leaves of the other runs is what there was. *)
LEMMA CommitOfOthers ==
  ASSUME TypeInv, Exclusive, TxInv, NEW p \in Procs, Commit(p), NEW r \in Runs, r # id[p]
  PROVE  /\ db'.snapshots[r] = db.snapshots[r]
         /\ \A t \in SnapshotTypes : RecOf(db', r, t) = RecOf(db, r, t)
<1>1. pc[p] = "write" /\ writer = p /\ db' = Closed(tx, p)
  BY DEF Commit, Exclusive
<1>2. id[p] \in Runs /\ tx \in Database
  BY <1>1 DEF TypeInv, TypeOK, Numbered
<1>3. tx.snapshots = db.snapshots /\ \A t \in SnapshotTypes : RecOf(tx, r, t) = RecOf(db, r, t)
  BY <1>1 DEF TxInv
<1>4. /\ Closed(tx, p).snapshots[r] = tx.snapshots[r]
      /\ \A t : RecOf(Closed(tx, p), r, t) = RecOf(tx, r, t)
  BY <1>2, ClosedRecords
<1>5. QED
  BY <1>1, <1>3, <1>4

(* A run shows nothing before it commits. *)
LEMMA StepBlank ==
  TypeInv /\ Exclusive /\ IdInv /\ TxInv /\ BlankInv /\ [Next]_vars => BlankInv'
<1> SUFFICES ASSUME TypeInv, Exclusive, IdInv, TxInv, BlankInv, [Next]_vars, NEW r \in Runs
             PROVE  Fixed(r)' \/ Blank(db', r)
  BY DEF BlankInv, Blank, RecOf
<1>0. Fixed(r) \/ Blank(db, r)
  BY DEF BlankInv
<1>1. ASSUME NEW p \in Procs, Acts(p) PROVE Fixed(r)' \/ Blank(db', r)
  <2>1. CASE Fixed(r)
    BY <1>1, <2>1, FixedStays
  <2>2. CASE Blank(db, r) /\ ~Commit(p)
    <3>1. db \in Database
      BY DEF TypeInv, TypeOK
    <3>2. QED
      BY <1>1, <2>2, <3>1, CommittedBy, MigratedRecords DEF Blank
  <2>3. CASE Blank(db, r) /\ Commit(p) /\ r # id[p]
    BY <2>3, CommitOfOthers DEF Blank
  <2>4. CASE Commit(p) /\ r = id[p]
    <3>1. pc[p] = "write" /\ pc'[p] = "idle"
      BY <2>4 DEF Commit, Finish, TypeInv, TypeOK
    <3>2. \A q \in Procs \ {p} : pc'[q] = pc[q] /\ id'[q] = id[q]
      BY <1>1, OthersKeep, OthersCount
    <3>3. runs' = runs
      BY <2>4 DEF Commit
    <3>4. QED
      BY <2>4, <3>1, <3>2, <3>3 DEF IdInv, Fixed
  <2>5. QED
    BY <1>0, <2>1, <2>2, <2>3, <2>4
<1>2. CASE UNCHANGED <<db, pc, id, runs>>
  BY <1>0, <1>2 DEF Fixed
<1>3. CASE UNCHANGED vars
  BY <1>2, <1>3 DEF vars, procvars
<1>4. QED
  BY <1>1, <1>2, <1>3, EditCounts DEF Next, Acts

(* In a transaction, the process that holds it only writes an entry or ends. *)
LEMMA InTransaction ==
  ASSUME NEW p \in Procs, Acts(p), pc[p] = "write"
  PROVE  \/ Commit(p) \/ Rollback(p) \/ Crash(p)
         \/ \E f \in Paths : WriteEntry(p, f) \/ RemoveEntry(p, f)
  BY ReadFacts, SelectFacts, ListFacts
     DEF Acts, Step, Fault, Launch, Open, Begin, BeginFails, Examined, Done,
         CollectPath, Examine, SaveAlert, SaveBaseline, CollectFails, CollectSkips

(* What writing an entry does to the transaction's image. *)
LEMMA WriteShape ==
  ASSUME TypeInv, NEW p \in Procs, NEW f \in Paths, WriteEntry(p, f) \/ RemoveEntry(p, f)
  PROVE  /\ tx \in Database /\ pc[p] = "write" /\ f \in todo[p]
         /\ UNCHANGED <<db, writer, pc, op, id, seen, current>>
         /\ todo'[p] = todo[p] \ {f}
         /\ \/ UNCHANGED tx
            \/ \E type \in {"added", "modified", "removed", "delete"},
                  entry \in [ver : Value, legacy : BOOLEAN] :
                    tx' = Audited(tx, p, f, type, entry)
         /\ current[p] \in Entries /\ id[p] \in Runs
<1>1. tx \in Database /\ current[p] \in Entries /\ id[p] \in Runs
  BY DEF TypeInv, TypeOK, Numbered, WriteEntry, RemoveEntry
<1>2. Fresh(p, f) \in [ver : Value, legacy : BOOLEAN]
  BY DEF Fresh, TypeInv, TypeOK
<1>3. NoEntry \in [ver : Value, legacy : BOOLEAN]
  BY DEF NoEntry, Value
<1>4. \/ UNCHANGED tx
      \/ \E type \in {"added", "modified", "removed", "delete"},
            entry \in [ver : Value, legacy : BOOLEAN] :
              tx' = Audited(tx, p, f, type, entry)
  BY <1>2, <1>3 DEF WriteEntry, RemoveEntry
<1>5. todo'[p] = todo[p] \ {f}
  BY DEF WriteEntry, RemoveEntry, TypeInv, TypeOK
<1>6. QED
  BY <1>1, <1>4, <1>5 DEF WriteEntry, RemoveEntry

(* An audited change leaves the rows of the snapshots alone. *)
LEMMA AuditedRows ==
  ASSUME NEW d \in Database, NEW p, NEW f, NEW type, NEW entry
  PROVE  Audited(d, p, f, type, entry).snapshots = d.snapshots
  BY DEF Audited, Database

(* A transaction records its own run only. *)
LEMMA StepTx == TypeInv /\ Exclusive /\ TxInv /\ [Next]_vars => TxInv'
<1> SUFFICES ASSUME TypeInv, Exclusive, TxInv, [Next]_vars, NEW q \in Procs, writer' = q
             PROVE  /\ tx'.snapshots = db'.snapshots
                    /\ \A r \in Runs \ {id'[q]}, t \in SnapshotTypes :
                          RecOf(tx', r, t) = RecOf(db', r, t)
  BY DEF TxInv, RecOf
<1> USE BaselineStoreAssumption
<1> DEFINE Goal == /\ tx'.snapshots = db'.snapshots
                   /\ \A r \in Runs \ {id'[q]}, t \in SnapshotTypes :
                         RecOf(tx', r, t) = RecOf(db', r, t)
<1>0. Nobody \notin Procs
  OBVIOUS
<1>1. ASSUME writer = q, UNCHANGED <<db, tx>>, id'[q] = id[q] PROVE Goal
  BY <1>1 DEF TxInv
<1>2. ASSUME NEW p \in Procs, Acts(p) PROVE Goal
  <2>1. CASE Begin(p)
    BY <2>1 DEF Begin
  <2>2. CASE Commit(p) \/ Rollback(p) \/ (Crash(p) /\ writer = p)
    BY <1>0, <2>2 DEF Commit, Rollback, Crash, Release
  <2>3. CASE /\ q # p
             /\ ~(Begin(p) \/ Commit(p) \/ Rollback(p) \/ (Crash(p) /\ writer = p))
    <3>1. writer = q /\ pc[p] # "write"
      BY <1>2, <2>3, WithoutLock DEF Exclusive
    <3>2. UNCHANGED <<db, tx>> /\ id'[q] = id[q]
      BY <1>0, <1>2, <2>3, <3>1, WithoutLock, OthersCount
    <3>3. QED
      BY <1>1, <3>1, <3>2
  <2>4. CASE /\ q = p
             /\ ~(Begin(p) \/ Commit(p) \/ Rollback(p) \/ (Crash(p) /\ writer = p))
    <3>1. writer = q /\ pc[q] = "write"
      BY <1>2, <2>4, WithoutLock DEF Exclusive
    <3>2. PICK f \in Paths : WriteEntry(q, f) \/ RemoveEntry(q, f)
      BY <1>2, <2>4, <3>1, InTransaction
    <3>3. tx \in Database /\ UNCHANGED <<db, id>> /\ current[q] \in Entries /\ id[q] \in Runs
      BY <3>2, WriteShape
    <3>4. CASE UNCHANGED tx
      BY <1>1, <3>1, <3>3, <3>4
    <3>5. CASE \E type \in {"added", "modified", "removed", "delete"},
                  entry \in [ver : Value, legacy : BOOLEAN] :
                    tx' = Audited(tx, q, f, type, entry)
      <4>1. PICK type \in {"added", "modified", "removed", "delete"},
                 entry \in [ver : Value, legacy : BOOLEAN] :
                   tx' = Audited(tx, q, f, type, entry)
        BY <3>5
      <4>2. tx'.snapshots = tx.snapshots
        BY <3>3, <4>1, AuditedRows
      <4>3. \A r \in Runs \ {id[q]}, t \in SnapshotTypes : RecOf(tx', r, t) = RecOf(tx, r, t)
        BY <3>3, <4>1, AuditedRecords
      <4>4. QED
        BY <3>1, <3>3, <4>2, <4>3 DEF TxInv
    <3>6. QED
      BY <3>2, <3>4, <3>5, WriteShape
  <2>5. QED
    BY <2>1, <2>2, <2>3, <2>4
<1>3. CASE UNCHANGED <<db, tx, writer, id>>
  BY <1>1, <1>3
<1>4. CASE UNCHANGED vars
  BY <1>3, <1>4 DEF vars, procvars
<1>5. QED
  BY <1>2, <1>3, <1>4, EditCounts DEF Next, Acts

(* A process is in a transaction only by BEGIN, and a snapshot comes to it  *)
(* from reading the entries.                                                *)
LEMMA IntoTransaction ==
  ASSUME TypeInv, PhaseInv, NEW p \in Procs, Acts(p)
  PROVE  /\ pc'[p] = "write"
            => Begin(p) \/ \E f \in Paths : WriteEntry(p, f) \/ RemoveEntry(p, f)
         /\ pc'[p] = "begin" /\ op'[p].kind = "snapshot" => ReadCurrent(p)
<1> USE DEF TypeInv, TypeOK
<1>1. CASE Open(p)
  <2>1. op[p] \in Operation /\ pc'[p] = NextOf(op[p])
    BY <1>1 DEF Open
  <2>2. QED
    BY <2>1 DEF NextOf, Operation, Kinds
<1>2. CASE Select(p)
  <2>1. pc'[p] = "idle" \/ (pc'[p] = "begin" /\ op' = op /\ op[p].kind # "snapshot")
    BY <1>2, SelectFacts
       DEF Finish, PhaseInv
  <2>2. QED
    BY <2>1
<1>3. CASE \/ Fault(p) \/ (\E o \in Ops : Launch(p, o))
           \/ BeginFails(p) \/ Commit(p) \/ List(p) \/ Examined(p) \/ Done(p)
  BY <1>3, ListFacts
     DEF Launch, Fault, Rollback, Crash, CollectFails, BeginFails, Commit, Examined,
         Done, Finish, CollectSkips
<1>4. CASE \E f \in Paths : \/ CollectPath(p, f) \/ Examine(p, f)
                           \/ SaveAlert(p, f) \/ SaveBaseline(p, f)
  BY <1>4 DEF CollectPath, Examine, SaveAlert, SaveBaseline
<1>5. CASE ReadCurrent(p) \/ Begin(p)
  BY <1>5, ReadFacts
     DEF Begin
<1>6. ASSUME NEW f \in Paths, WriteEntry(p, f) \/ RemoveEntry(p, f)
      PROVE  pc'[p] = "write"
  BY <1>6 DEF WriteEntry, RemoveEntry
<1>7. QED
  BY <1>1, <1>2, <1>3, <1>4, <1>5, <1>6 DEF Acts, Step

(* What a snapshot makes of a path depends on its scan, its roots and the   *)
(* entries it read.                                                         *)
LEMMA FateKept ==
  ASSUME NEW p \in Procs, op'[p] = op[p], seen'[p] = seen[p], current'[p] = current[p]
  PROVE  /\ Found(p)' = Found(p)
         /\ Fate(p, "added")' = Fate(p, "added")
         /\ Fate(p, "modified")' = Fate(p, "modified")
         /\ Fate(p, "unchanged")' = Fate(p, "unchanged")
         /\ Fate(p, "removed")' = Fate(p, "removed")
<1>1. Found(p)' = Found(p)
  BY DEF Found
<1>2. \A f : Fresh(p, f)' = Fresh(p, f)
  BY DEF Fresh
<1>3. QED
  BY <1>1, <1>2 DEF Fate, Missing

(* A path that was found is of one kind, one that was not is removed. *)
LEMMA OneFate ==
  ASSUME NEW p \in Procs, NEW f \in Paths
  PROVE  /\ f \in Fate(p, "added") <=> f \in Found(p) /\ ~Has(current[p], f)
         /\ f \in Fate(p, "modified")
            <=> f \in Found(p) /\ Has(current[p], f) /\ current[p][f] # Fresh(p, f)
         /\ f \in Fate(p, "unchanged") <=> f \in Found(p) /\ current[p][f] = Fresh(p, f)
         /\ f \in Fate(p, "removed") => f \notin Found(p)
         /\ f \in Found(p) /\ current[p][f] = Fresh(p, f) => Has(current[p], f)
<1>1. f \in Fate(p, "added") <=> f \in Found(p) /\ ~Has(current[p], f)
  BY DEF Fate
<1>2. f \in Fate(p, "modified")
      <=> f \in Found(p) /\ Has(current[p], f) /\ current[p][f] # Fresh(p, f)
  BY DEF Fate
<1>3. f \in Fate(p, "unchanged") <=> f \in Found(p) /\ current[p][f] = Fresh(p, f)
  BY DEF Fate
<1>4. f \in Fate(p, "removed") => f \notin Found(p)
  BY DEF Fate, Missing
<1>5. f \in Found(p) /\ current[p][f] = Fresh(p, f) => Has(current[p], f)
  BY DEF Found, Fresh, Has, NoEntry
<1>6. QED
  BY <1>1, <1>2, <1>3, <1>4, <1>5

(* All fates are sets of paths, and only removals are not of what was found. *)
LEMMA FatePaths ==
  ASSUME TypeInv, NEW p \in Procs
  PROVE  /\ Found(p) \subseteq Paths /\ Fate(p, "removed") \subseteq Paths
         /\ \A t \in {"added", "modified", "unchanged"} : Fate(p, t) \subseteq Found(p)
<1>1. op[p] \in Operation
  BY DEF TypeInv, TypeOK
<1>2. Missing(p, current[p]) \subseteq Paths
  BY <1>1 DEF Missing, InScope, Operation
<1>3. Found(p) \subseteq Paths
  BY DEF Found
<1>4. QED
  BY <1>2, <1>3 DEF Fate

(* Visiting a path counts it where it belongs, and nowhere else. *)
LEMMA OneMore ==
  ASSUME NEW S \in SUBSET Paths, NEW T, NEW f \in T
  PROVE  /\ f \in S => /\ S \ (T \ {f}) = (S \ T) \cup {f}
                      /\ Cardinality(S \ (T \ {f})) = Cardinality(S \ T) + 1
         /\ f \notin S => S \ (T \ {f}) = S \ T
         /\ Cardinality(S \ T) \in Nat
<1>1. IsFiniteSet(S \ T)
  <2>1. IsFiniteSet(S)
    BY BaselineStoreAssumption, FS_Subset
  <2>2. S \ T \subseteq S
    OBVIOUS
  <2>3. QED
    BY <2>1, <2>2, FS_Subset
<1>2. Cardinality(S \ T) \in Nat
  BY <1>1, FS_CardinalityType
<1>3. Cardinality((S \ T) \cup {f}) = Cardinality(S \ T) + 1
  BY <1>1, FS_AddElement
<1>4. f \in S => S \ (T \ {f}) = (S \ T) \cup {f}
  OBVIOUS
<1>5. f \notin S => S \ (T \ {f}) = S \ T
  OBVIOUS
<1>6. QED
  BY <1>2, <1>3, <1>4, <1>5

(* A set that is still to be visited has counted nothing. *)
LEMMA NoneYet ==
  ASSUME NEW S, NEW T, S \subseteq T
  PROVE  S \ T = {} /\ Cardinality(S \ T) = 0
<1>1. S \ T = {}
  OBVIOUS
<1>2. QED
  BY <1>1, FS_EmptySet

(* A snapshot that begins has everything to do. *)
LEMMA ReadCounts ==
  ASSUME TypeInv, NEW p \in Procs, ReadCurrent(p)
  PROVE  /\ Counts(p)'
         /\ Found(p)' \subseteq todo'[p] /\ Fate(p, "removed")' \subseteq todo'[p]
<1> PICK held \in SUBSET Held(db.entries) : ReadRows(p, Rows(db.entries, held))
  BY ReadPicks
<1> DEFINE rows == Rows(db.entries, held)
<1>1. /\ op' = op /\ seen' = seen /\ current'[p] = rows
      /\ todo'[p] = Found(p) \cup Missing(p, rows)
      /\ stats'[p] = [NoStats EXCEPT !.scanned = Cardinality(Found(p)),
                                     !.removed = Cardinality(Missing(p, rows))]
  BY ReadFacts DEF ReadRows, TypeInv, TypeOK
<1> HIDE DEF rows
<1>2. Found(p)' = Found(p)
  BY <1>1 DEF Found
<1>3. Fate(p, "removed")' = Missing(p, rows)
  BY <1>1, <1>2 DEF Fate, Missing
<1>4. \A t \in {"added", "modified", "unchanged"} : Fate(p, t)' \subseteq Found(p)'
  BY DEF Fate
<1>5. \A t \in {"added", "modified", "unchanged"} :
         Cardinality(Fate(p, t)' \ todo'[p]) = 0
  <2>1. ASSUME NEW t \in {"added", "modified", "unchanged"}
        PROVE  Cardinality(Fate(p, t)' \ todo'[p]) = 0
    <3>1. Fate(p, t)' \subseteq todo'[p]
      BY <1>1, <1>2, <1>4
    <3>2. QED
      BY <3>1, NoneYet
  <2>2. QED
    BY <2>1
<1>6. stats'[p] = [scanned   |-> Cardinality(Found(p)'),
                   added     |-> Cardinality(Fate(p, "added")' \ todo'[p]),
                   modified  |-> Cardinality(Fate(p, "modified")' \ todo'[p]),
                   removed   |-> Cardinality(Fate(p, "removed")'),
                   unchanged |-> Cardinality(Fate(p, "unchanged")' \ todo'[p])]
  <2>1. stats'[p] = [scanned |-> Cardinality(Found(p)), added |-> 0, modified |-> 0,
                     removed |-> Cardinality(Missing(p, rows)), unchanged |-> 0]
    BY <1>1 DEF NoStats
  <2>2. QED
    BY <1>2, <1>3, <1>5, <2>1
<1>7. QED
  BY <1>1, <1>2, <1>3, <1>6 DEF Counts

(* One counter goes up by one. *)
LEMMA CountedFields ==
  ASSUME NEW n \in Nat, NEW a \in Nat, NEW m \in Nat, NEW r \in Nat, NEW u \in Nat,
         NEW s, s = [scanned |-> n, added |-> a, modified |-> m, removed |-> r, unchanged |-> u]
  PROVE  /\ Counted(s, "added")
            = [scanned |-> n, added |-> a + 1, modified |-> m, removed |-> r, unchanged |-> u]
         /\ Counted(s, "modified")
            = [scanned |-> n, added |-> a, modified |-> m + 1, removed |-> r, unchanged |-> u]
         /\ Counted(s, "unchanged")
            = [scanned |-> n, added |-> a, modified |-> m, removed |-> r, unchanged |-> u + 1]
<1>1. s.scanned = n /\ s.added = a /\ s.modified = m /\ s.removed = r /\ s.unchanged = u
  OBVIOUS
<1>2. Counted(s, "added")
      = [scanned |-> n, added |-> a + 1, modified |-> m, removed |-> r, unchanged |-> u]
  BY <1>1 DEF Counted
<1>3. Counted(s, "modified")
      = [scanned |-> n, added |-> a, modified |-> m + 1, removed |-> r, unchanged |-> u]
  BY <1>1 DEF Counted
<1>4. Counted(s, "unchanged")
      = [scanned |-> n, added |-> a, modified |-> m, removed |-> r, unchanged |-> u + 1]
  BY <1>1 DEF Counted
<1>5. QED
  BY <1>2, <1>3, <1>4

(* Visiting a found path counts it once, by its kind. *)
LEMMA WriteCounts ==
  ASSUME TypeInv, NEW p \in Procs, NEW f \in Paths, WriteEntry(p, f), Counts(p)
  PROVE  Counts(p)'
<1>1. /\ UNCHANGED <<op, seen, current>> /\ todo'[p] = todo[p] \ {f}
      /\ f \in todo[p] /\ f \in Found(p) /\ stats[p] \in Counters
  BY DEF WriteEntry, TypeInv, TypeOK
<1>2. /\ Found(p)' = Found(p)
      /\ Fate(p, "added")' = Fate(p, "added")
      /\ Fate(p, "modified")' = Fate(p, "modified")
      /\ Fate(p, "unchanged")' = Fate(p, "unchanged")
      /\ Fate(p, "removed")' = Fate(p, "removed")
  BY <1>1, FateKept
<1>3. \A t \in {"added", "modified", "unchanged"} :
        /\ Cardinality(Fate(p, t) \ todo[p]) \in Nat
        /\ Cardinality(Fate(p, t) \ (todo[p] \ {f}))
           = IF f \in Fate(p, t) THEN Cardinality(Fate(p, t) \ todo[p]) + 1
                                 ELSE Cardinality(Fate(p, t) \ todo[p])
  <2> TAKE t \in {"added", "modified", "unchanged"}
  <2>1. Fate(p, t) \in SUBSET Paths
    BY FatePaths
  <2>2. f \in todo[p]
    BY <1>1
  <2>3. Cardinality(Fate(p, t) \ todo[p]) \in Nat
    BY <2>1, <2>2, OneMore
  <2>4. CASE f \in Fate(p, t)
    BY <2>1, <2>2, <2>3, <2>4, OneMore
  <2>5. CASE f \notin Fate(p, t)
    BY <2>1, <2>2, <2>3, <2>5, OneMore
  <2>6. QED
    BY <2>4, <2>5
<1>4. \E k \in {"added", "modified", "unchanged"} :
        /\ stats'[p] = Counted(stats[p], k)
        /\ \A t \in {"added", "modified", "unchanged"} : f \in Fate(p, t) <=> t = k
  <2>1. CASE current[p][f] = Fresh(p, f)
    <3>1. stats'[p] = Counted(stats[p], "unchanged")
      BY <2>1 DEF WriteEntry, TypeInv, TypeOK
    <3>2. QED
      BY <1>1, <2>1, <3>1, OneFate
  <2>2. CASE current[p][f] # Fresh(p, f) /\ Has(current[p], f)
    <3>1. stats'[p] = Counted(stats[p], "modified")
      BY <2>2 DEF WriteEntry, TypeInv, TypeOK
    <3>2. QED
      BY <1>1, <2>2, <3>1, OneFate
  <2>3. CASE current[p][f] # Fresh(p, f) /\ ~Has(current[p], f)
    <3>1. stats'[p] = Counted(stats[p], "added")
      BY <2>3 DEF WriteEntry, TypeInv, TypeOK
    <3>2. QED
      BY <1>1, <2>3, <3>1, OneFate
  <2>4. QED
    BY <2>1, <2>2, <2>3
<1>5. stats'[p] = [scanned   |-> Cardinality(Found(p)),
                   added     |-> Cardinality(Fate(p, "added") \ (todo[p] \ {f})),
                   modified  |-> Cardinality(Fate(p, "modified") \ (todo[p] \ {f})),
                   removed   |-> Cardinality(Fate(p, "removed")),
                   unchanged |-> Cardinality(Fate(p, "unchanged") \ (todo[p] \ {f}))]
  <2>1. PICK k \in {"added", "modified", "unchanged"} :
          /\ stats'[p] = Counted(stats[p], k)
          /\ \A t \in {"added", "modified", "unchanged"} : f \in Fate(p, t) <=> t = k
    BY <1>4
  <2>2. stats[p] = [scanned   |-> Cardinality(Found(p)),
                    added     |-> Cardinality(Fate(p, "added") \ todo[p]),
                    modified  |-> Cardinality(Fate(p, "modified") \ todo[p]),
                    removed   |-> Cardinality(Fate(p, "removed")),
                    unchanged |-> Cardinality(Fate(p, "unchanged") \ todo[p])]
    BY DEF Counts
  <2>3. /\ Cardinality(Found(p)) \in Nat /\ Cardinality(Fate(p, "removed")) \in Nat
        /\ \A t \in {"added", "modified", "unchanged"} :
             Cardinality(Fate(p, t) \ todo[p]) \in Nat
    BY <1>1, <1>3, <2>2 DEF Counters
  <2>4. CASE k = "added"
    BY <1>3, <2>1, <2>2, <2>3, <2>4, CountedFields
  <2>5. CASE k = "modified"
    BY <1>3, <2>1, <2>2, <2>3, <2>5, CountedFields
  <2>6. CASE k = "unchanged"
    BY <1>3, <2>1, <2>2, <2>3, <2>6, CountedFields
  <2>7. QED
    BY <2>1, <2>4, <2>5, <2>6
<1>6. QED
  BY <1>1, <1>2, <1>5 DEF Counts

(* A removal was counted when it was planned. *)
LEMMA RemoveCounts ==
  ASSUME TypeInv, NEW p \in Procs, NEW f \in Paths, RemoveEntry(p, f), Counts(p)
  PROVE  Counts(p)'
<1>1. /\ UNCHANGED <<op, seen, current, stats>> /\ todo'[p] = todo[p] \ {f}
      /\ f \in todo[p] /\ f \notin Found(p)
  BY DEF RemoveEntry, TypeInv, TypeOK
<1>2. /\ Found(p)' = Found(p)
      /\ Fate(p, "added")' = Fate(p, "added")
      /\ Fate(p, "modified")' = Fate(p, "modified")
      /\ Fate(p, "unchanged")' = Fate(p, "unchanged")
      /\ Fate(p, "removed")' = Fate(p, "removed")
  BY <1>1, FateKept
<1>3. \A t \in {"added", "modified", "unchanged"} :
        Fate(p, t) \ (todo[p] \ {f}) = Fate(p, t) \ todo[p]
  BY <1>1, FatePaths
<1>4. QED
  BY <1>1, <1>2, <1>3 DEF Counts

(* A snapshot counts right at every step of its transaction. *)
LEMMA StepCount == TypeInv /\ PhaseInv /\ CountInv /\ [Next]_vars => CountInv'
<1> DEFINE Right(q) ==
      pc[q] \in {"begin", "write"} /\ op[q].kind = "snapshot" =>
        /\ Counts(q)
        /\ pc[q] = "begin" => Found(q) \subseteq todo[q] /\ Fate(q, "removed") \subseteq todo[q]
<1> SUFFICES ASSUME TypeInv, PhaseInv, CountInv, [Next]_vars, NEW q \in Procs
             PROVE  Right(q)'
  BY DEF CountInv
<1>0. Right(q)
  BY DEF CountInv
<1>1. ASSUME /\ op'[q] = op[q] /\ seen'[q] = seen[q] /\ current'[q] = current[q]
             /\ todo'[q] = todo[q] /\ stats'[q] = stats[q],
             pc'[q] = pc[q] \/ (pc'[q] = "write" /\ pc[q] = "begin")
      PROVE  Right(q)'
  <2>1. /\ Found(q)' = Found(q)
        /\ Fate(q, "added")' = Fate(q, "added")
        /\ Fate(q, "modified")' = Fate(q, "modified")
        /\ Fate(q, "unchanged")' = Fate(q, "unchanged")
        /\ Fate(q, "removed")' = Fate(q, "removed")
    BY <1>1, FateKept
  <2>2. QED
    BY <1>0, <1>1, <2>1 DEF Counts
<1>2. ASSUME NEW p \in Procs, Acts(p) PROVE Right(q)'
  <2>1. CASE q # p
    BY <1>1, <1>2, <2>1, OthersKeep, OthersCount
  <2>2. CASE q = p /\ pc'[q] \notin {"begin", "write"}
    BY <2>2
  <2>3. CASE q = p /\ ReadCurrent(p)
    BY <2>3, ReadCounts
  <2>4. CASE q = p /\ Begin(p)
    BY <1>1, <2>4 DEF Begin, TypeInv, TypeOK
  <2>5. ASSUME q = p, NEW f \in Paths, WriteEntry(p, f) \/ RemoveEntry(p, f)
        PROVE  Right(q)'
    <3>1. pc' = pc /\ op' = op /\ pc[q] = "write"
      BY <2>5, WriteShape
    <3>2. QED
      BY <1>0, <2>5, <3>1, WriteCounts, RemoveCounts
  <2>6. QED
    <3>1. op'[q].kind # "snapshot" => Right(q)'
      OBVIOUS
    <3>2. QED
      BY <1>2, <2>1, <2>2, <2>3, <2>4, <2>5, <3>1, IntoTransaction
<1>3. CASE UNCHANGED <<pc, op, todo, seen, current, stats>>
  BY <1>1, <1>3
<1>4. CASE UNCHANGED vars
  BY <1>3, <1>4 DEF vars, procvars
<1>5. QED
  BY <1>2, <1>3, <1>4, EditCounts DEF Next, Acts

(* Each path that is visited is recorded once, by what became of it. *)
LEMMA WriteRecords ==
  ASSUME TypeInv, CountInv, NEW p \in Procs, NEW f \in Paths,
         WriteEntry(p, f) \/ RemoveEntry(p, f), NEW t \in SnapshotTypes,
         RecOf(tx, id[p], t) = IF op[p].kind = "snapshot" THEN Fate(p, t) \ todo[p] ELSE {}
  PROVE  RecOf(tx', id[p], t)
         = IF op[p].kind = "snapshot" THEN Fate(p, t) \ (todo[p] \ {f}) ELSE {}
<1>1. tx \in Database /\ current[p] \in Entries /\ id[p] \in Runs /\ f \in todo[p]
      /\ pc[p] = "write"
  BY WriteShape
<1>2. ASSUME op[p].kind = "snapshot", f \notin Fate(p, t), RecOf(tx', id[p], t) = RecOf(tx, id[p], t)
      PROVE  RecOf(tx', id[p], t) = Fate(p, t) \ (todo[p] \ {f})
  BY <1>2
<1>3. ASSUME op[p].kind = "snapshot", f \in Fate(p, t),
             RecOf(tx', id[p], t) = RecOf(tx, id[p], t) \cup {f}
      PROVE  RecOf(tx', id[p], t) = Fate(p, t) \ (todo[p] \ {f})
  BY <1>3
<1>4. CASE WriteEntry(p, f)
  <2>1. f \in Found(p) /\ op[p].kind = "snapshot"
    BY <1>4 DEF WriteEntry
  <2>2. CASE current[p][f] = Fresh(p, f)
    <3>1. UNCHANGED tx
      BY <1>4, <2>2 DEF WriteEntry
    <3>2. f \notin Fate(p, t)
      BY <2>1, <2>2, OneFate DEF SnapshotTypes
    <3>3. QED
      BY <1>2, <2>1, <3>1, <3>2
  <2>3. CASE current[p][f] # Fresh(p, f)
    <3>1. Fresh(p, f).ver \in Value
      BY DEF Fresh, TypeInv, TypeOK
    <3>2. PICK type \in {"added", "modified"} :
            /\ tx' = Audited(tx, p, f, type, Fresh(p, f))
            /\ type = IF Has(current[p], f) THEN "modified" ELSE "added"
      BY <1>4, <2>3 DEF WriteEntry
    <3>3. f \in Fate(p, t) <=> t = type
      BY <2>1, <2>3, <3>2, OneFate DEF SnapshotTypes
    <3>4. /\ t = type => RecOf(tx', id[p], t) = RecOf(tx, id[p], t) \cup {f}
          /\ t # type => RecOf(tx', id[p], t) = RecOf(tx, id[p], t)
      <4>1. type \in {"added", "modified", "removed", "delete"}
        BY <3>2
      <4>2. CASE t = type
        BY <1>1, <3>1, <3>2, <4>1, <4>2, AuditedRecords
      <4>3. CASE t # type
        BY <1>1, <3>1, <3>2, <4>1, <4>3, AuditedRecords
      <4>4. QED
        BY <4>2, <4>3
    <3>5. QED
      BY <1>2, <1>3, <2>1, <3>3, <3>4
  <2>4. QED
    BY <2>2, <2>3
<1>5. CASE RemoveEntry(p, f)
  <2>1. f \notin Found(p)
    BY <1>1, <1>5 DEF RemoveEntry
  <2>2. NoEntry.ver \in Value
    BY DEF NoEntry, Value
  <2>3. CASE op[p].kind = "snapshot"
    <3>1. tx' = Audited(tx, p, f, "removed", NoEntry)
      BY <1>5, <2>3 DEF RemoveEntry
    <3>2. /\ t = "removed" => RecOf(tx', id[p], t) = RecOf(tx, id[p], t) \cup {f}
          /\ t # "removed" => RecOf(tx', id[p], t) = RecOf(tx, id[p], t)
      BY <1>1, <2>2, <3>1, AuditedRecords
    <3>3. f \in Fate(p, "removed")
      BY <1>1, <2>1, <2>3 DEF CountInv, Counts
    <3>4. f \in Fate(p, t) <=> t = "removed"
      BY <2>1, <3>3, OneFate DEF SnapshotTypes
    <3>5. QED
      BY <1>2, <1>3, <2>3, <3>2, <3>4
  <2>4. CASE op[p].kind # "snapshot"
    <3>1. tx' = Audited(tx, p, f, "delete", NoEntry)
      BY <1>5, <2>4 DEF RemoveEntry
    <3>2. RecOf(tx', id[p], t) = RecOf(tx, id[p], t)
      BY <1>1, <2>2, <3>1, AuditedRecords DEF SnapshotTypes
    <3>3. QED
      BY <2>4, <3>2
  <2>5. QED
    BY <2>3, <2>4
<1>6. QED
  BY <1>4, <1>5

(* The records of a transaction are those of what it has visited. *)
LEMMA StepWrite ==
  /\ TypeInv /\ Exclusive /\ PhaseInv /\ IdInv /\ BlankInv /\ CountInv /\ WriteInv
  /\ [Next]_vars
  => WriteInv'
<1> SUFFICES ASSUME TypeInv, Exclusive, PhaseInv, IdInv, BlankInv, CountInv, WriteInv, [Next]_vars,
                    NEW q \in Procs, NEW t \in SnapshotTypes, pc'[q] = "write"
             PROVE  RecOf(tx', id'[q], t)
                    = IF op'[q].kind = "snapshot" THEN Fate(q, t)' \ todo'[q] ELSE {}
  BY DEF WriteInv, RecOf
<1> USE BaselineStoreAssumption
<1> DEFINE Goal == RecOf(tx', id'[q], t)
                   = IF op'[q].kind = "snapshot" THEN Fate(q, t)' \ todo'[q] ELSE {}
<1>1. ASSUME op'[q] = op[q], seen'[q] = seen[q], current'[q] = current[q]
      PROVE  Fate(q, t)' = Fate(q, t)
  BY <1>1, FateKept DEF SnapshotTypes
<1>2. ASSUME /\ op'[q] = op[q] /\ seen'[q] = seen[q] /\ current'[q] = current[q]
             /\ todo'[q] = todo[q] /\ id'[q] = id[q] /\ pc[q] = "write",
             UNCHANGED tx
      PROVE  Goal
  BY <1>1, <1>2 DEF WriteInv
<1>3. ASSUME NEW p \in Procs, Acts(p) PROVE Goal
  <2>1. CASE q # p
    <3>1. pc[q] = "write" /\ writer = q
      BY <1>3, <2>1, OthersKeep DEF Exclusive
    <3>2. /\ pc[p] # "write" /\ writer # Nobody /\ writer # p
      BY <2>1, <3>1 DEF Exclusive
    <3>3. ~(Begin(p) \/ Commit(p) \/ Rollback(p) \/ (Crash(p) /\ writer = p))
      BY <3>2 DEF Begin, Commit, Rollback
    <3>4. UNCHANGED tx
      BY <1>3, <3>2, <3>3, WithoutLock
    <3>5. QED
      BY <1>2, <1>3, <2>1, <3>1, <3>4, OthersKeep, OthersCount
  <2>2. CASE q = p /\ pc[q] = "write"
    <3>1. ~(Commit(p) \/ Rollback(p) \/ Crash(p))
      BY <2>2 DEF Commit, Rollback, Crash, Finish, TypeInv, TypeOK
    <3>2. PICK f \in Paths : WriteEntry(q, f) \/ RemoveEntry(q, f)
      BY <1>3, <2>2, <3>1, InTransaction
    <3>3. UNCHANGED <<op, id, seen, current>> /\ todo'[q] = todo[q] \ {f}
      BY <3>2, WriteShape
    <3>4. Fate(q, t)' = Fate(q, t)
      BY <1>1, <3>3
    <3>5. RecOf(tx', id[q], t)
          = IF op[q].kind = "snapshot" THEN Fate(q, t) \ (todo[q] \ {f}) ELSE {}
      BY <2>2, <3>2, WriteRecords DEF WriteInv
    <3>6. QED
      BY <3>3, <3>4, <3>5
  <2>3. CASE q = p /\ pc[q] # "write"
    <3>1. Begin(q)
      BY <1>3, <2>3, IntoTransaction DEF WriteEntry, RemoveEntry
    <3>2. pc[q] = "begin" /\ tx' = db /\ UNCHANGED <<op, id, seen, current, todo>>
      BY <3>1 DEF Begin
    <3>3. RecOf(db, id[q], t) = {}
      <4>1. id[q] \in Runs /\ ~Fixed(id[q])
        BY <3>2 DEF Fixed, TypeInv, Numbered
      <4>2. QED
        BY <4>1 DEF BlankInv, Blank
    <3>4. op[q].kind = "snapshot" => Fate(q, t) \subseteq todo[q]
      BY <3>2, FatePaths DEF CountInv, SnapshotTypes
    <3>5. Fate(q, t)' = Fate(q, t)
      BY <1>1, <3>2
    <3>6. QED
      BY <3>2, <3>3, <3>4, <3>5
  <2>4. QED
    BY <2>1, <2>2, <2>3
<1>4. CASE UNCHANGED <<pc, op, id, todo, seen, current, tx>>
  BY <1>2, <1>4
<1>5. CASE UNCHANGED vars
  BY <1>4, <1>5 DEF vars, procvars
<1>6. QED
  BY <1>3, <1>4, <1>5, EditCounts DEF Next, Acts

(* The kinds of a snapshot's paths add up to what it scanned. *)
LEMMA FatesAddUp ==
  ASSUME TypeInv, NEW p \in Procs
  PROVE  Cardinality(Found(p)) = Cardinality(Fate(p, "added")) + Cardinality(Fate(p, "modified"))
                                 + Cardinality(Fate(p, "unchanged"))
<1> DEFINE A == Fate(p, "added")
           M == Fate(p, "modified")
           U == Fate(p, "unchanged")
<1>1. Found(p) = (A \cup M) \cup U
  BY OneFate, FatePaths
<1>2. A \cap M = {} /\ (A \cup M) \cap U = {}
  BY OneFate, FatePaths
<1>3. IsFiniteSet(A) /\ IsFiniteSet(M) /\ IsFiniteSet(U)
  <2>1. A \subseteq Paths /\ M \subseteq Paths /\ U \subseteq Paths
    BY FatePaths
  <2> HIDE DEF A, M, U
  <2>2. QED
    BY <2>1, BaselineStoreAssumption, FS_Subset
<1> HIDE DEF A, M, U
<1>4. IsFiniteSet(A \cup M) /\ Cardinality(A \cup M) = Cardinality(A) + Cardinality(M)
  <2>1. /\ IsFiniteSet(A \cup M)
        /\ Cardinality(A \cup M) = Cardinality(A) + Cardinality(M) - Cardinality(A \cap M)
    BY <1>3, FS_Union
  <2>2. Cardinality(A \cap M) = 0
    BY <1>2, FS_EmptySet
  <2>3. Cardinality(A) \in Nat /\ Cardinality(M) \in Nat
    BY <1>3, FS_CardinalityType
  <2>4. QED
    BY <2>1, <2>2, <2>3
<1>5. Cardinality((A \cup M) \cup U) = Cardinality(A) + Cardinality(M) + Cardinality(U)
  <2>1. Cardinality((A \cup M) \cup U)
        = Cardinality(A \cup M) + Cardinality(U) - Cardinality((A \cup M) \cap U)
    BY <1>3, <1>4, FS_Union
  <2>2. Cardinality((A \cup M) \cap U) = 0
    BY <1>2, FS_EmptySet
  <2>3. Cardinality(A) \in Nat /\ Cardinality(M) \in Nat /\ Cardinality(U) \in Nat
    BY <1>3, FS_CardinalityType
  <2>4. QED
    BY <1>4, <2>1, <2>2, <2>3
<1>6. QED
  BY <1>1, <1>5 DEF A, M, U

(* COMMIT publishes a run's records together with a row that counts them. *)
LEMMA CommitTallies ==
  ASSUME TypeInv, Exclusive, TxInv, BlankInv, CountInv, WriteInv, NEW p \in Procs, Commit(p)
  PROVE  Tallied(db', id[p])
<1> DEFINE r == id[p]
<1>1. pc[p] = "write" /\ todo[p] = {} /\ db' = Closed(tx, p) /\ writer = p
  BY DEF Commit, Exclusive
<1>2. tx \in Database /\ r \in Runs
  BY <1>1 DEF TypeInv, TypeOK, Numbered
<1>3. /\ db'.snapshots[r] = IF op[p].kind = "snapshot" THEN stats[p] ELSE tx.snapshots[r]
      /\ \A t \in SnapshotTypes : RecOf(db', r, t) = RecOf(tx, r, t)
  BY <1>1, <1>2, ClosedRecords
<1>4. CASE op[p].kind = "snapshot"
  <2>1. \A t : Fate(p, t) \ todo[p] = Fate(p, t)
    BY <1>1
  <2>2. \A t \in SnapshotTypes : RecOf(db', r, t) = Fate(p, t)
    BY <1>1, <1>3, <1>4, <2>1 DEF WriteInv
  <2>3. db'.snapshots[r] = [scanned   |-> Cardinality(Found(p)),
                            added     |-> Cardinality(Fate(p, "added")),
                            modified  |-> Cardinality(Fate(p, "modified")),
                            removed   |-> Cardinality(Fate(p, "removed")),
                            unchanged |-> Cardinality(Fate(p, "unchanged"))]
    BY <1>1, <1>3, <1>4, <2>1 DEF CountInv, Counts
  <2>4. QED
    BY <2>2, <2>3, FatesAddUp DEF Tallied, SnapshotTypes
<1>5. CASE op[p].kind # "snapshot"
  <2>1. \A t \in SnapshotTypes : RecOf(db', r, t) = {}
    BY <1>1, <1>3, <1>5 DEF WriteInv
  <2>2. ~Fixed(r)
    BY <1>1 DEF Fixed
  <2>3. db'.snapshots[r] = NoStats
    BY <1>1, <1>2, <1>3, <1>5, <2>2 DEF TxInv, BlankInv, Blank
  <2>4. QED
    BY <2>1, <2>3, BlankTallied DEF Blank
<1>6. QED
  BY <1>4, <1>5

(* What is committed tallies, whichever process ends or opens it. *)
LEMMA StepTally ==
  /\ TypeInv /\ Exclusive /\ TxInv /\ BlankInv /\ CountInv /\ WriteInv /\ TallyInv
  /\ [Next]_vars
  => TallyInv'
<1> SUFFICES ASSUME TypeInv, Exclusive, TxInv, BlankInv, CountInv, WriteInv, TallyInv,
                    [Next]_vars, NEW r \in Runs
             PROVE  Tallied(db', r)
  BY DEF TallyInv, Tallied, RecOf
<1>0. Tallied(db, r) /\ db \in Database
  BY DEF TallyInv, TypeInv, TypeOK
<1>1. ASSUME NEW p \in Procs, Acts(p) PROVE Tallied(db', r)
  <2>1. CASE ~Commit(p)
    BY <1>0, <1>1, <2>1, CommittedBy, MigratedRecords DEF Tallied
  <2>2. CASE Commit(p) /\ r # id[p]
    <3>1. /\ db'.snapshots[r] = db.snapshots[r]
          /\ \A t \in SnapshotTypes : RecOf(db', r, t) = RecOf(db, r, t)
      BY <2>2, CommitOfOthers
    <3>2. QED
      BY <1>0, <3>1 DEF Tallied, SnapshotTypes
  <2>3. CASE Commit(p) /\ r = id[p]
    BY <2>3, CommitTallies
  <2>4. QED
    BY <2>1, <2>2, <2>3
<1>2. CASE UNCHANGED db
  BY <1>0, <1>2
<1>3. CASE UNCHANGED vars
  BY <1>2, <1>3 DEF vars
<1>4. QED
  BY <1>1, <1>2, <1>3, EditCounts DEF Next, Acts

(* Nothing has run at first. *)
LEMMA InitAccount == Init => AccountInv
<1> SUFFICES ASSUME Init PROVE AccountInv
  OBVIOUS
<1>1. TypeInv /\ Exclusive /\ PhaseInv
  BY InitKeep DEF KeepInv
<1>2. \A p \in Procs : pc[p] = "idle"
  BY DEF Init
<1>3. \A r \in Runs : Blank(db, r)
  BY EmptyBlank DEF Init
<1>4. IdInv /\ CountInv /\ WriteInv
  BY <1>2 DEF IdInv, CountInv, WriteInv
<1>5. TxInv
  BY BaselineStoreAssumption DEF Init, TxInv
<1>6. BlankInv /\ TallyInv
  BY <1>3, BlankTallied DEF BlankInv, TallyInv
<1>7. QED
  BY <1>1, <1>4, <1>5, <1>6 DEF AccountInv

(***************************************************************************)
(* A snapshot is all or nothing and its row tells what it did: for any     *)
(* number of processes, failures and crashes, a run has committed as many  *)
(* records of each kind as its counters say, each scanned file was counted *)
(* once, and a run that failed or died has left no record (ApplySnapshot,  *)
(* DeleteBaselineEntries).                                                 *)
(***************************************************************************)
THEOREM SnapshotsAccountedTheorem == Spec => []SnapshotsAccounted
<1>1. AccountInv /\ [Next]_vars => AccountInv'
  BY StepType, StepExclusive, StepPhase, StepId, StepBlank, StepTally, StepTx, StepCount,
     StepWrite DEF AccountInv
<1>2. AccountInv => SnapshotsAccounted
  <2> SUFFICES ASSUME AccountInv, NEW r \in Runs PROVE Tallied(db, r)
    BY DEF SnapshotsAccounted, Tallied, Recorded, RecOf
  <2>1. QED
    BY DEF AccountInv, TallyInv
<1>3. QED
  BY <1>1, <1>2, InitAccount, PTL DEF Spec

-----------------------------------------------------------------------------
(* A snapshot takes effect *)

(* What a snapshot has seen of a path that nobody touched, and that it did  *)
(* not pass over, is what is there.                                         *)
SeenInv ==
  \A p \in Procs, f \in Paths :
    /\ pc[p] = "idle" => seen[p][f] = Absent
    /\ pc[p] # "idle" /\ op[p].kind = "snapshot" =>
         /\ pc[p] = "collect" /\ f \in todo[p] => f \in Collected(op[p])
         /\ f \notin Collected(op[p]) => seen[p][f] = Absent
         /\ /\ f \in Collected(op[p]) \ (touched[p] \cup skipped[p])
            /\ pc[p] = "collect" => f \notin todo[p]
            => seen[p][f] = disk[f]

(* What it has read of an entry that nobody touched is what is committed, if *)
(* it was given the row at all.                                             *)
ReadInv ==
  \A p \in Procs, f \in Paths :
    pc[p] \in {"begin", "write"} /\ op[p].kind = "snapshot" /\ f \notin touched[p]
    => current[p][f] \in {db.entries[f], NoEntry}

(* What its transaction makes of a path. *)
MakeInv ==
  \A p \in Procs, f \in Paths : pc[p] = "write" /\ op[p].kind = "snapshot" =>
    /\ f \in todo[p] \/ f \notin Found(p) \cup Missing(p, current[p])
       => tx.entries[f] = db.entries[f]
    /\ f \in Found(p) \ (todo[p] \cup touched[p]) => tx.entries[f] = Fresh(p, f)
    /\ f \in Missing(p, current[p]) \ todo[p] => tx.entries[f] = NoEntry

EffectInv == /\ TypeInv /\ Exclusive /\ PhaseInv /\ CountInv
             /\ SeenInv /\ ReadInv /\ MakeInv

(* A running process is told of every entry and file that others change. *)
LEMMA TouchedTold ==
  ASSUME TypeInv, NEW p \in Procs, Acts(p), NEW q \in Procs, q # p, pc[q] # "idle"
  PROVE  /\ touched[q] \subseteq touched'[q]
         /\ \A f \in Paths : db'.entries[f] # db.entries[f] => f \in touched'[q]
<1> USE DEF TypeInv, TypeOK
<1>1. ASSUME NEW o \in Ops, Launch(p, o)
      PROVE  touched'[q] = touched[q] /\ db' = db
  BY <1>1 DEF Launch
<1>2. CASE Fault(p)
  BY <1>2
     DEF Fault, Rollback, Crash, CollectFails, Quiet, CollectSkips
<1>3. CASE Open(p) \/ Commit(p)
  BY <1>3 DEF Open, Commit, Silent, Note, Differ
<1>4. CASE \/ ReadCurrent(p) \/ Begin(p) \/ BeginFails(p) \/ Select(p) \/ List(p) \/ Done(p)
  BY <1>4, ReadFacts, SelectFacts, ListFacts
     DEF Begin, BeginFails, Done, Quiet
<1>5. CASE Examined(p)
  BY <1>5 DEF Examined, Silent, Note, Differ, Quiet
<1>6. CASE \E f \in Paths :
             \/ CollectPath(p, f) \/ WriteEntry(p, f) \/ RemoveEntry(p, f)
             \/ Examine(p, f) \/ SaveAlert(p, f) \/ SaveBaseline(p, f)
  BY <1>6 DEF CollectPath, WriteEntry, RemoveEntry, Examine, SaveAlert, SaveBaseline, Quiet
<1>7. QED
  BY <1>1, <1>2, <1>3, <1>4, <1>5, <1>6 DEF Acts, Step

(* It is not told of its own changes. *)
LEMMA TouchedOwn ==
  ASSUME TypeInv, NEW p \in Procs, Acts(p), pc[p] # "idle"
  PROVE  touched'[p] = touched[p]
<1> USE DEF TypeInv, TypeOK
<1>1. ~\E o \in Ops : Launch(p, o)
  BY DEF Launch
<1>2. CASE Fault(p)
  BY <1>2
     DEF Fault, Rollback, Crash, CollectFails, Quiet, CollectSkips
<1>3. CASE \/ Open(p) \/ ReadCurrent(p) \/ Begin(p) \/ BeginFails(p) \/ Commit(p)
           \/ Select(p) \/ List(p) \/ Examined(p) \/ Done(p)
  BY <1>3, ReadFacts, SelectFacts, ListFacts
     DEF Open, Begin, BeginFails, Commit, Examined, Done, Silent, Note, Quiet
<1>4. CASE \E f \in Paths :
             \/ CollectPath(p, f) \/ WriteEntry(p, f) \/ RemoveEntry(p, f)
             \/ Examine(p, f) \/ SaveAlert(p, f) \/ SaveBaseline(p, f)
  BY <1>4 DEF CollectPath, WriteEntry, RemoveEntry, Examine, SaveAlert, SaveBaseline, Quiet
<1>5. QED
  BY <1>1, <1>2, <1>3, <1>4 DEF Acts, Step

(* An edit touches its file. *)
LEMMA TouchedByEdit ==
  ASSUME TypeInv, NEW g \in Paths, NEW v \in Value, Edit(g, v), NEW q \in Procs
  PROVE  /\ touched[q] \subseteq touched'[q]
         /\ pc[q] # "idle" => g \in touched'[q]
         /\ \A f \in Paths : f # g => disk'[f] = disk[f]
  BY BaselineStoreAssumption DEF Edit, Note, TypeInv, TypeOK

(* A scan records what it finds and nothing else. *)
LEMMA StepSeen == TypeInv /\ SeenInv /\ [Next]_vars => SeenInv'
<1> DEFINE Right(q, f) ==
      /\ pc[q] = "idle" => seen[q][f] = Absent
      /\ pc[q] # "idle" /\ op[q].kind = "snapshot" =>
           /\ pc[q] = "collect" /\ f \in todo[q] => f \in Collected(op[q])
           /\ f \notin Collected(op[q]) => seen[q][f] = Absent
           /\ /\ f \in Collected(op[q]) \ (touched[q] \cup skipped[q])
              /\ pc[q] = "collect" => f \notin todo[q]
              => seen[q][f] = disk[f]
<1> SUFFICES ASSUME TypeInv, SeenInv, [Next]_vars, NEW q \in Procs, NEW f \in Paths
             PROVE  Right(q, f)'
  BY DEF SeenInv
<1>0. Right(q, f)
  BY DEF SeenInv
<1>1. ASSUME op'[q] = op[q], seen'[q] = seen[q], touched[q] \subseteq touched'[q],
             skipped[q] \subseteq skipped'[q],
             disk'[f] # disk[f] => f \in touched'[q] \/ pc[q] = "idle",
             \/ pc'[q] = pc[q] /\ todo'[q] = todo[q]
             \/ pc'[q] # "idle" /\ pc'[q] # "collect" /\ pc[q] # "idle"
                /\ (pc[q] = "collect" => todo[q] = {})
      PROVE  Right(q, f)'
  BY <1>0, <1>1
<1>2. ASSUME NEW p \in Procs, Acts(p) PROVE Right(q, f)'
  <2>1. CASE q # p /\ pc[q] # "idle"
    BY <1>1, <1>2, <2>1, OthersKeep, TouchedTold
  <2>2. CASE q # p /\ pc[q] = "idle"
    <3>1. pc'[q] = "idle" /\ seen'[q] = seen[q]
      BY <1>2, <2>2, OthersKeep
    <3>2. QED
      BY <1>0, <2>2, <3>1
  <2>3. CASE q = p /\ pc[q] = "idle"
    <3>1. PICK o \in Ops : Launch(p, o)
      BY <1>2, <2>3, IdleLaunches
    <3>2. /\ pc'[q] = "collect" /\ op'[q] = o /\ seen'[q] = seen[q]
          /\ o.kind = "snapshot" => todo'[q] = Collected(o)
      BY <2>3, <3>1 DEF Launch, TypeInv, TypeOK
    <3>3. QED
      BY <1>0, <2>3, <3>2
  <2>4. CASE q = p /\ pc'[q] = "idle" /\ pc[q] # "idle"
    <3>1. Finish(p)
      <4>1. CASE Fault(p)
        BY <2>4, <4>1 DEF Fault, Rollback, Crash, CollectFails, CollectSkips
      <4>2. CASE Open(p)
        <5>1. op[p] \in Operation /\ pc'[p] = NextOf(op[p])
          BY <4>2 DEF Open, TypeInv, TypeOK
        <5>2. QED
          BY <2>4, <5>1 DEF NextOf, Operation, Kinds
      <4>3. CASE \/ ReadCurrent(p) \/ Begin(p) \/ BeginFails(p) \/ Commit(p)
                 \/ Select(p) \/ List(p) \/ Examined(p) \/ Done(p)
        BY <2>4, <4>3, ReadFacts, SelectFacts, ListFacts
           DEF Begin, BeginFails, Commit, Examined, Done, TypeInv, TypeOK
      <4>4. CASE \E g \in Paths :
                   \/ CollectPath(p, g) \/ WriteEntry(p, g) \/ RemoveEntry(p, g)
                   \/ Examine(p, g) \/ SaveAlert(p, g) \/ SaveBaseline(p, g)
        BY <2>4, <4>4 DEF CollectPath, WriteEntry, RemoveEntry, Examine, SaveAlert,
                          SaveBaseline
      <4>5. ~\E o \in Ops : Launch(p, o)
        BY <2>4 DEF Launch
      <4>6. QED
        BY <1>2, <4>1, <4>2, <4>3, <4>4, <4>5 DEF Acts, Step
    <3>2. seen'[q][f] = Absent
      BY <2>4, <3>1 DEF Finish, TypeInv, TypeOK
    <3>3. QED
      BY <2>4, <3>2
  <2>5. CASE q = p /\ pc'[q] # "idle" /\ pc[q] # "idle"
    <3> USE <2>5
    <3>1. touched'[q] = touched[q] /\ skipped[q] \subseteq skipped'[q] /\ UNCHANGED disk
      BY <1>2, TouchedOwn, GoneGrows
    <3>2. ~Finish(p)
      BY DEF Finish, TypeInv, TypeOK
    <3>3. ASSUME NEW g \in Paths, CollectPath(p, g) PROVE Right(q, f)'
      <4>1. /\ pc' = pc /\ op' = op /\ pc[q] = "collect" /\ g \in todo[q]
            /\ todo'[q] = todo[q] \ {g}
            /\ seen'[q][f] = IF f = g THEN disk[f] ELSE seen[q][f]
        BY <3>3 DEF CollectPath, TypeInv, TypeOK
      <4>2. CASE f = g
        BY <1>0, <3>1, <4>1, <4>2
      <4>3. CASE f # g
        BY <1>0, <3>1, <4>1, <4>3
      <4>4. QED
        BY <4>2, <4>3
    <3>4. CASE Open(p)
      <4>1. op[p] \in Operation /\ pc'[q] = NextOf(op[q]) /\ UNCHANGED <<op, seen>>
            /\ pc[q] = "collect" /\ todo[q] = {}
        BY <3>4 DEF Open, TypeInv, TypeOK
      <4>2. pc'[q] # "collect"
        BY <4>1 DEF NextOf, Operation, Kinds
      <4>3. QED
        BY <1>1, <3>1, <4>1, <4>2
    <3>5. CASE \/ ReadCurrent(p) \/ Begin(p) \/ Select(p) \/ List(p) \/ Examined(p)
      <4>1. pc'[q] # "collect" /\ pc[q] # "collect" /\ UNCHANGED <<op, seen>>
        BY <3>2, <3>5, ReadFacts, SelectFacts, ListFacts
           DEF Begin, Examined, TypeInv, TypeOK
      <4>2. QED
        BY <1>1, <3>1, <4>1
    <3>6. CASE \E g \in Paths : \/ WriteEntry(p, g) \/ RemoveEntry(p, g) \/ Examine(p, g)
                               \/ SaveAlert(p, g) \/ SaveBaseline(p, g)
      <4>1. pc'[q] # "collect" /\ pc[q] # "collect" /\ UNCHANGED <<op, seen>>
        BY <3>6 DEF WriteEntry, RemoveEntry, Examine, SaveAlert, SaveBaseline
      <4>2. QED
        BY <1>1, <3>1, <4>1
    <3>7. ~(\/ BeginFails(p) \/ Commit(p) \/ Done(p) \/ Rollback(p) \/ Crash(p)
            \/ \E g \in Paths : CollectFails(p, g))
      BY <3>2 DEF BeginFails, Commit, Done, Rollback, Crash, CollectFails
    <3>8. ~\E o \in Ops : Launch(p, o)
      BY DEF Launch
    <3>9. ASSUME NEW g \in Paths, CollectSkips(p, g) PROVE Right(q, f)'
      <4>1. /\ pc' = pc /\ op' = op /\ seen' = seen /\ pc[q] = "collect" /\ g \in todo[q]
            /\ todo'[q] = todo[q] \ {g} /\ g \in skipped'[q]
        BY <3>9 DEF CollectSkips, TypeInv, TypeOK
      <4>2. QED
        BY <1>0, <3>1, <4>1
    <3>10. QED
      BY <1>2, <3>3, <3>4, <3>5, <3>6, <3>7, <3>8, <3>9 DEF Acts, Step, Fault
  <2>6. QED
    BY <2>1, <2>2, <2>3, <2>4, <2>5
<1>3. ASSUME NEW g \in Paths, NEW v \in Value, Edit(g, v) PROVE Right(q, f)'
  BY <1>1, <1>3, EditKeeps, TouchedByEdit
<1>4. CASE UNCHANGED vars
  BY <1>1, <1>4 DEF vars, procvars, history
<1>5. QED
  BY <1>2, <1>3, <1>4 DEF Next, Acts

(* A change of an entry in a transaction is of that entry alone. *)
LEMMA AuditedEntries ==
  ASSUME NEW d \in Database, NEW p, NEW f \in Paths, NEW type, NEW entry, NEW g \in Paths
  PROVE  Audited(d, p, f, type, entry).entries[g] = IF g = f THEN entry ELSE d.entries[g]
  BY DEF Audited, Database, Entries

(* What was read stays true of what nobody touched. *)
LEMMA StepRead == TypeInv /\ PhaseInv /\ ReadInv /\ [Next]_vars => ReadInv'
<1> SUFFICES ASSUME TypeInv, PhaseInv, ReadInv, [Next]_vars, NEW q \in Procs, NEW f \in Paths,
                    pc'[q] \in {"begin", "write"}, op'[q].kind = "snapshot",
                    f \notin touched'[q]
             PROVE  current'[q][f] \in {db'.entries[f], NoEntry}
  BY DEF ReadInv
<1>1. ASSUME pc[q] \in {"begin", "write"}, op'[q] = op[q], current'[q] = current[q],
             touched[q] \subseteq touched'[q], db'.entries[f] = db.entries[f]
      PROVE  current'[q][f] \in {db'.entries[f], NoEntry}
  BY <1>1 DEF ReadInv
<1>2. ASSUME NEW p \in Procs, Acts(p) PROVE current'[q][f] \in {db'.entries[f], NoEntry}
  <2>1. CASE q # p
    <3>1. pc[q] \in {"begin", "write"} /\ op'[q] = op[q] /\ current'[q] = current[q]
      BY <1>2, <2>1, OthersKeep, OthersCount
    <3>2. QED
      BY <1>1, <1>2, <2>1, <3>1, TouchedTold
  <2>2. CASE q = p /\ ReadCurrent(p)
    <3>1. db.entries \in Entries /\ Held(db.entries) \in SUBSET Paths /\ UNCHANGED db
      BY <2>2, ReadFacts DEF Held, TypeInv, TypeOK, Database
    <3>2. \E held \in SUBSET Held(db.entries) : current'[q] = Rows(db.entries, held)
      <4>1. \E held \in SUBSET Held(db.entries) :
               current' = [current EXCEPT ![p] = Rows(db.entries, held)]
        BY <2>2, ReadPicks, Zenon DEF ReadRows
      <4>2. QED
        BY <2>2, <4>1 DEF TypeInv, TypeOK
    <3>3. QED
      BY <3>1, <3>2, RowsType
  <2>3. CASE q = p /\ (Begin(p) \/ \E g \in Paths : WriteEntry(p, g) \/ RemoveEntry(p, g))
    BY <1>1, <2>3 DEF Begin, WriteEntry, RemoveEntry, Quiet
  <2>4. QED
    BY <1>2, <2>1, <2>2, <2>3, IntoTransaction
<1>3. ASSUME NEW g \in Paths, NEW v \in Value, Edit(g, v)
      PROVE  current'[q][f] \in {db'.entries[f], NoEntry}
  BY <1>1, <1>3, EditCounts, TouchedByEdit
<1>4. CASE UNCHANGED vars
  BY <1>1, <1>4 DEF vars, procvars, history
<1>5. QED
  BY <1>2, <1>3, <1>4 DEF Next, Acts

(* Each path that is visited gets the entry it is to have. *)
LEMMA StepMake ==
  TypeInv /\ Exclusive /\ PhaseInv /\ CountInv /\ ReadInv /\ MakeInv /\ [Next]_vars => MakeInv'
<1> DEFINE Made(q, f) ==
      /\ f \in todo[q] \/ f \notin Found(q) \cup Fate(q, "removed")
         => tx.entries[f] = db.entries[f]
      /\ f \in Found(q) \ (todo[q] \cup touched[q]) => tx.entries[f] = Fresh(q, f)
      /\ f \in Fate(q, "removed") \ todo[q] => tx.entries[f] = NoEntry
<1> SUFFICES ASSUME TypeInv, Exclusive, PhaseInv, CountInv, ReadInv, MakeInv, [Next]_vars,
                    NEW q \in Procs, NEW f \in Paths,
                    pc'[q] = "write", op'[q].kind = "snapshot"
             PROVE  Made(q, f)'
  BY DEF MakeInv, Fate
<1> USE BaselineStoreAssumption
<1>1. ASSUME pc[q] = "write", op[q].kind = "snapshot" PROVE Made(q, f)
  BY <1>1 DEF MakeInv, Fate
<1>2. ASSUME op'[q] = op[q], seen'[q] = seen[q], current'[q] = current[q]
      PROVE  /\ Found(q)' = Found(q) /\ Fate(q, "removed")' = Fate(q, "removed")
             /\ Fresh(q, f)' = Fresh(q, f)
  BY <1>2, FateKept DEF Fresh
<1>3. ASSUME pc[q] = "write", op'[q] = op[q], seen'[q] = seen[q], current'[q] = current[q],
             todo'[q] = todo[q], touched[q] \subseteq touched'[q], UNCHANGED <<db, tx>>
      PROVE  Made(q, f)'
  <2>1. Made(q, f)
    BY <1>1, <1>3
  <2>2. /\ Found(q)' = Found(q) /\ Fate(q, "removed")' = Fate(q, "removed")
        /\ Fresh(q, f)' = Fresh(q, f)
    BY <1>2, <1>3
  <2>3. QED
    BY <1>3, <2>1, <2>2
<1>4. ASSUME NEW p \in Procs, Acts(p) PROVE Made(q, f)'
  <2>1. CASE q # p
    <3>1. pc[q] = "write" /\ writer = q
      BY <1>4, <2>1, OthersKeep DEF Exclusive
    <3>2. pc[p] # "write" /\ writer # Nobody /\ writer # p
      BY <2>1, <3>1 DEF Exclusive
    <3>3. ~(Begin(p) \/ Commit(p) \/ Rollback(p) \/ (Crash(p) /\ writer = p))
      BY <3>2 DEF Begin, Commit, Rollback
    <3>4. UNCHANGED <<db, tx>>
      BY <1>4, <3>2, <3>3, WithoutLock
    <3>5. QED
      BY <1>3, <1>4, <2>1, <3>1, <3>4, OthersKeep, OthersCount, TouchedTold
  <2>2. CASE q = p /\ Begin(p)
    <3>1. /\ pc[q] = "begin" /\ tx' = db /\ UNCHANGED <<db, op, seen, current, todo, touched>>
      BY <2>2 DEF Begin, Quiet
    <3>2. Found(q) \subseteq todo[q] /\ Fate(q, "removed") \subseteq todo[q]
      BY <3>1 DEF CountInv
    <3>3. /\ Found(q)' = Found(q) /\ Fate(q, "removed")' = Fate(q, "removed")
      BY <1>2, <3>1
    <3>4. QED
      BY <3>1, <3>2, <3>3
  <2>3. ASSUME q = p, NEW g \in Paths, WriteEntry(p, g) \/ RemoveEntry(p, g)
        PROVE  Made(q, f)'
    <3>1. /\ tx \in Database /\ pc[q] = "write" /\ g \in todo[q]
          /\ UNCHANGED <<db, op, seen, current>> /\ todo'[q] = todo[q] \ {g}
      BY <2>3, WriteShape
    <3>2. touched' = touched
      BY <2>3 DEF WriteEntry, RemoveEntry, Quiet
    <3>3. Made(q, f)
      BY <1>1, <3>1
    <3>4. /\ Found(q)' = Found(q) /\ Fate(q, "removed")' = Fate(q, "removed")
          /\ Fresh(q, f)' = Fresh(q, f)
      BY <1>2, <3>1
    <3>5. CASE f # g
      <4>1. tx'.entries[f] = tx.entries[f]
        BY <2>3, <3>1, <3>5, AuditedEntries DEF WriteEntry, RemoveEntry
      <4>2. QED
        BY <3>1, <3>2, <3>3, <3>4, <3>5, <4>1
    <3>6. CASE f = g /\ WriteEntry(p, g)
      <4>1. f \in Found(q) /\ f \notin Fate(q, "removed")
        BY <2>3, <3>6, OneFate DEF WriteEntry
      <4>2. f \notin touched[q] => tx'.entries[f] = Fresh(q, f)
        <5>1. CASE current[q][f] = Fresh(q, f)
          <6>1. tx' = tx
            BY <2>3, <3>6, <5>1 DEF WriteEntry
          <6>2. f \notin touched[q] => current[q][f] = db.entries[f]
            BY <3>1, <4>1, <5>1, OneFate DEF ReadInv, Has
          <6>3. QED
            BY <3>1, <3>3, <3>6, <5>1, <6>1, <6>2
        <5>2. CASE current[q][f] # Fresh(q, f)
          BY <2>3, <3>1, <3>6, <5>2, AuditedEntries DEF WriteEntry
        <5>3. QED
          BY <5>1, <5>2
      <4>3. QED
        BY <3>1, <3>2, <3>4, <3>6, <4>1, <4>2
    <3>7. CASE f = g /\ RemoveEntry(p, g)
      <4>1. f \notin Found(q)
        BY <2>3, <3>1, <3>7 DEF RemoveEntry
      <4>2. f \in Fate(q, "removed")
        BY <3>1, <3>7, <4>1 DEF CountInv, Counts
      <4>3. tx'.entries[f] = NoEntry
        BY <2>3, <3>1, <3>7, AuditedEntries DEF RemoveEntry
      <4>4. QED
        BY <3>1, <3>4, <3>7, <4>1, <4>2, <4>3
    <3>8. QED
      BY <2>3, <3>5, <3>6, <3>7
  <2>4. QED
    BY <1>4, <2>1, <2>2, <2>3, IntoTransaction
<1>5. ASSUME NEW g \in Paths, NEW v \in Value, Edit(g, v) PROVE Made(q, f)'
  BY <1>3, <1>5, EditCounts, TouchedByEdit
<1>6. CASE UNCHANGED vars
  BY <1>3, <1>6 DEF vars, procvars, history
<1>7. QED
  BY <1>4, <1>5, <1>6 DEF Next, Acts

(* Nobody runs at first. *)
LEMMA InitEffect == Init => EffectInv
<1> SUFFICES ASSUME Init PROVE EffectInv
  OBVIOUS
<1>1. TypeInv /\ Exclusive /\ PhaseInv
  BY InitKeep DEF KeepInv
<1>2. SeenInv /\ CountInv /\ ReadInv /\ MakeInv
  BY DEF Init, SeenInv, CountInv, ReadInv, MakeInv
<1>3. QED
  BY <1>1, <1>2 DEF EffectInv

(***************************************************************************)
(* A snapshot takes effect: whatever other processes do, one that commits  *)
(* leaves each path of its scope that nobody touched since it started, and *)
(* that its scan did not pass over, with the entry of what is on disk, or  *)
(* with none if nothing is, unless the row of what is gone was cut off     *)
(* when it read them; and the entries outside its scope as they were       *)
(* (CollectPath, CurrentEntries, ApplySnapshot, in_scope).                 *)
(***************************************************************************)
THEOREM SnapshotTakesEffectTheorem == Spec => SnapshotTakesEffect
<1> DEFINE Effect(p) == LET scope == op[p].paths \ op[p].prefix
                            OnDisk(f) == db'.entries[f] = [ver |-> disk[f], legacy |-> FALSE]
                            Unread(f) == /\ disk[f] = Absent /\ ~Has(current[p], f)
                                         /\ db'.entries[f] = db.entries[f]
                        IN  /\ \A f \in scope \ (op[p].glob \cup touched[p] \cup skipped[p]) :
                                 OnDisk(f) \/ Unread(f)
                            /\ \A f \in Paths \ scope : db'.entries[f] = db.entries[f]
<1>1. ASSUME EffectInv, NEW p \in Procs, Commits(p, "snapshot") PROVE Effect(p)
  <2> DEFINE scope == op[p].paths \ op[p].prefix
  <2>1. /\ pc[p] = "write" /\ todo[p] = {} /\ op[p].kind = "snapshot"
        /\ db' = Closed(tx, p) /\ TypeInv
    BY <1>1 DEF Commits, Commit, EffectInv
  <2>2. tx \in Database /\ op[p] \in Operation
    BY <2>1 DEF TypeInv, TypeOK
  <2>3. db'.entries = tx.entries
    BY <2>1, <2>2 DEF Closed, Database
  <2>4. scope \subseteq Paths /\ Collected(op[p]) = scope \ op[p].glob
    BY <2>2 DEF Operation, Collected
  <2>5. ASSUME NEW f \in scope \ (op[p].glob \cup touched[p] \cup skipped[p])
        PROVE  \/ tx.entries[f] = [ver |-> disk[f], legacy |-> FALSE]
               \/ /\ disk[f] = Absent /\ ~Has(current[p], f)
                  /\ tx.entries[f] = db.entries[f]
    <3>1. f \in Paths /\ f \in Collected(op[p]) \ (touched[p] \cup skipped[p])
      BY <2>4
    <3>2. seen[p][f] = disk[f]
      BY <1>1, <2>1, <3>1 DEF EffectInv, SeenInv
    <3>3. CASE disk[f] # Absent
      <4>1. f \in Found(p) \ (todo[p] \cup touched[p])
        BY <2>1, <3>1, <3>2, <3>3 DEF Found
      <4>2. QED
        BY <1>1, <2>1, <3>1, <3>2, <4>1 DEF EffectInv, MakeInv, Fresh
    <3>4. CASE disk[f] = Absent
      <4>1. f \notin Found(p) /\ f \in InScope(op[p])
        BY <2>4, <3>2, <3>4 DEF Found, InScope
      <4>2. CASE f \in Missing(p, current[p])
        <5>1. tx.entries[f] = NoEntry
          BY <1>1, <2>1, <3>1, <4>2 DEF EffectInv, MakeInv
        <5>2. QED
          BY <3>4, <5>1 DEF NoEntry
      <4>3. CASE f \notin Missing(p, current[p])
        <5>1. ~Has(current[p], f)
          BY <3>1, <4>1, <4>3 DEF Missing
        <5>2. tx.entries[f] = db.entries[f]
          BY <1>1, <2>1, <3>1, <4>1, <4>3 DEF EffectInv, MakeInv
        <5>3. QED
          BY <3>4, <5>1, <5>2
      <4>4. QED
        BY <4>2, <4>3
    <3>5. QED
      BY <3>3, <3>4
  <2>6. ASSUME NEW f \in Paths \ scope PROVE tx.entries[f] = db.entries[f]
    <3>1. f \notin Missing(p, current[p])
      BY DEF Missing, InScope
    <3>2. f \notin Collected(op[p])
      BY <2>4
    <3>3. f \notin Found(p)
      BY <1>1, <2>1, <3>2 DEF EffectInv, SeenInv, Found
    <3>4. QED
      BY <1>1, <2>1, <3>1, <3>3 DEF EffectInv, MakeInv
  <2>7. QED
    BY <2>3, <2>5, <2>6
<1>2. EffectInv /\ [Next]_vars
      => [\A p \in Procs : Commits(p, "snapshot") =>
            LET scope == op[p].paths \ op[p].prefix
                OnDisk(f) == db'.entries[f] = [ver |-> disk[f], legacy |-> FALSE]
                Unread(f) == /\ disk[f] = Absent /\ ~Has(current[p], f)
                             /\ db'.entries[f] = db.entries[f]
            IN  /\ \A f \in scope \ (op[p].glob \cup touched[p] \cup skipped[p]) :
                     OnDisk(f) \/ Unread(f)
                /\ \A f \in Paths \ scope : db'.entries[f] = db.entries[f]]_vars
  BY <1>1
<1>3. EffectInv /\ [Next]_vars => EffectInv'
  BY StepType, StepExclusive, StepPhase, StepSeen, StepCount, StepRead, StepMake DEF EffectInv
<1>4. QED
  BY <1>2, <1>3, InitEffect, PTL DEF Spec, SnapshotTakesEffect

-----------------------------------------------------------------------------
(* The database implements the ledger: what is claimed of each step *)

(* A run that has left a trace in a database. *)
Used(d, r) ==
  r \in d.done \/ \E f \in Paths : \E i \in DOMAIN d.audit[f] : d.audit[f][i].run = r

(* Only a run that is over has. *)
RunsInv == \A r \in Runs : Used(db, r) => Fixed(r)

(* What the writer's image holds of a path is what is committed, or one     *)
(* record more and the entry it explains.                                   *)
KindsOf(o) == IF o.kind = "snapshot" THEN SnapshotTypes ELSE {"delete"}

Left(d, e, f) == e.audit[f] = d.audit[f] /\ e.entries[f] = d.entries[f]

Entered(d, e, f, r, types) ==
  \E c \in Ledger!Change(r, types) :
    /\ e.audit[f] = Append(d.audit[f], c)
    /\ e.entries[f] = [ver |-> c.new, legacy |-> FALSE]

LogInv ==
  \A p \in Procs : pc[p] = "write" =>
    /\ tx.snapshots = db.snapshots /\ tx.done = db.done
    /\ \A f \in Paths : \/ Left(db, tx, f)
                        \/ f \notin todo[p] /\ Entered(db, tx, f, id[p], KindsOf(op[p]))

LedgerInv == AccountInv /\ RunsInv /\ LogInv

(* A record of a ledger is one of the database. *)
LEMMA ChangeType ==
  ASSUME NEW r \in Runs, NEW types \in SUBSET {"added", "modified", "removed", "delete"},
         NEW c \in Ledger!Change(r, types)
  PROVE  c \in Changes /\ c.run = r /\ c.type \in types /\ c.new \in Value
<1>1. c \in [type : types, old : Value, new : Value, run : {r}]
  BY DEF Ledger!Change, Ledger!Value, Value
<1> HIDE DEF Runs
<1>2. QED
  BY <1>1 DEF Changes

(* Which kinds of record a command writes. *)
LEMMA KindsType ==
  ASSUME NEW o
  PROVE  KindsOf(o) \in SUBSET {"added", "modified", "removed", "delete"}
  BY DEF KindsOf, SnapshotTypes

(* A path with one record more was used by the run of that record, and was  *)
(* before by the runs it had.                                               *)
LEMMA LongerTrail ==
  ASSUME NEW log \in Seq(Changes), NEW c \in Changes
  PROVE  /\ Append(log, c) # log
         /\ Append(log, c)[Len(Append(log, c))] = c
         /\ Len(Append(log, c)) \in DOMAIN Append(log, c)
         /\ \A i \in DOMAIN Append(log, c) :
              (i \in DOMAIN log /\ Append(log, c)[i] = log[i]) \/ Append(log, c)[i] = c
<1>1. Len(Append(log, c)) = Len(log) + 1 /\ Len(log) \in Nat
  OBVIOUS
<1>2. DOMAIN Append(log, c) = 1..(Len(log) + 1) /\ DOMAIN log = 1..Len(log)
  OBVIOUS
<1>3. Append(log, c)[Len(log) + 1] = c
  OBVIOUS
<1>4. \A i \in 1..Len(log) : Append(log, c)[i] = log[i]
  OBVIOUS
<1>5. Append(log, c) # log
  BY <1>1
<1>6. Len(log) + 1 \in 1..(Len(log) + 1)
  BY <1>1
<1>7. \A i \in 1..(Len(log) + 1) : i \in 1..Len(log) \/ i = Len(log) + 1
  BY <1>1
<1>8. QED
  BY <1>1, <1>2, <1>3, <1>4, <1>5, <1>6, <1>7

(* Opening the database leaves no trace of a run. *)
LEMMA MigratedUsed ==
  ASSUME NEW d \in Database, NEW r
  PROVE  Used(Migrated(d), r) <=> Used(d, r)
<1>1. Migrated(d).audit = d.audit /\ Migrated(d).done = d.done
  BY DEF Migrated, Database
<1>2. QED
  BY <1>1 DEF Used

(* What COMMIT publishes is the writer's image and the snapshot's row. *)
LEMMA ClosedFields ==
  ASSUME NEW d \in Database, NEW p \in Procs, id[p] \in Runs
  PROVE  /\ Closed(d, p).audit = d.audit /\ Closed(d, p).entries = d.entries
         /\ op[p].kind = "snapshot" =>
              /\ Closed(d, p).done = d.done \cup {id[p]}
              /\ Closed(d, p).snapshots = [d.snapshots EXCEPT ![id[p]] = stats[p]]
         /\ op[p].kind # "snapshot" =>
              Closed(d, p).done = d.done /\ Closed(d, p).snapshots = d.snapshots
  BY DEF Closed, Database

(* A commit leaves traces of its own run only. *)
LEMMA CommitUses ==
  ASSUME TypeInv, LogInv, NEW p \in Procs, Commit(p), NEW r \in Runs, Used(db', r)
  PROVE  Used(db, r) \/ r = id[p]
<1>1. pc[p] = "write" /\ db' = Closed(tx, p)
  BY DEF Commit
<1>2. tx \in Database /\ db \in Database /\ id[p] \in Runs
  BY <1>1 DEF TypeInv, TypeOK, Numbered
<1>3. db'.audit = tx.audit /\ db'.done \subseteq tx.done \cup {id[p]}
  BY <1>1, <1>2, ClosedFields
<1>4. tx.done = db.done
  BY <1>1 DEF LogInv
<1>5. ASSUME NEW f \in Paths, NEW i \in DOMAIN tx.audit[f], tx.audit[f][i].run = r
      PROVE  Used(db, r) \/ r = id[p]
  <2>1. CASE Left(db, tx, f)
    BY <1>5, <2>1 DEF Left, Used
  <2>2. CASE Entered(db, tx, f, id[p], KindsOf(op[p]))
    <3>1. PICK c \in Ledger!Change(id[p], KindsOf(op[p])) : tx.audit[f] = Append(db.audit[f], c)
      BY <2>2 DEF Entered
    <3>2. c \in Changes /\ c.run = id[p]
      BY <1>2, ChangeType, KindsType
    <3>3. db.audit[f] \in Seq(Changes)
      BY <1>2 DEF Database
    <3>4. (i \in DOMAIN db.audit[f] /\ tx.audit[f][i] = db.audit[f][i]) \/ tx.audit[f][i] = c
      BY <1>5, <3>1, <3>2, <3>3, LongerTrail
    <3>5. QED
      BY <1>5, <3>2, <3>4 DEF Used
  <2>3. QED
    BY <1>1, <2>1, <2>2 DEF LogInv
<1>6. QED
  BY <1>3, <1>4, <1>5 DEF Used

(* A run that shows is over. *)
LEMMA StepRuns ==
  TypeInv /\ IdInv /\ LogInv /\ RunsInv /\ [Next]_vars => RunsInv'
<1> SUFFICES ASSUME TypeInv, IdInv, LogInv, RunsInv, [Next]_vars, NEW r \in Runs, Used(db', r)
             PROVE  Fixed(r)'
  BY DEF RunsInv, Used
<1>1. ASSUME Used(db, r) PROVE Fixed(r)
  BY <1>1 DEF RunsInv
<1>2. ASSUME NEW p \in Procs, Acts(p) PROVE Fixed(r)'
  <2>1. CASE Used(db, r)
    BY <1>1, <1>2, <2>1, FixedStays
  <2>2. CASE ~Commit(p)
    <3>1. db \in Database
      BY DEF TypeInv, TypeOK
    <3>2. Used(db, r)
      BY <1>2, <2>2, <3>1, CommittedBy, MigratedUsed
    <3>3. QED
      BY <2>1, <3>2
  <2>3. CASE Commit(p) /\ r = id[p]
    <3>1. pc[p] = "write" /\ pc'[p] = "idle" /\ runs' = runs
      BY <2>3 DEF Commit, Finish, TypeInv, TypeOK
    <3>2. \A q \in Procs \ {p} : pc'[q] = pc[q] /\ id'[q] = id[q]
      BY <1>2, OthersKeep, OthersCount
    <3>3. QED
      BY <2>3, <3>1, <3>2 DEF IdInv, Fixed
  <2>4. QED
    BY <2>1, <2>2, <2>3, CommitUses
<1>3. CASE UNCHANGED <<db, pc, id, runs>>
  BY <1>1, <1>3 DEF Fixed
<1>4. CASE UNCHANGED vars
  BY <1>3, <1>4 DEF vars, procvars
<1>5. QED
  BY <1>2, <1>3, <1>4, EditCounts DEF Next, Acts

(* An audited change adds a record to the trail of its path. *)
LEMMA AuditedTrail ==
  ASSUME NEW d \in Database, NEW p, NEW f \in Paths, NEW type, NEW entry
  PROVE  Audited(d, p, f, type, entry).audit[f]
         = Append(d.audit[f], [type |-> type, old |-> current[p][f].ver,
                               new |-> entry.ver, run |-> id[p]])
  BY DEF Audited, Database

(* It leaves the other trails, and the list of snapshots, alone. *)
LEMMA AuditedElsewhere ==
  ASSUME NEW d \in Database, NEW p, NEW f \in Paths, NEW type, NEW entry
  PROVE  /\ Audited(d, p, f, type, entry).done = d.done
         /\ \A g \in Paths \ {f} : Audited(d, p, f, type, entry).audit[g] = d.audit[g]
  BY DEF Audited, Database

(* An audited change of a path that was as it is committed enters it.       *)
LEMMA AuditedEnters ==
  ASSUME NEW d \in Database, NEW e \in Database, NEW p \in Procs, NEW f \in Paths,
         NEW type \in KindsOf(op[p]), NEW entry \in [ver : Value, legacy : {FALSE}],
         current[p] \in Entries, id[p] \in Runs, Left(d, e, f),
         entry.ver = Absent <=> type \in {"removed", "delete"},
         type = "added" => current[p][f].ver = Absent
  PROVE  Entered(d, Audited(e, p, f, type, entry), f, id[p], KindsOf(op[p]))
<1> DEFINE c == [type |-> type, old |-> current[p][f].ver, new |-> entry.ver, run |-> id[p]]
           a == Audited(e, p, f, type, entry)
<1>1. c \in Ledger!Change(id[p], KindsOf(op[p])) /\ c.new = entry.ver
  BY DEF Ledger!Change, Ledger!Value, Value, Entries
<1>2. a.audit[f] = Append(d.audit[f], c)
  <2>1. e.audit[f] = d.audit[f]
    BY DEF Left
  <2>2. a.audit[f] = Append(e.audit[f], c)
    BY AuditedTrail
  <2> HIDE DEF a, c
  <2>3. QED
    BY <2>1, <2>2
<1>3. a.entries[f] = entry
  BY AuditedEntries
<1>4. entry = [ver |-> entry.ver, legacy |-> FALSE]
  OBVIOUS
<1> HIDE DEF c, a
<1>5. a.entries[f] = [ver |-> c.new, legacy |-> FALSE]
  BY <1>1, <1>3, <1>4
<1>6. Entered(d, a, f, id[p], KindsOf(op[p]))
  BY <1>1, <1>2, <1>5 DEF Entered
<1>7. QED
  BY <1>6 DEF a

(* A step of the transaction enters at most the path it visits. *)
LEMMA WriteEnters ==
  ASSUME TypeInv, NEW p \in Procs, NEW f \in Paths, WriteEntry(p, f) \/ RemoveEntry(p, f)
  PROVE  /\ tx'.snapshots = tx.snapshots /\ tx'.done = tx.done
         /\ \A g \in Paths \ {f} : Left(tx, tx', g)
         /\ Left(db, tx, f)
            => Left(db, tx', f) \/ Entered(db, tx', f, id[p], KindsOf(op[p]))
<1>1. /\ tx \in Database /\ db \in Database /\ current[p] \in Entries /\ id[p] \in Runs
      /\ pc[p] = "write" /\ f \in todo[p]
  BY WriteShape DEF TypeInv, TypeOK
<1>2. /\ tx'.snapshots = tx.snapshots /\ tx'.done = tx.done
      /\ \A g \in Paths \ {f} : Left(tx, tx', g)
  <2>1. CASE UNCHANGED tx
    BY <2>1 DEF Left
  <2>2. CASE \E type \in {"added", "modified", "removed", "delete"},
                entry \in [ver : Value, legacy : BOOLEAN] :
                  tx' = Audited(tx, p, f, type, entry)
    <3>1. PICK type, entry : tx' = Audited(tx, p, f, type, entry)
      BY <2>2
    <3>2. tx'.snapshots = tx.snapshots
      BY <1>1, <3>1, AuditedRows
    <3>3. tx'.done = tx.done
      BY <1>1, <3>1, AuditedElsewhere
    <3>4. ASSUME NEW g \in Paths \ {f} PROVE Left(tx, tx', g)
      <4>1. tx'.audit[g] = tx.audit[g]
        BY <1>1, <3>1, AuditedElsewhere
      <4>2. tx'.entries[g] = tx.entries[g]
        BY <1>1, <3>1, AuditedEntries
      <4>3. QED
        BY <4>1, <4>2 DEF Left
    <3>5. QED
      BY <3>2, <3>3, <3>4
  <2>3. QED
    BY <2>1, <2>2, WriteShape
<1>3. ASSUME Left(db, tx, f), WriteEntry(p, f)
      PROVE  Left(db, tx', f) \/ Entered(db, tx', f, id[p], KindsOf(op[p]))
  <2>1. op[p].kind = "snapshot" /\ seen[p][f] # Absent
    BY <1>3 DEF WriteEntry, Found
  <2>2. Fresh(p, f) \in [ver : Value, legacy : {FALSE}] /\ Fresh(p, f).ver # Absent
    BY <2>1 DEF Fresh, TypeInv, TypeOK
  <2>3. CASE current[p][f] = Fresh(p, f)
    BY <1>3, <2>3 DEF WriteEntry
  <2>4. CASE current[p][f] # Fresh(p, f) /\ Has(current[p], f)
    <3>1. tx' = Audited(tx, p, f, "modified", Fresh(p, f))
      BY <1>3, <2>4 DEF WriteEntry
    <3>2. "modified" \in KindsOf(op[p])
      BY <2>1 DEF KindsOf, SnapshotTypes
    <3>3. QED
      BY <1>1, <1>3, <2>2, <3>1, <3>2, AuditedEnters
  <2>5. CASE current[p][f] # Fresh(p, f) /\ ~Has(current[p], f)
    <3>1. tx' = Audited(tx, p, f, "added", Fresh(p, f))
      BY <1>3, <2>5 DEF WriteEntry
    <3>2. "added" \in KindsOf(op[p])
      BY <2>1 DEF KindsOf, SnapshotTypes
    <3>3. current[p][f].ver = Absent
      BY <2>5 DEF Has, NoEntry
    <3>4. QED
      BY <1>1, <1>3, <2>2, <3>1, <3>2, <3>3, AuditedEnters
  <2>6. QED
    BY <2>3, <2>4, <2>5
<1>4. ASSUME Left(db, tx, f), RemoveEntry(p, f)
      PROVE  Entered(db, tx', f, id[p], KindsOf(op[p]))
  <2>1. PICK type \in {"removed", "delete"} :
          tx' = Audited(tx, p, f, type, NoEntry) /\ type \in KindsOf(op[p])
    BY <1>4 DEF RemoveEntry, KindsOf, SnapshotTypes
  <2>2. NoEntry \in [ver : Value, legacy : {FALSE}] /\ NoEntry.ver = Absent
    BY DEF NoEntry, Value
  <2>3. QED
    BY <1>1, <1>4, <2>1, <2>2, AuditedEnters
<1>5. QED
  BY <1>2, <1>3, <1>4

(* What a transaction has of a path is committed, or recorded and visited. *)
LEMMA StepLog == TypeInv /\ Exclusive /\ PhaseInv /\ LogInv /\ [Next]_vars => LogInv'
<1> DEFINE Logged(q, f) == \/ Left(db, tx, f)
                           \/ f \notin todo[q] /\ Entered(db, tx, f, id[q], KindsOf(op[q]))
           Goal(q) == /\ tx.snapshots = db.snapshots /\ tx.done = db.done
                      /\ \A f \in Paths : Logged(q, f)
<1> SUFFICES ASSUME TypeInv, Exclusive, PhaseInv, LogInv, [Next]_vars,
                    NEW q \in Procs, pc'[q] = "write"
             PROVE  Goal(q)'
  BY DEF LogInv
<1> USE BaselineStoreAssumption
<1>1. pc[q] = "write" => Goal(q)
  BY DEF LogInv
<1>2. ASSUME op'[q] = op[q], id'[q] = id[q], todo'[q] = todo[q], pc[q] = "write",
             UNCHANGED <<db, tx>>
      PROVE  Goal(q)'
  BY <1>1, <1>2 DEF Left, Entered, KindsOf, Ledger!Change
<1>3. ASSUME NEW p \in Procs, Acts(p) PROVE Goal(q)'
  <2>1. CASE q # p
    <3>1. pc[q] = "write" /\ writer = q
      BY <1>3, <2>1, OthersKeep DEF Exclusive
    <3>2. pc[p] # "write" /\ writer # Nobody /\ writer # p
      BY <2>1, <3>1 DEF Exclusive
    <3>3. ~(Begin(p) \/ Commit(p) \/ Rollback(p) \/ (Crash(p) /\ writer = p))
      BY <3>2 DEF Begin, Commit, Rollback
    <3>4. UNCHANGED <<db, tx>>
      BY <1>3, <3>2, <3>3, WithoutLock
    <3>5. QED
      BY <1>2, <1>3, <2>1, <3>1, <3>4, OthersKeep, OthersCount
  <2>2. CASE q = p /\ Begin(p)
    BY <2>2 DEF Begin, Left
  <2>3. ASSUME q = p, NEW g \in Paths, WriteEntry(p, g) \/ RemoveEntry(p, g)
        PROVE  Goal(q)'
    <3>1. /\ pc[q] = "write" /\ g \in todo[q] /\ UNCHANGED <<db, op, id>>
          /\ todo'[q] = todo[q] \ {g}
      BY <2>3, WriteShape
    <3>2. Goal(q)
      BY <1>1, <3>1
    <3>3. tx'.snapshots = db'.snapshots /\ tx'.done = db'.done
      BY <2>3, <3>1, <3>2, WriteEnters
    <3>4. ASSUME NEW f \in Paths PROVE Logged(q, f)'
      <4>1. CASE f = g
        <5>1. Left(db, tx, g)
          BY <3>1, <3>2
        <5>2. Left(db, tx', g) \/ Entered(db, tx', g, id[q], KindsOf(op[q]))
          BY <2>3, <5>1, WriteEnters
        <5>3. QED
          BY <3>1, <4>1, <5>2 DEF Left, Entered, KindsOf, Ledger!Change
      <4>2. CASE f # g
        <5>1. tx'.audit[f] = tx.audit[f] /\ tx'.entries[f] = tx.entries[f]
          BY <2>3, <4>2, WriteEnters DEF Left
        <5>2. Logged(q, f)
          BY <3>2
        <5>3. QED
          BY <3>1, <4>2, <5>1, <5>2 DEF Left, Entered, KindsOf, Ledger!Change
      <4>3. QED
        BY <4>1, <4>2
    <3>5. QED
      BY <3>3, <3>4
  <2>4. QED
    BY <1>3, <2>1, <2>2, <2>3, IntoTransaction
<1>4. CASE UNCHANGED <<pc, op, id, todo, db, tx>>
  BY <1>2, <1>4
<1>5. CASE UNCHANGED vars
  BY <1>4, <1>5 DEF vars, procvars
<1>6. QED
  BY <1>3, <1>4, <1>5, EditCounts DEF Next, Acts

-----------------------------------------------------------------------------
(* A commit is one command of the ledger *)

(* What is published of a path is what was, or one record more. *)
LEMMA Published ==
  ASSUME LedgerInv, NEW p \in Procs, Commit(p), NEW f \in Paths
  PROVE  Left(db, db', f) \/ Entered(db, db', f, id[p], KindsOf(op[p]))
<1>1. TypeInv /\ LogInv
  BY DEF LedgerInv, AccountInv
<1>2. pc[p] = "write" /\ todo[p] = {} /\ db' = Closed(tx, p)
  BY DEF Commit
<1>3. tx \in Database /\ id[p] \in Runs
  BY <1>1, <1>2 DEF TypeInv, TypeOK, Numbered
<1>4. db'.audit = tx.audit /\ db'.entries = tx.entries
  BY <1>2, <1>3, ClosedFields
<1>5. Left(db, tx, f) \/ Entered(db, tx, f, id[p], KindsOf(op[p]))
  BY <1>1, <1>2 DEF LogInv
<1>6. QED
  BY <1>4, <1>5 DEF Left, Entered

(* The paths whose trail a step makes longer. *)
Lengthened == {g \in Paths : db'.audit[g] # db.audit[g]}

(* The records a commit adds are those of the paths it lengthens. *)
LEMMA RecordsAdded ==
  ASSUME LedgerInv, LedgerInv', NEW p \in Procs, Commit(p)
  PROVE  /\ DOMAIN Ledger!NewRecords = Lengthened
         /\ \A f \in Lengthened :
              /\ Ledger!NewRecords[f] \in Ledger!Change(id[p], KindsOf(op[p]))
              /\ db'.audit[f] = Append(db.audit[f], Ledger!NewRecords[f])
              /\ db'.entries[f] = [ver |-> Ledger!NewRecords[f].new, legacy |-> FALSE]
         /\ \A f \in Paths \ Lengthened : Left(db, db', f)
<1> DEFINE N == [f \in Lengthened |-> db'.audit[f][Len(db'.audit[f])]]
<1>1. Ledger!NewRecords = N
  BY DEF Ledger!NewRecords, Lengthened
<1>2. db \in Database /\ id[p] \in Runs
  BY DEF LedgerInv, AccountInv, TypeInv, TypeOK, Numbered, Commit
<1>3. ASSUME NEW f \in Paths, Entered(db, db', f, id[p], KindsOf(op[p]))
      PROVE  /\ f \in Lengthened
             /\ N[f] \in Ledger!Change(id[p], KindsOf(op[p]))
             /\ db'.audit[f] = Append(db.audit[f], N[f])
             /\ db'.entries[f] = [ver |-> N[f].new, legacy |-> FALSE]
  <2>1. PICK c \in Ledger!Change(id[p], KindsOf(op[p])) :
          /\ db'.audit[f] = Append(db.audit[f], c)
          /\ db'.entries[f] = [ver |-> c.new, legacy |-> FALSE]
    BY <1>3 DEF Entered
  <2>2. c \in Changes
    BY <1>2, ChangeType, KindsType
  <2>3. db.audit[f] \in Seq(Changes)
    BY <1>2 DEF Database
  <2>4. db'.audit[f] # db.audit[f] /\ db'.audit[f][Len(db'.audit[f])] = c
    <3> DEFINE log == db.audit[f]
    <3>1. log \in Seq(Changes) /\ db'.audit[f] = Append(log, c)
      BY <2>1, <2>3
    <3> HIDE DEF log
    <3>2. Append(log, c) # log /\ Append(log, c)[Len(Append(log, c))] = c
      BY <2>2, <3>1, LongerTrail
    <3>3. QED
      BY <3>1, <3>2 DEF log
  <2>5. f \in Lengthened /\ N[f] = c
    BY <2>4 DEF Lengthened
  <2> HIDE DEF N
  <2>6. QED
    BY <2>1, <2>5
<1>4. \A f \in Paths : Left(db, db', f) => f \notin Lengthened
  BY DEF Left, Lengthened
<1>5. DOMAIN N = Lengthened /\ Lengthened \subseteq Paths
  BY DEF Lengthened
<1> HIDE DEF N
<1>6. QED
  BY <1>1, <1>3, <1>4, <1>5, Published

(* COMMIT publishes the records of its run together with the entries they   *)
(* explain.                                                                 *)
LEMMA CommitIsCommand ==
  ASSUME LedgerInv, LedgerInv', NEW p \in Procs, Commit(p)
  PROVE  Ledger!Command(id[p], KindsOf(op[p]))
<1> DEFINE N == Ledger!NewRecords
<1>1. /\ DOMAIN N = Lengthened
      /\ \A f \in Lengthened :
           /\ N[f] \in Ledger!Change(id[p], KindsOf(op[p]))
           /\ db'.audit[f] = Append(db.audit[f], N[f])
           /\ db'.entries[f] = [ver |-> N[f].new, legacy |-> FALSE]
      /\ \A f \in Paths \ Lengthened : Left(db, db', f)
  BY RecordsAdded
<1>2. db' \in Database /\ id[p] \in Runs /\ pc[p] # "idle"
  BY DEF LedgerInv, AccountInv, TypeInv, TypeOK, Numbered, Commit
<1>3. Ledger!Unused(id[p])
  <2>1. ~Fixed(id[p])
    BY <1>2 DEF Fixed
  <2>2. ~Used(db, id[p])
    BY <1>2, <2>1 DEF LedgerInv, RunsInv
  <2>3. QED
    BY <2>2 DEF Used, Ledger!Unused
<1> HIDE DEF N
<1>4. Ledger!Written(N)
  <2>1. db'.audit = [f \in Paths |-> IF f \in DOMAIN N THEN Append(db.audit[f], N[f])
                                     ELSE db.audit[f]]
    <3>1. \A f \in Paths : db'.audit[f] = IF f \in DOMAIN N THEN Append(db.audit[f], N[f])
                                          ELSE db.audit[f]
      BY <1>1 DEF Left
    <3>2. db'.audit = [f \in Paths |-> db'.audit[f]]
      BY <1>2 DEF Database
    <3>3. QED
      BY <3>1, <3>2
  <2>2. db'.entries = [f \in Paths |-> IF f \in DOMAIN N
                                       THEN [ver |-> N[f].new, legacy |-> FALSE]
                                       ELSE db.entries[f]]
    <3>1. \A f \in Paths : db'.entries[f] = IF f \in DOMAIN N
                                            THEN [ver |-> N[f].new, legacy |-> FALSE]
                                            ELSE db.entries[f]
      BY <1>1 DEF Left
    <3>2. db'.entries = [f \in Paths |-> db'.entries[f]]
      BY <1>2 DEF Database, Entries
    <3>3. QED
      BY <3>1, <3>2
  <2>3. QED
    BY <2>1, <2>2 DEF Ledger!Written
<1>5. \A f \in DOMAIN N : N[f] \in Ledger!Change(id[p], KindsOf(op[p]))
  BY <1>1
<1>6. QED
  BY <1>3, <1>4, <1>5 DEF Ledger!Command, N

(* The paths a commit has added, modified or removed are those its run has  *)
(* records of.                                                              *)
LEMMA KindsRecorded ==
  ASSUME LedgerInv, LedgerInv', NEW p \in Procs, Commit(p), NEW t \in SnapshotTypes
  PROVE  Ledger!Of(t) = RecOf(db', id[p], t)
<1> DEFINE N == Ledger!NewRecords
<1>1. /\ DOMAIN N = Lengthened
      /\ \A f \in Lengthened :
           /\ N[f] \in Ledger!Change(id[p], KindsOf(op[p]))
           /\ db'.audit[f] = Append(db.audit[f], N[f])
      /\ \A f \in Paths \ Lengthened : Left(db, db', f)
  BY RecordsAdded
<1>2. db \in Database /\ id[p] \in Runs /\ pc[p] # "idle"
  BY DEF LedgerInv, AccountInv, TypeInv, TypeOK, Numbered, Commit
<1>3. \A f \in Paths : \A i \in DOMAIN db.audit[f] : db.audit[f][i].run # id[p]
  <2>1. ~Fixed(id[p])
    BY <1>2 DEF Fixed
  <2>2. ~Used(db, id[p])
    BY <1>2, <2>1 DEF LedgerInv, RunsInv
  <2>3. QED
    BY <2>2 DEF Used
<1>4. Ledger!Of(t) = {f \in Lengthened : N[f].type = t}
  BY <1>1 DEF Ledger!Of
<1>5. Lengthened \subseteq Paths
  BY DEF Lengthened
<1> HIDE DEF N
<1>6. ASSUME NEW f \in Lengthened
      PROVE  f \in RecOf(db', id[p], t) <=> N[f].type = t
  <2>1. N[f] \in Changes /\ N[f].run = id[p]
    BY <1>1, <1>2, ChangeType, KindsType
  <2> DEFINE log == db.audit[f]
             rec == N[f]
             trail == db'.audit[f]
  <2>2. log \in Seq(Changes) /\ rec \in Changes
    BY <1>2, <1>5, <2>1 DEF Database
  <2>3. trail = Append(log, rec)
    BY <1>1
  <2>4. \A i \in DOMAIN log : log[i].run # id[p]
    BY <1>3, <1>5
  <2>5. f \in RecOf(db', id[p], t)
          <=> \E i \in DOMAIN trail : trail[i].run = id[p] /\ trail[i].type = t
    BY <1>5 DEF RecOf
  <2>6. rec.run = id[p]
    BY <2>1
  <2> HIDE DEF log, rec, trail
  <2>7. /\ trail[Len(trail)] = rec /\ Len(trail) \in DOMAIN trail
        /\ \A i \in DOMAIN trail : (i \in DOMAIN log /\ trail[i] = log[i]) \/ trail[i] = rec
    BY <2>2, <2>3, LongerTrail
  <2>8. (\E i \in DOMAIN trail : trail[i].run = id[p] /\ trail[i].type = t) <=> rec.type = t
    BY <2>4, <2>6, <2>7
  <2>9. QED
    BY <2>5, <2>8 DEF rec
<1>7. ASSUME NEW f \in Paths \ Lengthened
      PROVE  f \notin RecOf(db', id[p], t)
  BY <1>1, <1>3 DEF Left, RecOf
<1>8. RecOf(db', id[p], t) \subseteq Paths
  BY DEF RecOf
<1>9. QED
  BY <1>4, <1>5, <1>6, <1>7, <1>8

(* The ledger counts as the database does. *)
LEMMA SameCount ==
  ASSUME NEW S
  PROVE  Ledger!Cardinality(S) = Cardinality(S)
  BY DEF Ledger!Cardinality, Cardinality

(* What a snapshot commits is a snapshot of the ledger: its row counts what *)
(* it recorded, and the unchanged paths besides.                            *)
LEMMA SnapshotCommits ==
  ASSUME LedgerInv, LedgerInv', NEW p \in Procs, Commit(p), op[p].kind = "snapshot"
  PROVE  Ledger!Snapshot(id[p])
<1> DEFINE r == id[p]
           same == Fate(p, "unchanged")
<1>1. /\ TypeInv /\ Exclusive /\ TxInv /\ CountInv /\ WriteInv /\ LogInv
      /\ pc[p] = "write" /\ todo[p] = {} /\ db' = Closed(tx, p)
  BY DEF LedgerInv, AccountInv, Commit
<1>2. tx \in Database /\ r \in Runs
  BY <1>1 DEF TypeInv, TypeOK, Numbered
<1>3. tx.snapshots = db.snapshots /\ tx.done = db.done
  BY <1>1 DEF LogInv
<1>4. /\ db'.done = db.done \cup {r}
      /\ db'.snapshots = [db.snapshots EXCEPT ![r] = stats[p]]
  BY <1>1, <1>2, <1>3, ClosedFields
<1>5. \A t : Fate(p, t) \ todo[p] = Fate(p, t)
  BY <1>1
<1>6. \A t \in SnapshotTypes : RecOf(db', r, t) = Fate(p, t)
  <2>1. \A t : RecOf(db', r, t) = RecOf(tx, r, t)
    BY <1>1, <1>2, ClosedRecords
  <2>2. \A t \in SnapshotTypes : RecOf(tx, r, t) = Fate(p, t) \ todo[p]
    BY <1>1 DEF WriteInv
  <2>3. QED
    BY <1>5, <2>1, <2>2
<1>7. Ledger!Of("added") = Fate(p, "added") /\ Ledger!Of("modified") = Fate(p, "modified")
      /\ Ledger!Of("removed") = Fate(p, "removed")
  BY <1>6, KindsRecorded DEF SnapshotTypes
<1>8. stats[p] = [scanned   |-> Cardinality(Found(p)),
                  added     |-> Cardinality(Fate(p, "added")),
                  modified  |-> Cardinality(Fate(p, "modified")),
                  removed   |-> Cardinality(Fate(p, "removed")),
                  unchanged |-> Cardinality(Fate(p, "unchanged"))]
  BY <1>1, <1>5 DEF CountInv, Counts
<1>9. stats[p] = Ledger!Row(same)
  <2>1. Cardinality(Found(p)) = Cardinality(Fate(p, "added")) + Cardinality(Fate(p, "modified"))
                                + Cardinality(same)
    BY <1>1, FatesAddUp
  <2>2. Ledger!Row(same)
        = [scanned   |-> Cardinality(Fate(p, "added")) + Cardinality(Fate(p, "modified"))
                         + Cardinality(same),
           added     |-> Cardinality(Fate(p, "added")),
           modified  |-> Cardinality(Fate(p, "modified")),
           removed   |-> Cardinality(Fate(p, "removed")),
           unchanged |-> Cardinality(same)]
    BY <1>7, SameCount DEF Ledger!Row
  <2> HIDE DEF same
  <2>3. QED
    BY <1>8, <2>1, <2>2 DEF same
<1>10. same \in SUBSET (Paths \ DOMAIN Ledger!NewRecords)
  <2>1. SUFFICES ASSUME NEW f \in same PROVE f \in Paths /\ f \notin DOMAIN Ledger!NewRecords
    OBVIOUS
  <2>2. f \in Paths /\ f \in Found(p)
    BY <1>1, FatePaths
  <2>3. \A t \in SnapshotTypes : f \notin Fate(p, t)
    BY <2>2, OneFate DEF SnapshotTypes
  <2>4. \A t \in SnapshotTypes : f \notin Ledger!Of(t)
    BY <1>6, <2>3, KindsRecorded
  <2>5. ASSUME f \in DOMAIN Ledger!NewRecords PROVE FALSE
    <3>1. Ledger!NewRecords[f] \in Ledger!Change(r, KindsOf(op[p]))
      BY <2>5, RecordsAdded
    <3>2. Ledger!NewRecords[f].type \in SnapshotTypes
      BY <1>2, <3>1, ChangeType, KindsType DEF KindsOf
    <3>3. QED
      BY <2>4, <2>5, <3>2 DEF Ledger!Of
  <2>6. QED
    BY <2>2, <2>5
<1>11. Ledger!Command(r, {"added", "modified", "removed"})
  BY CommitIsCommand DEF KindsOf, SnapshotTypes
<1> HIDE DEF same
<1>12. QED
  BY <1>4, <1>9, <1>10, <1>11 DEF Ledger!Snapshot

(* What delete or clean commits is a deletion of the ledger. *)
LEMMA DeletionCommits ==
  ASSUME LedgerInv, LedgerInv', NEW p \in Procs, Commit(p), op[p].kind # "snapshot"
  PROVE  Ledger!Delete(id[p])
<1>1. /\ TypeInv /\ LogInv /\ pc[p] = "write" /\ db' = Closed(tx, p)
  BY DEF LedgerInv, AccountInv, Commit
<1>2. tx \in Database /\ id[p] \in Runs
  BY <1>1 DEF TypeInv, TypeOK, Numbered
<1>3. db'.snapshots = db.snapshots /\ db'.done = db.done
  BY <1>1, <1>2, ClosedFields DEF LogInv
<1>4. Ledger!Command(id[p], {"delete"})
  BY CommitIsCommand DEF KindsOf
<1>5. QED
  BY <1>3, <1>4 DEF Ledger!Delete

(* Opening the database copies entries of the old table where there is none. *)
LEMMA MigrationIsMigrate ==
  ASSUME TypeInv, db' = Migrated(db)
  PROVE  Ledger!Migrate
<1> DEFINE S == {f \in Paths : ~Has(db.entries, f) /\ legacy[f] # Absent}
<1>1. db \in Database /\ legacy \in [Paths -> Value]
  BY DEF TypeInv, TypeOK
<1>2. db'.audit = db.audit /\ db'.snapshots = db.snapshots /\ db'.done = db.done
  BY <1>1 DEF Migrated, Database
<1>3. db'.entries = [f \in Paths |-> IF f \in S THEN [ver |-> legacy[f], legacy |-> TRUE]
                                     ELSE db.entries[f]]
  BY <1>1 DEF Migrated, Database
<1>4. S \in SUBSET {f \in Paths : db.entries[f] = Ledger!NoEntry}
  BY DEF Has, NoEntry, Ledger!NoEntry
<1>5. \A f \in S : db'.entries[f] \in [ver : Versions, legacy : {TRUE}]
  BY <1>1, <1>3 DEF Value
<1> HIDE DEF S
<1>6. db'.entries = [f \in Paths |-> IF f \in S THEN db'.entries[f] ELSE db.entries[f]]
  BY <1>3
<1>7. QED
  BY <1>2, <1>4, <1>5, <1>6 DEF Ledger!Migrate

(***************************************************************************)
(* The database implements the ledger: for any number of processes,        *)
(* failures and crashes, what is committed changes by whole commands, each *)
(* under a run number of its own, with one record for every path it        *)
(* changed, and a row that counts them (ApplySnapshot,                     *)
(* DeleteBaselineEntries, InitTable).                                      *)
(***************************************************************************)
THEOREM StoreImplementsLedger == Spec => ImplementsLedger
<1>1. Init => Ledger!Init
  BY DEF Init, EmptyDatabase, NoEntry, NoStats, Ledger!Init, Ledger!NoEntry, Ledger!NoStats
<1>2. Init => LedgerInv
  <2> SUFFICES ASSUME Init PROVE LedgerInv
    OBVIOUS
  <2>1. AccountInv
    BY InitAccount
  <2>2. RunsInv /\ LogInv
    BY DEF Init, RunsInv, LogInv, Used, EmptyDatabase
  <2>3. QED
    BY <2>1, <2>2 DEF LedgerInv
<1>3. LedgerInv /\ [Next]_vars => LedgerInv'
  BY StepType, StepExclusive, StepPhase, StepId, StepBlank, StepTally, StepTx, StepCount,
     StepWrite, StepRuns, StepLog DEF LedgerInv, AccountInv
<1>4. LedgerInv /\ LedgerInv' /\ [Next]_vars => [Ledger!Next]_(Ledger!vars)
  <2> SUFFICES ASSUME LedgerInv, LedgerInv', [Next]_vars PROVE [Ledger!Next]_(Ledger!vars)
    OBVIOUS
  <2>1. TypeInv
    BY DEF LedgerInv, AccountInv
  <2>2. ASSUME NEW p \in Procs, Commit(p) PROVE Ledger!Next
    <3>1. id[p] \in Runs
      BY <2>1, <2>2 DEF TypeInv, Numbered, Commit
    <3>2. Ledger!Snapshot(id[p]) \/ Ledger!Delete(id[p])
      BY <2>2, SnapshotCommits, DeletionCommits
    <3>3. QED
      BY <3>1, <3>2 DEF Ledger!Next
  <2>3. CASE db' = Migrated(db)
    BY <2>1, <2>3, MigrationIsMigrate DEF Ledger!Next
  <2>4. CASE UNCHANGED db
    BY <2>4 DEF Ledger!vars
  <2>5. CASE UNCHANGED vars
    BY <2>4, <2>5 DEF vars
  <2>6. ASSUME NEW p \in Procs, Acts(p), ~Commit(p) PROVE [Ledger!Next]_(Ledger!vars)
    BY <2>3, <2>4, <2>6, CommittedBy
  <2>7. QED
    BY <2>2, <2>4, <2>5, <2>6, EditCounts DEF Next, Acts
<1>5. QED
  BY <1>1, <1>2, <1>3, <1>4, PTL DEF Spec, ImplementsLedger, Ledger!Spec

=============================================================================
