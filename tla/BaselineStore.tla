--------------------------- MODULE BaselineStore ---------------------------
(***************************************************************************)
(* The baseline database (storage/baseline_db.cpp) and the processes that  *)
(* work on it: `baseline snapshot', `delete', `clean' and `check', and the *)
(* rule check `check -c', each a process of its own on one SQLite file in  *)
(* WAL mode.                                                               *)
(*                                                                         *)
(* db is the committed content; the transaction of the one writer works on *)
(* the image tx and readers do not see it.  No busy timeout is set, so a   *)
(* statement that needs the write lock while another process holds it      *)
(* fails at once.  A snapshot and a deletion read the entries BEFORE they  *)
(* take the lock, and every process that opens the database first copies   *)
(* the old table `baselines' into the entries.                             *)
(*                                                                         *)
(* A version stands for everything an entry records of a file (hash,       *)
(* permission, owner, size, mtime).  An operation carries what its command *)
(* line comes to: the paths under its roots (a root that is excluded has   *)
(* none), those of them that are a root themselves, those excluded by name *)
(* or directory, and those excluded by a glob only.                        *)
(***************************************************************************)
EXTENDS Naturals, Sequences, FiniteSets

CONSTANTS
  Procs, Nobody,
  Paths,
  Params,        (* kernel parameters: paths of rows that are not files    *)
  Versions, Absent,
  ParamValue,    (* what a kernel parameter reads                          *)
  Disk0, Legacy0,
  Ops,           (* the command lines that may be run                      *)
  MaxRuns, MaxUpsets     (* bounds: commands; changes of files, skips, cut reads *)

Kinds == {"snapshot", "delete", "clean", "check", "rulecheck"}
Operation == [kind : Kinds, paths : SUBSET Paths, named : SUBSET Paths,
              prefix : SUBSET Paths, glob : SUBSET Paths]
Value == Versions \cup {Absent}

ASSUME BaselineStoreAssumption ==
  /\ IsFiniteSet(Paths) /\ Nobody \notin Procs /\ Absent \notin Versions /\ ParamValue \in Versions
  /\ Params \subseteq Paths /\ Ops \subseteq Operation
  /\ \A o \in Ops : o.named \subseteq o.paths \ (o.prefix \cup o.glob)
  /\ Disk0 \in [Paths -> Value] /\ Legacy0 \in [Paths -> Value]
  /\ \A f \in Params : Disk0[f] = Absent
  /\ MaxRuns \in Nat /\ MaxUpsets \in Nat

VARIABLES
  disk,          (* what the file at a path holds                          *)
  legacy,        (* table baselines, which only the rule check writes      *)
  db, tx,        (* entries, audit and snapshots: committed, uncommitted   *)
  writer,        (* who holds the write lock                               *)
  pc, op, id,    (* of a process: program counter, operation, run number   *)
  todo,          (* paths its current loop has still to visit              *)
  seen,          (* what its scan found on disk                            *)
  current,       (* the entries it read                                    *)
  hit,           (* paths to delete, or that deviate                       *)
  stats,         (* counters of its snapshot                               *)
  alerts, lost,  (* alerts of a run that were saved, or refused            *)
  touched, gone, skipped,  (* history: paths whose file or entry others    *)
                 (* changed, that were absent, and that its scan passed    *)
                 (* over although they were there, since a process started *)
  runs, upsets

procvars == <<pc, op, id, todo, seen, current, hit, stats>>
history  == <<touched, gone, skipped>>
vars == <<disk, legacy, db, tx, writer, procvars, alerts, lost, history, runs,
          upsets>>

NoEntry == [ver |-> Absent, legacy |-> FALSE]
NoStats == [scanned |-> 0, added |-> 0, modified |-> 0, removed |-> 0,
            unchanged |-> 0]
NoOp == [kind |-> "check", paths |-> {}, named |-> {}, prefix |-> {}, glob |-> {}]
Runs == 1..MaxRuns

Entries == [Paths -> [ver : Value, legacy : BOOLEAN]]
Changes == [type : {"added", "modified", "removed", "delete"},
            old : Value, new : Value, run : Runs]
Counters == [scanned : Nat, added : Nat, modified : Nat, removed : Nat,
             unchanged : Nat]
Database == [entries : Entries, audit : [Paths -> Seq(Changes)],
             snapshots : [Runs -> Counters], done : SUBSET Runs]

EmptyDatabase ==
  [entries |-> [f \in Paths |-> NoEntry], audit |-> [f \in Paths |-> <<>>],
   snapshots |-> [r \in Runs |-> NoStats], done |-> {}]

Has(entries, f) == entries[f] # NoEntry
Held(entries) == {f \in Paths : Has(entries, f)}

Init ==
  /\ disk = Disk0 /\ legacy = Legacy0
  /\ db = EmptyDatabase /\ tx = EmptyDatabase /\ writer = Nobody
  /\ pc = [p \in Procs |-> "idle"] /\ op = [p \in Procs |-> NoOp]
  /\ id = [p \in Procs |-> 0]
  /\ todo = [p \in Procs |-> {}] /\ hit = [p \in Procs |-> {}]
  /\ seen = [p \in Procs |-> [f \in Paths |-> Absent]]
  /\ current = [p \in Procs |-> [f \in Paths |-> NoEntry]]
  /\ stats = [p \in Procs |-> NoStats]
  /\ alerts = {} /\ lost = {}
  /\ touched = [p \in Procs |-> {}] /\ gone = [p \in Procs |-> {}]
  /\ skipped = [p \in Procs |-> {}]
  /\ runs = 0 /\ upsets = 0

-----------------------------------------------------------------------------
(* Every step that changes files or entries tells the others' histories *)

Differ(a, b) == {f \in Paths : a[f] # b[f]}
Note(p, paths) ==
  touched' = [q \in Procs |-> IF q = p \/ pc[q] = "idle" THEN touched[q]
                              ELSE touched[q] \cup paths]

Quiet == UNCHANGED <<touched, gone, skipped>>
Silent(p) == Note(p, Differ(db.entries, db'.entries)) /\ UNCHANGED <<gone, skipped>>

(* the end of a process, whatever it had reached *)
Finish(p) ==
  /\ pc' = [pc EXCEPT ![p] = "idle"] /\ op' = [op EXCEPT ![p] = NoOp]
  /\ id' = [id EXCEPT ![p] = 0]
  /\ todo' = [todo EXCEPT ![p] = {}] /\ hit' = [hit EXCEPT ![p] = {}]
  /\ seen' = [seen EXCEPT ![p] = [f \in Paths |-> Absent]]
  /\ current' = [current EXCEPT ![p] = [f \in Paths |-> NoEntry]]
  /\ stats' = [stats EXCEPT ![p] = NoStats]

-----------------------------------------------------------------------------
(* Environment: files are changed, created and removed *)

Edit(f, v) ==
  /\ upsets < MaxUpsets /\ f \notin Params /\ disk[f] # v
  /\ upsets' = upsets + 1
  /\ disk' = [disk EXCEPT ![f] = v]
  /\ Note(Nobody, {f})
  /\ gone' = [q \in Procs |-> IF v = Absent /\ pc[q] # "idle" THEN gone[q] \cup {f}
                              ELSE gone[q]]
  /\ UNCHANGED <<legacy, db, tx, writer, procvars, alerts, lost, skipped, runs>>

-----------------------------------------------------------------------------
(* A command is started.  A snapshot collects its files before it opens    *)
(* the database.  A file that cannot be hashed, that vanishes between      *)
(* listing and reading, or that is named and not there, ends it.           *)

Collected(o) == o.paths \ (o.prefix \cup o.glob)

Launch(p, o) ==
  /\ pc[p] = "idle" /\ runs < MaxRuns
  /\ runs' = runs + 1
  /\ pc' = [pc EXCEPT ![p] = "collect"] /\ op' = [op EXCEPT ![p] = o]
  /\ id' = [id EXCEPT ![p] = runs + 1]
  /\ todo' = [todo EXCEPT ![p] = IF o.kind = "snapshot" THEN Collected(o) ELSE {}]
  /\ hit' = [hit EXCEPT ![p] = IF o.kind = "delete" THEN o.paths ELSE {}]
  /\ touched' = [touched EXCEPT ![p] = {}]
  /\ gone' = [gone EXCEPT ![p] = {f \in Paths : disk[f] = Absent}]
  /\ skipped' = [skipped EXCEPT ![p] = {}]
  /\ UNCHANGED <<disk, legacy, db, tx, writer, seen, current, stats, alerts,
                 lost, upsets>>

CollectPath(p, f) ==
  /\ pc[p] = "collect" /\ f \in todo[p]
  /\ disk[f] # Absent \/ f \notin op[p].named
  /\ todo' = [todo EXCEPT ![p] = @ \ {f}]
  /\ seen' = [seen EXCEPT ![p][f] = disk[f]]
  /\ Quiet
  /\ UNCHANGED <<disk, legacy, db, tx, writer, pc, op, id, current, hit, stats,
                 alerts, lost, runs, upsets>>

(* A file below a directory without permission, or whose type cannot be    *)
(* told, is passed over without an error, as if it were not there.         *)
CollectSkips(p, f) ==
  /\ pc[p] = "collect" /\ f \in todo[p] /\ disk[f] # Absent
  /\ f \notin op[p].named
  /\ upsets < MaxUpsets /\ upsets' = upsets + 1
  /\ todo' = [todo EXCEPT ![p] = @ \ {f}]
  /\ skipped' = [skipped EXCEPT ![p] = @ \cup {f}]
  /\ UNCHANGED <<disk, legacy, db, tx, writer, pc, op, id, seen, current, hit,
                 stats, alerts, lost, touched, gone, runs>>

(* Mutant: a file that cannot be hashed is skipped, not an error. *)
CollectFails_Skips(p, f) ==
  /\ pc[p] = "collect" /\ f \in todo[p] /\ disk[f] # Absent
  /\ todo' = [todo EXCEPT ![p] = @ \ {f}]
  /\ Quiet
  /\ UNCHANGED <<disk, legacy, db, tx, writer, pc, op, id, seen, current, hit,
                 stats, alerts, lost, runs, upsets>>

CollectFails(p, f) ==
  /\ pc[p] = "collect" /\ f \in todo[p]
  /\ disk[f] # Absent \/ f \in op[p].named
  /\ Finish(p) /\ Quiet
  /\ UNCHANGED <<disk, legacy, db, tx, writer, alerts, lost, runs, upsets>>

-----------------------------------------------------------------------------
(* InitTable: rows of the old table without an entry get one; skipped with *)
(* a warning when the write lock is taken                                  *)

Migrated(d) ==
  [d EXCEPT !.entries =
     [f \in Paths |-> IF ~Has(d.entries, f) /\ legacy[f] # Absent
                        THEN [ver |-> legacy[f], legacy |-> TRUE]
                        ELSE d.entries[f]]]

(* Mutant: the copy does not wait for the write lock. *)
InitTable_IgnoresLock == db' = Migrated(db)

InitTable == db' = IF writer = Nobody THEN Migrated(db) ELSE db

NextOf(o) == CASE o.kind = "snapshot" -> "read" [] o.kind = "delete" -> "select"
               [] o.kind \in {"clean", "check"} -> "list"
               [] o.kind = "rulecheck" -> "rules"

Open(p) ==
  /\ pc[p] = "collect" /\ todo[p] = {}
  /\ InitTable /\ Silent(p)
  /\ pc' = [pc EXCEPT ![p] = NextOf(op[p])]
  /\ todo' = [todo EXCEPT ![p] = IF op[p].kind = "rulecheck" THEN op[p].paths ELSE {}]
  /\ UNCHANGED <<disk, legacy, tx, writer, op, id, seen, current, hit, stats,
                 alerts, lost, runs, upsets>>

-----------------------------------------------------------------------------
(* ApplySnapshot *)

(* Paths whose entries a snapshot is entitled to remove: only the exclusions *)
(* by name or directory count here, a glob does not.                         *)
InScope_IgnoresExcludes(o) == o.paths       (* mutant *)

InScope(o) == o.paths \ o.prefix

Found(p) == {f \in Paths : seen[p][f] # Absent}
Missing(p, entries) == {f \in InScope(op[p]) : Has(entries, f)} \ Found(p)

Rows(entries, held) == [f \in Paths |-> IF f \in held THEN entries[f] ELSE NoEntry]

(* A SELECT returns its rows, or fewer: a step that fails is taken for the *)
(* end of them.                                                            *)
Fetched(held, rows) ==
  \/ held = rows /\ UNCHANGED upsets
  \/ held # rows /\ upsets < MaxUpsets /\ upsets' = upsets + 1

ReadCurrent(p) ==
  /\ pc[p] = "read"
  /\ \E held \in SUBSET Held(db.entries) :
       LET rows == Rows(db.entries, held)
       IN  /\ Fetched(held, Held(db.entries))
           /\ current' = [current EXCEPT ![p] = rows]
           /\ stats' = [stats EXCEPT ![p] =
                          [NoStats EXCEPT !.scanned = Cardinality(Found(p)),
                                          !.removed = Cardinality(Missing(p, rows))]]
           /\ todo' = [todo EXCEPT ![p] = Found(p) \cup Missing(p, rows)]
  /\ pc' = [pc EXCEPT ![p] = "begin"]
  /\ Quiet
  /\ UNCHANGED <<disk, legacy, db, tx, writer, op, id, seen, hit, alerts, lost,
                 runs>>

(* BEGIN IMMEDIATE *)
Begin(p) ==
  /\ pc[p] = "begin" /\ writer = Nobody
  /\ writer' = p /\ tx' = db
  /\ pc' = [pc EXCEPT ![p] = "write"]
  /\ Quiet
  /\ UNCHANGED <<disk, legacy, db, op, id, todo, seen, current, hit, stats,
                 alerts, lost, runs, upsets>>

BeginFails(p) ==
  /\ pc[p] = "begin" /\ writer # Nobody
  /\ Finish(p) /\ Quiet
  /\ UNCHANGED <<disk, legacy, db, tx, writer, alerts, lost, runs, upsets>>

Fresh(p, f) == [ver |-> seen[p][f], legacy |-> FALSE]

(* an audit record and the entry it explains *)
Audited(d, p, f, type, entry) ==
  [d EXCEPT !.audit[f] = Append(@, [type |-> type, old |-> current[p][f].ver,
                                    new |-> entry.ver, run |-> id[p]]),
            !.entries[f] = entry]

Counted(s, field) == [s EXCEPT ![field] = @ + 1]

WriteEntry(p, f) ==
  LET type == IF Has(current[p], f) THEN "modified" ELSE "added"
  IN  /\ pc[p] = "write" /\ op[p].kind = "snapshot"
      /\ f \in todo[p] \cap Found(p)
      /\ todo' = [todo EXCEPT ![p] = @ \ {f}]
      /\ \/ /\ current[p][f] = Fresh(p, f)
            /\ stats' = [stats EXCEPT ![p] = Counted(@, "unchanged")]
            /\ UNCHANGED tx
         \/ /\ current[p][f] # Fresh(p, f)
            /\ stats' = [stats EXCEPT ![p] = Counted(@, type)]
            /\ tx' = Audited(tx, p, f, type, Fresh(p, f))
      /\ Quiet
      /\ UNCHANGED <<disk, legacy, db, writer, pc, op, id, seen, current, hit,
                     alerts, lost, runs, upsets>>

(* Mutant: an entry is removed without its audit record. *)
RemoveEntry_Unaudited(p, f) ==
  /\ pc[p] = "write" /\ f \in todo[p]
  /\ todo[p] \cap Found(p) = {}
  /\ todo' = [todo EXCEPT ![p] = @ \ {f}]
  /\ tx' = [tx EXCEPT !.entries[f] = NoEntry]
  /\ Quiet
  /\ UNCHANGED <<disk, legacy, db, writer, pc, op, id, seen, current, hit, stats,
                 alerts, lost, runs, upsets>>

(* removals, after all the scanned files *)
RemoveEntry(p, f) ==
  /\ pc[p] = "write" /\ f \in todo[p]
  /\ todo[p] \cap Found(p) = {}
  /\ todo' = [todo EXCEPT ![p] = @ \ {f}]
  /\ tx' = Audited(tx, p, f, IF op[p].kind = "snapshot" THEN "removed" ELSE "delete",
                   NoEntry)
  /\ Quiet
  /\ UNCHANGED <<disk, legacy, db, writer, pc, op, id, seen, current, hit, stats,
                 alerts, lost, runs, upsets>>

(* the lock is given up, and with it what was not committed *)
Release == writer' = Nobody /\ tx' = EmptyDatabase

Closed(d, p) ==
  IF op[p].kind = "snapshot"
    THEN [d EXCEPT !.snapshots[id[p]] = stats[p], !.done = @ \cup {id[p]}]
    ELSE d

Commit(p) ==
  /\ pc[p] = "write" /\ todo[p] = {}
  /\ db' = Closed(tx, p) /\ Silent(p)
  /\ Release /\ Finish(p)
  /\ UNCHANGED <<disk, legacy, alerts, lost, runs, upsets>>

(* Mutant: the error path commits what was written so far. *)
Rollback_Commits(p) ==
  /\ pc[p] = "write"
  /\ db' = tx /\ Silent(p)
  /\ Release /\ Finish(p)
  /\ UNCHANGED <<disk, legacy, alerts, lost, runs, upsets>>

(* a statement or the COMMIT fails: ROLLBACK *)
Rollback(p) ==
  /\ pc[p] = "write"
  /\ Release /\ Finish(p) /\ Quiet
  /\ UNCHANGED <<disk, legacy, db, alerts, lost, runs, upsets>>

(* the process dies; SQLite discards what it had not committed *)
Crash(p) ==
  /\ pc[p] # "idle"
  /\ IF writer = p THEN Release ELSE UNCHANGED <<writer, tx>>
  /\ Finish(p) /\ Quiet
  /\ UNCHANGED <<disk, legacy, db, alerts, lost, runs, upsets>>

-----------------------------------------------------------------------------
(* DeleteBaselineEntries, reached from delete and from clean *)

Select(p) ==
  /\ pc[p] = "select"
  /\ \E victims \in SUBSET (hit[p] \cap Held(db.entries)) :
       /\ Fetched(victims, hit[p] \cap Held(db.entries))
       /\ \/ victims = {} /\ Finish(p)
          \/ /\ victims # {}
             /\ current' = [current EXCEPT ![p] = Rows(db.entries, victims)]
             /\ todo' = [todo EXCEPT ![p] = victims]
             /\ pc' = [pc EXCEPT ![p] = "begin"]
             /\ UNCHANGED <<op, id, seen, hit, stats>>
  /\ Quiet
  /\ UNCHANGED <<disk, legacy, db, tx, writer, alerts, lost, runs>>

(* clean and check: one SELECT of all entries, then file by file *)
List(p) ==
  LET listed == IF op[p].kind = "clean" THEN Paths ELSE op[p].paths
  IN  /\ pc[p] = "list"
      /\ \E held \in SUBSET Held(db.entries) :
           /\ Fetched(held, Held(db.entries))
           /\ current' = [current EXCEPT ![p] = Rows(db.entries, held)]
           /\ todo' = [todo EXCEPT ![p] = held \cap listed]
      /\ pc' = [pc EXCEPT ![p] = "examine"]
      /\ Quiet
      /\ UNCHANGED <<disk, legacy, db, tx, writer, op, id, seen, hit, stats,
                     alerts, lost, runs>>

(* FileExistsOnDisk, CheckOneEntry *)
Deviates(p, f) ==
  IF op[p].kind = "clean" THEN disk[f] = Absent ELSE disk[f] # current[p][f].ver

Examine(p, f) ==
  /\ pc[p] = "examine" /\ f \in todo[p]
  /\ todo' = [todo EXCEPT ![p] = @ \ {f}]
  /\ hit' = [hit EXCEPT ![p] = IF Deviates(p, f) THEN @ \cup {f} ELSE @]
  /\ Quiet
  /\ UNCHANGED <<disk, legacy, db, tx, writer, pc, op, id, seen, current, stats,
                 alerts, lost, runs, upsets>>

Examined(p) ==
  /\ pc[p] = "examine" /\ todo[p] = {}
  /\ \/ /\ hit[p] = {} /\ Finish(p)
        /\ UNCHANGED db /\ Quiet
     \/ /\ hit[p] # {} /\ op[p].kind = "clean"
        /\ pc' = [pc EXCEPT ![p] = "select"]
        /\ UNCHANGED <<db, op, id, todo, seen, current, hit, stats>> /\ Quiet
     \/ (* WriteAlerts opens the database once more *)
        /\ hit[p] # {} /\ op[p].kind = "check"
        /\ InitTable /\ Silent(p)
        /\ pc' = [pc EXCEPT ![p] = "report"] /\ todo' = [todo EXCEPT ![p] = hit[p]]
        /\ UNCHANGED <<op, id, seen, current, hit, stats>>
  /\ UNCHANGED <<disk, legacy, tx, writer, alerts, lost, runs, upsets>>

(* SaveAlert: an INSERT of its own; a failure is logged *)
SaveAlert(p, f) ==
  /\ pc[p] = "report" /\ f \in todo[p]
  /\ todo' = [todo EXCEPT ![p] = @ \ {f}]
  /\ IF writer = Nobody
       THEN alerts' = alerts \cup {<<id[p], f>>} /\ UNCHANGED lost
       ELSE lost' = lost \cup {<<id[p], f>>} /\ UNCHANGED alerts
  /\ Quiet
  /\ UNCHANGED <<disk, legacy, db, tx, writer, pc, op, id, seen, current, hit,
                 stats, runs, upsets>>

-----------------------------------------------------------------------------
(* `check -c': do_file_check and do_kernel_param_check read a value and     *)
(* SaveBaseline replaces the row of the old table, again alone and without  *)
(* waiting.  A missing file is a failure and leaves the row as it was.      *)

Reading(f) == IF f \in Params THEN ParamValue ELSE disk[f]

SaveBaseline(p, f) ==
  /\ pc[p] = "rules" /\ f \in todo[p]
  /\ todo' = [todo EXCEPT ![p] = @ \ {f}]
  /\ legacy' = IF writer = Nobody /\ Reading(f) # Absent
                 THEN [legacy EXCEPT ![f] = Reading(f)] ELSE legacy
  /\ Quiet
  /\ UNCHANGED <<disk, db, tx, writer, pc, op, id, seen, current, hit, stats,
                 alerts, lost, runs, upsets>>

Done(p) ==
  /\ pc[p] \in {"report", "rules"} /\ todo[p] = {}
  /\ Finish(p) /\ Quiet
  /\ UNCHANGED <<disk, legacy, db, tx, writer, alerts, lost, runs, upsets>>

Step(p) ==
  \/ Open(p) \/ ReadCurrent(p) \/ Begin(p) \/ BeginFails(p) \/ Commit(p)
  \/ Select(p) \/ List(p) \/ Examined(p) \/ Done(p)
  \/ \E f \in Paths :
       \/ CollectPath(p, f) \/ WriteEntry(p, f) \/ RemoveEntry(p, f)
       \/ Examine(p, f) \/ SaveAlert(p, f) \/ SaveBaseline(p, f)

Fault(p) ==
  \/ Rollback(p) \/ Crash(p)
  \/ \E f \in Paths : CollectFails(p, f) \/ CollectSkips(p, f)

Next ==
  \/ \E p \in Procs : Step(p) \/ Fault(p) \/ \E o \in Ops : Launch(p, o)
  \/ \E f \in Paths, v \in Value : Edit(f, v)

Spec == Init /\ [][Next]_vars

-----------------------------------------------------------------------------
(* Properties *)

(* Each variable holds what the code keeps in it, in particular tx is an    *)
(* image of the whole database while a transaction is open.                 *)
TypeOK ==
  /\ disk \in [Paths -> Value] /\ legacy \in [Paths -> Value]
  /\ db \in Database /\ tx \in Database
  /\ writer \in Procs \cup {Nobody}
  /\ pc \in [Procs -> {"idle", "collect", "read", "begin", "write", "select",
                      "list", "examine", "report", "rules"}]
  /\ op \in [Procs -> Operation] /\ id \in [Procs -> 0..MaxRuns]
  /\ todo \in [Procs -> SUBSET Paths] /\ hit \in [Procs -> SUBSET Paths]
  /\ seen \in [Procs -> [Paths -> Value]] /\ current \in [Procs -> Entries]
  /\ stats \in [Procs -> Counters]
  /\ alerts \subseteq Runs \X Paths /\ lost \subseteq Runs \X Paths
  /\ touched \in [Procs -> SUBSET Paths] /\ gone \in [Procs -> SUBSET Paths]
  /\ skipped \in [Procs -> SUBSET Paths]
  /\ runs \in 0..MaxRuns /\ upsets \in 0..MaxUpsets

LastNew(audit) == IF audit = <<>> THEN Absent ELSE audit[Len(audit)].new

Explained(d, f) ==
  LastNew(d.audit[f]) = IF d.entries[f].legacy THEN Absent ELSE d.entries[f].ver

(* The audit trail accounts for the baseline: whatever processes ran at     *)
(* once, failed or died, the last audit record of a path ends in the entry  *)
(* the path has, and a path without an entry, or with one that was copied   *)
(* from the old table, has none or one that ends in its removal             *)
(* (write_audit next to write_entry and delete_entry in ApplySnapshot).     *)
EntriesExplained == \A f \in Paths : Explained(db, f)

Recorded(r, type) ==
  {f \in Paths : \E i \in DOMAIN db.audit[f] :
                   db.audit[f][i].run = r /\ db.audit[f][i].type = type}

(* A snapshot is all or nothing, and its row tells what it did: a committed *)
(* snapshot has as many audit records of each kind as its counters say and  *)
(* every scanned file was counted once; one that failed or died left no     *)
(* record at all (ROLLBACK on every error path of ApplySnapshot).           *)
SnapshotsAccounted ==
  \A r \in Runs :
    LET s == db.snapshots[r]
        Count(type) == Cardinality(Recorded(r, type))
    IN  /\ Count("added") = s.added /\ Count("modified") = s.modified
        /\ Count("removed") = s.removed
        /\ s.scanned = s.added + s.modified + s.unchanged

Commits(p, kind) == Commit(p) /\ op[p].kind = kind

(* A snapshot takes effect: where no other process and no change of a file  *)
(* came between, a committed snapshot leaves each path of its scope that    *)
(* its scan did not pass over with the entry of what is on disk, or with    *)
(* none if nothing is, unless the row of what is gone was cut off when it   *)
(* read them; and it leaves the entries outside its scope, or excluded by   *)
(* path, alone (in_scope, RunBaselineSnapshot).                             *)
SnapshotTakesEffect ==
  [][\A p \in Procs : Commits(p, "snapshot") =>
       LET scope == op[p].paths \ op[p].prefix
           OnDisk(f) == db'.entries[f] = [ver |-> disk[f], legacy |-> FALSE]
           Unread(f) == /\ disk[f] = Absent /\ ~Has(current[p], f)
                        /\ db'.entries[f] = db.entries[f]
       IN  /\ \A f \in scope \ (op[p].glob \cup touched[p] \cup skipped[p]) :
                OnDisk(f) \/ Unread(f)
           /\ \A f \in Paths \ scope : db'.entries[f] = db.entries[f]]_vars

(* Neither a snapshot nor clean drops the entry of a file that was there    *)
(* all the time it ran, however many processes change the database          *)
(* meanwhile, but for two cases: a glob excludes the file, or the scan of   *)
(* the snapshot passed it over (CollectPath, skip_permission_denied).  A    *)
(* file that it came to and could not hash makes it fail as a whole.        *)
NothingPresentIsDropped ==
  [][\A p \in Procs, f \in Paths :
       /\ Commits(p, "snapshot") \/ Commits(p, "clean")
       /\ Has(db.entries, f) /\ ~Has(db'.entries, f)
       => f \in gone[p] \cup op[p].glob \cup skipped[p]]_vars

(* Whatever is committed changes by whole commands: the rows of a snapshot  *)
(* or a deletion become visible together with one audit record for each,    *)
(* under a run number of its own, and the snapshot's row counts them; a     *)
(* command that failed, lost the lock or died shows nothing, however the    *)
(* steps of several processes interleave (BEGIN IMMEDIATE to COMMIT in      *)
(* ApplySnapshot and DeleteBaselineEntries).                                *)
Ledger == INSTANCE BaselineLedger
  WITH entries <- db.entries, audit <- db.audit, snapshots <- db.snapshots,
       done <- db.done
ImplementsLedger == Ledger!Spec
=============================================================================
