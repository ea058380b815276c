--------------------------- MODULE BaselineLedger ---------------------------
(***************************************************************************)
(* What the baseline database promises whoever reads it, another command   *)
(* or the operator: it changes by whole commands.  A snapshot or deletion  *)
(* becomes visible all at once or never, under a run number of its own,    *)
(* and leaves one audit record for every path it changed, which says what  *)
(* the path's entry is now; the row of a snapshot counts those records.    *)
(* Entries may besides be copied from the old table where there is none.   *)
(* BaselineStore implements this specification.                            *)
(***************************************************************************)
EXTENDS Naturals, Sequences, FiniteSets

CONSTANTS
  Paths,
  Versions, Absent,
  Runs             (* the numbers of the commands *)

VARIABLES
  entries,         (* what the baseline holds of each path                 *)
  audit,           (* the records of each path, oldest first               *)
  snapshots, done  (* the counters of each snapshot, and which there are   *)

vars == <<entries, audit, snapshots, done>>

Value == Versions \cup {Absent}
NoEntry == [ver |-> Absent, legacy |-> FALSE]
NoStats == [scanned |-> 0, added |-> 0, modified |-> 0, removed |-> 0,
            unchanged |-> 0]

Init ==
  /\ entries = [f \in Paths |-> NoEntry]
  /\ audit = [f \in Paths |-> <<>>]
  /\ snapshots = [r \in Runs |-> NoStats]
  /\ done = {}

(* a record of run r: a removal leaves nothing, an addition found nothing *)
Change(r, types) ==
  {c \in [type : types, old : Value, new : Value, run : {r}] :
     /\ c.new = Absent <=> c.type \in {"removed", "delete"}
     /\ c.type = "added" => c.old = Absent}

Unused(r) ==
  r \notin done /\ \A f \in Paths : \A i \in DOMAIN audit[f] : audit[f][i].run # r

(* the records a step adds: the last one of each path with a longer trail *)
NewRecords ==
  [f \in {g \in Paths : audit'[g] # audit[g]} |-> audit'[f][Len(audit'[f])]]

Written(log) ==
  /\ audit' = [f \in Paths |-> IF f \in DOMAIN log THEN Append(audit[f], log[f])
                               ELSE audit[f]]
  /\ entries' = [f \in Paths |-> IF f \in DOMAIN log
                                 THEN [ver |-> log[f].new, legacy |-> FALSE]
                                 ELSE entries[f]]

Command(r, types) ==
  /\ Unused(r)
  /\ \A f \in DOMAIN NewRecords : NewRecords[f] \in Change(r, types)
  /\ Written(NewRecords)

Of(type) == {f \in DOMAIN NewRecords : NewRecords[f].type = type}

Row(same) ==
  [scanned   |-> Cardinality(Of("added")) + Cardinality(Of("modified")) + Cardinality(same),
   added     |-> Cardinality(Of("added")),
   modified  |-> Cardinality(Of("modified")),
   removed   |-> Cardinality(Of("removed")),
   unchanged |-> Cardinality(same)]

Snapshot(r) ==
  /\ Command(r, {"added", "modified", "removed"})
  /\ done' = done \cup {r}
  /\ \E same \in SUBSET (Paths \ DOMAIN NewRecords) :
       snapshots' = [snapshots EXCEPT ![r] = Row(same)]

Delete(r) ==
  /\ Command(r, {"delete"})
  /\ UNCHANGED <<snapshots, done>>

Migrate ==
  /\ \E S \in SUBSET {f \in Paths : entries[f] = NoEntry} :
       /\ \A f \in S : entries'[f] \in [ver : Versions, legacy : {TRUE}]
       /\ entries' = [f \in Paths |-> IF f \in S THEN entries'[f] ELSE entries[f]]
  /\ UNCHANGED <<audit, snapshots, done>>

Next == Migrate \/ \E r \in Runs : Snapshot(r) \/ Delete(r)

Spec == Init /\ [][Next]_vars
=============================================================================
