------------------------------ MODULE SlotFifo ------------------------------
(***************************************************************************)
(* What the bounded queue of the event bus promises.  A producer reserves  *)
(* the next place in line, fills it and commits it; a consumer takes the   *)
(* first place that is not taken, only once it is committed, and hands its *)
(* record on.  A place is free again for a new reservation once every      *)
(* place before it is, so the line never holds more than Places entries.   *)
(* MpscQueue implements this specification.                                *)
(***************************************************************************)
EXTENDS Naturals, Sequences, FiniteSetsExt

CONSTANTS
  Records,     (* the records that may travel through the queue *)
  Places       (* the number of places in the queue             *)

VARIABLES
  line,        (* the places in use, oldest first: [rec, st]    *)
  delivered    (* the records handed to consumers, in order     *)

vars == <<line, delivered>>

Init ==
  /\ line = <<>>
  /\ delivered = <<>>

Reserve(r) ==
  /\ Len(line) < Places
  /\ line' = Append(line, [rec |-> r, st |-> "reserved"])
  /\ UNCHANGED delivered

Commit(i) ==
  /\ line[i].st = "reserved"
  /\ line' = [line EXCEPT ![i].st = "committed"]
  /\ UNCHANGED delivered

Take(i) ==
  /\ line[i].st = "committed"
  /\ \A j \in 1..i-1 : line[j].st \in {"taken", "free"}
  /\ line' = [line EXCEPT ![i].st = "taken"]
  /\ UNCHANGED delivered

(* the places freed at the front of the line leave it *)
WithoutFreeFront(l) ==
  LET used == {j \in DOMAIN l : l[j].st # "free"}
  IN  IF used = {} THEN <<>> ELSE SubSeq(l, Min(used), Len(l))

Deliver(i) ==
  /\ line[i].st = "taken"
  /\ delivered' = Append(delivered, line[i].rec)
  /\ line' = WithoutFreeFront([line EXCEPT ![i].st = "free"])

Next ==
  \/ \E r \in Records : Reserve(r)
  \/ \E i \in DOMAIN line : Commit(i) \/ Take(i) \/ Deliver(i)

Spec == Init /\ [][Next]_vars
=============================================================================
