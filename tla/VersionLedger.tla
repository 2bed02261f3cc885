---------------------------- MODULE VersionLedger ----------------------------
(***************************************************************************)
(* What the version store promises, without the id generator and the       *)
(* transactions: each version goes to one transaction, which may mark it;  *)
(* marks reach the disk or are lost in a crash, and a version whose mark   *)
(* was lost may count as one that nobody was given.                        *)
(***************************************************************************)
EXTENDS Integers

CONSTANT Version  \* numbers

VARIABLES
  issued,         \* versions that transactions were given
  marked,         \* those that are marked as committed
  durable         \* and of these, those a crash does not lose

ledger == <<issued, marked, durable>>

Init == issued = {} /\ marked = {} /\ durable = {}

Issue(v) ==
  /\ v \notin issued
  /\ issued' = issued \cup {v}
  /\ UNCHANGED <<marked, durable>>

Mark(v) ==
  /\ v \in issued
  /\ marked' = marked \cup {v}
  /\ UNCHANGED <<issued, durable>>

Flush ==
  /\ durable' = marked
  /\ UNCHANGED <<issued, marked>>

\* What was kept counts as issued, and nothing above the last of it.
Restart ==
  /\ durable \subseteq issued' /\ \A v \in issued' : \E d \in durable : v <= d
  /\ marked' = durable
  /\ UNCHANGED durable

Next ==
  \/ \E v \in Version : Issue(v) \/ Mark(v)
  \/ Flush \/ Restart

Spec == Init /\ [][Next]_ledger

==============================================================================
