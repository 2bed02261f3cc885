---------------------------- MODULE PropertyCursor ----------------------------
(***************************************************************************)
(* What RecordPropertyCursor reads of the records of PropertyChain: for    *)
(* each property the record the walk finds, and behind it, link by link,   *)
(* those it superseded.  This is the refinement mapping from records to    *)
(* the histories of PropertyHistory.                                       *)
(***************************************************************************)
EXTENDS PropertyChain, Sequences

EntryOf(r) ==
  [value |-> value[r], start |-> getStartVersion(version[r]), end |-> getEndVersion(version[r])]

InUseIds == {r \in PropertyId : inUse[r]}

\* The values of a record and of the history behind it, oldest first.
nextHistory[r \in InUseIds] ==
  IF nextHisProp[r] = NoRecord THEN <<EntryOf(r)>>
  ELSE Append(nextHistory[nextHisProp[r]], EntryOf(r))

Histories ==
  [p \in Primitive |-> [k \in PropertyKey |->
     IF Hosts(p, k) = {} THEN <<>> ELSE nextHistory[CHOOSE r \in Hosts(p, k) : TRUE]]]

PH == INSTANCE PropertyHistory WITH hist <- Histories

(* The chains of records implement the histories: whatever cursors read    *)
(* through the links changes as a write, a removal or a deletion promises, *)
(* and only for the property that was operated on.                         *)
ImplementsHistory == PH!Spec

==============================================================================
