--------------------------- MODULE PropertyHistory ---------------------------
(***************************************************************************)
(* What the versioned property store promises, without records, links or   *)
(* ids: every property of a primitive has a history, the sequence of its   *)
(* values with the interval of versions of each, oldest first.             *)
(***************************************************************************)
EXTENDS DGVersion, Sequences

CONSTANTS Primitive, PropertyKey, Value, TxVersion

VARIABLE hist

Entry(v, ver) ==
  [value |-> v, start |-> getStartVersion(ver), end |-> getEndVersion(ver)]

\* The history h with its newest entry ended at version e, if it has one.
Ended(h, e) == IF h = <<>> THEN h ELSE [h EXCEPT ![Len(h)].end = e]

Init == hist = [p \in Primitive |-> [k \in PropertyKey |-> <<>>]]

\* A write ends the newest value where the new one starts.
SetProperty(p, k, v, ver) ==
  hist' = [hist EXCEPT ![p][k] = Append(Ended(@, getStartVersion(ver)), Entry(v, ver))]

\* A removal ends the newest value, again if it had already ended.
RemoveProperty(p, k, ver) ==
  /\ hist[p][k] # <<>>
  /\ hist' = [hist EXCEPT ![p][k] = Ended(@, getStartVersion(ver))]

\* Physical deletion forgets the primitive.
Forget(p) == hist' = [hist EXCEPT ![p] = [k \in PropertyKey |-> <<>>]]

Next ==
  \/ \E p \in Primitive, k \in PropertyKey, v \in Value, ver \in TxVersion :
       SetProperty(p, k, v, ver)
  \/ \E p \in Primitive, k \in PropertyKey, ver \in TxVersion : RemoveProperty(p, k, ver)
  \/ \E p \in Primitive : Forget(p)

Spec == Init /\ [][Next]_hist

==============================================================================
