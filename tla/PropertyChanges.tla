---------------------------- MODULE PropertyChanges ----------------------------
(***************************************************************************)
(* The property changes a transaction buffers before it commits: what      *)
(* Operations reads and asks of TxState for each entity, the maps that     *)
(* PropertyContainerStateImpl keeps, and what the commit's visitor makes   *)
(* of them.  An entity is changed under its exclusive lock, so one         *)
(* transaction at a time has changes of it, and every entity stands for    *)
(* itself; what is committed is a history of PropertyHistory for each key. *)
(*                                                                         *)
(* An operation is given the version of a query or reads that of the       *)
(* kernel transaction, which nested transactions change: every operation   *)
(* picks its own.                                                          *)
(***************************************************************************)
EXTENDS DGVersion, Sequences

CONSTANTS
  Node, Rel,
  PropertyKey, Value,
  NoValue,        \* Values.NO_VALUE, and a key a map does not hold
  TxVersion,      \* the stamps an operation can be given
  MaxAsked,       \* bound: operations of one transaction on one property
  MaxHistory      \* bound: entries of a history

Entity == Node \cup Rel

ASSUME NoValueAssumption == NoValue \notin Value \cup Stamp
ASSUME TxVersionAssumption == TxVersion \subseteq Stamp
ASSUME AskedBound == MaxAsked \in Nat
ASSUME HistoryBound == MaxHistory \in Nat

VARIABLES
  hist,           \* the committed history of each property
  addedProperties, changedProperties, removedProperties,
  addedPropertiesWithVersions,
  asked           \* history: the operations of the transaction that took effect

pending == <<addedProperties, changedProperties, removedProperties, addedPropertiesWithVersions>>
vars == <<hist, pending, asked>>

History == INSTANCE PropertyHistory WITH Primitive <- Entity

Operation == [value : Value \cup {NoValue}, version : TxVersion]    \* a removal has no value
Entry == [value : Value, start : HalfVersion, end : HalfVersion]

TypeOK ==
  /\ hist \in [Entity -> [PropertyKey -> Seq(Entry)]]
  /\ addedProperties \in [Entity -> [PropertyKey -> Value \cup {NoValue}]]
  /\ changedProperties \in [Entity -> [PropertyKey -> Value \cup {NoValue}]]
  /\ removedProperties \in [Entity -> SUBSET PropertyKey]
  /\ addedPropertiesWithVersions \in [Entity -> [PropertyKey -> TxVersion \cup {NoValue}]]
  /\ asked \in [Entity -> [PropertyKey -> Seq(Operation)]]

Nothing == [k \in PropertyKey |-> NoValue]
NotAsked == [k \in PropertyKey |-> <<>>]

Init ==
  /\ hist = [e \in Entity |-> [k \in PropertyKey |-> <<>>]]
  /\ addedProperties = [e \in Entity |-> Nothing]
  /\ changedProperties = [e \in Entity |-> Nothing]
  /\ removedProperties = [e \in Entity |-> {}]
  /\ addedPropertiesWithVersions = [e \in Entity |-> Nothing]
  /\ asked = [e \in Entity |-> NotAsked]

-----------------------------------------------------------------------------
(* Reading *)

\* The value of the record in the main chain: a removal that was committed
\* only ended it, and the store cursor does not look at versions.
Stored(e, k) == IF hist[e][k] = <<>> THEN NoValue ELSE hist[e][k][Len(hist[e][k])].value

\* What DefaultPropertyCursor finds: the changes first, then the store but for
\* the keys isPropertyChangedOrRemoved() names.
Read(e, k) ==
  IF addedProperties[e][k] # NoValue THEN addedProperties[e][k]
  ELSE IF changedProperties[e][k] # NoValue THEN changedProperties[e][k]
  ELSE IF k \in removedProperties[e] THEN NoValue ELSE Stored(e, k)

-----------------------------------------------------------------------------
(* PropertyContainerStateImpl *)

SetVersion(e, k, ver) ==
  addedPropertiesWithVersions' = [addedPropertiesWithVersions EXCEPT ![e][k] = ver]

\* Mutant of changeProperty: the version stays that of the first change.
changePropertyFirstVersion(e, k, v, ver) ==
  /\ IF addedPropertiesWithVersions[e][k] = NoValue
     THEN SetVersion(e, k, ver) ELSE UNCHANGED addedPropertiesWithVersions
  /\ \/ /\ addedProperties[e][k] # NoValue
        /\ addedProperties' = [addedProperties EXCEPT ![e][k] = v]
        /\ UNCHANGED <<changedProperties, removedProperties>>
     \/ /\ addedProperties[e][k] = NoValue
        /\ changedProperties' = [changedProperties EXCEPT ![e][k] = v]
        /\ removedProperties' = [removedProperties EXCEPT ![e] = @ \ {k}]
        /\ UNCHANGED addedProperties

changeProperty(e, k, v, ver) ==
  /\ SetVersion(e, k, ver)
  /\ \/ /\ addedProperties[e][k] # NoValue
        /\ addedProperties' = [addedProperties EXCEPT ![e][k] = v]
        /\ UNCHANGED <<changedProperties, removedProperties>>
     \/ /\ addedProperties[e][k] = NoValue
        /\ changedProperties' = [changedProperties EXCEPT ![e][k] = v]
        /\ removedProperties' = [removedProperties EXCEPT ![e] = @ \ {k}]
        /\ UNCHANGED addedProperties

\* Mutant of addProperty: a removal before it stays.
addPropertyOnly(e, k, v, ver) ==
  /\ SetVersion(e, k, ver)
  /\ addedProperties' = [addedProperties EXCEPT ![e][k] = v]
  /\ UNCHANGED <<changedProperties, removedProperties>>

\* A property removed before becomes a change; it keeps the removal's version.
addProperty(e, k, v, ver) ==
  \/ /\ k \in removedProperties[e]
     /\ removedProperties' = [removedProperties EXCEPT ![e] = @ \ {k}]
     /\ changedProperties' = [changedProperties EXCEPT ![e][k] = v]
     /\ UNCHANGED <<addedProperties, addedPropertiesWithVersions>>
  \/ /\ k \notin removedProperties[e]
     /\ SetVersion(e, k, ver)
     /\ addedProperties' = [addedProperties EXCEPT ![e][k] = v]
     /\ UNCHANGED <<changedProperties, removedProperties>>

\* Mutant of removeProperty: a change before it stays.
removePropertyOnly(e, k, ver) ==
  /\ SetVersion(e, k, ver)
  /\ \/ /\ addedProperties[e][k] # NoValue
        /\ addedProperties' = [addedProperties EXCEPT ![e][k] = NoValue]
        /\ UNCHANGED <<changedProperties, removedProperties>>
     \/ /\ addedProperties[e][k] = NoValue
        /\ removedProperties' = [removedProperties EXCEPT ![e] = @ \cup {k}]
        /\ UNCHANGED <<addedProperties, changedProperties>>

removeProperty(e, k, ver) ==
  /\ SetVersion(e, k, ver)
  /\ \/ /\ addedProperties[e][k] # NoValue
        /\ addedProperties' = [addedProperties EXCEPT ![e][k] = NoValue]
        /\ UNCHANGED <<changedProperties, removedProperties>>
     \/ /\ addedProperties[e][k] = NoValue
        /\ removedProperties' = [removedProperties EXCEPT ![e] = @ \cup {k}]
        /\ changedProperties' = [changedProperties EXCEPT ![e][k] = NoValue]
        /\ UNCHANGED addedProperties

-----------------------------------------------------------------------------
(* Operations *)

Ask(e, k, v, ver) ==
  /\ Len(asked[e][k]) < MaxAsked
  /\ asked' = [asked EXCEPT ![e][k] = Append(@, [value |-> v, version |-> ver])]

\* nodeSetProperty1, nodeSetPropertyWithVersion
NodeSetProperty(e, k, v, ver) ==
  /\ Ask(e, k, v, ver)
  /\ IF Read(e, k) = NoValue THEN addProperty(e, k, v, ver) ELSE changeProperty(e, k, v, ver)
  /\ UNCHANGED hist

\* Mutant of RelationshipSetProperty: the store decides if it is an addition.
RelationshipSetStored(e, k, v, ver) ==
  /\ Read(e, k) # v
  /\ Ask(e, k, v, ver)
  /\ IF Stored(e, k) = NoValue THEN addProperty(e, k, v, ver) ELSE changeProperty(e, k, v, ver)
  /\ UNCHANGED hist

\* relationshipSetProperty1 and relationshipSetPropertyWithVersion do nothing
\* when the value they read is the one they are to set.
RelationshipSetProperty(e, k, v, ver) ==
  /\ Read(e, k) # v
  /\ Ask(e, k, v, ver)
  /\ IF Read(e, k) = NoValue THEN addProperty(e, k, v, ver) ELSE changeProperty(e, k, v, ver)
  /\ UNCHANGED hist

\* The four operations that remove do nothing for a property they do not read.
RemoveProperty(e, k, ver) ==
  /\ Read(e, k) # NoValue
  /\ Ask(e, k, NoValue, ver)
  /\ removeProperty(e, k, ver)
  /\ UNCHANGED hist

-----------------------------------------------------------------------------
(* Commit and rollback *)

Forget(e) ==
  /\ addedProperties' = [addedProperties EXCEPT ![e] = Nothing]
  /\ changedProperties' = [changedProperties EXCEPT ![e] = Nothing]
  /\ removedProperties' = [removedProperties EXCEPT ![e] = {}]
  /\ addedPropertiesWithVersions' = [addedPropertiesWithVersions EXCEPT ![e] = Nothing]
  /\ asked' = [asked EXCEPT ![e] = NotAsked]

\* Mutant of Superseded: the stamp of the write ends the newest value.
SupersededByStamp(h, v, ver) == Append(History!Ended(h, ver), History!Entry(v, ver))

\* Mutant of Superseded: the newest value goes on.
SupersededOpen(h, v, ver) == Append(h, History!Entry(v, ver))

\* A write supersedes the newest value of a history, if there is one.
Superseded(h, v, ver) ==
  Append(History!Ended(h, getStartVersion(ver)), History!Entry(v, ver))

\* What visitNodePropertyChanges and visitRelPropertyChanges make of one
\* property: first the removals, then the changes, then the additions.
Visited(e, k) ==
  LET ver == addedPropertiesWithVersions[e][k]
      removed == IF k \in removedProperties[e]
                 THEN History!Ended(hist[e][k], getStartVersion(ver)) ELSE hist[e][k]
      changed == IF changedProperties[e][k] # NoValue
                 THEN Superseded(removed, changedProperties[e][k], ver) ELSE removed
  IN  IF addedProperties[e][k] # NoValue
      THEN Superseded(changed, addedProperties[e][k], ver) ELSE changed

Commit(e) ==
  /\ asked[e] # NotAsked
  /\ \A k \in PropertyKey : Len(Visited(e, k)) <= MaxHistory
  /\ hist' = [hist EXCEPT ![e] = [k \in PropertyKey |-> Visited(e, k)]]
  /\ Forget(e)

\* A transaction that rolls back, or whose commit fails, writes no records.
Rollback(e) ==
  /\ asked[e] # NotAsked
  /\ Forget(e)
  /\ UNCHANGED hist

Next ==
  \/ \E e \in Node, k \in PropertyKey, v \in Value, ver \in TxVersion : NodeSetProperty(e, k, v, ver)
  \/ \E e \in Rel, k \in PropertyKey, v \in Value, ver \in TxVersion :
       RelationshipSetProperty(e, k, v, ver)
  \/ \E e \in Entity, k \in PropertyKey, ver \in TxVersion : RemoveProperty(e, k, ver)
  \/ \E e \in Entity : Commit(e) \/ Rollback(e)

Spec == Init /\ [][Next]_vars

-----------------------------------------------------------------------------
LastAsked(e, k) == asked[e][k][Len(asked[e][k])]

(* A transaction reads its own writes: the last operation on a property    *)
(* decides what it reads, whichever of the three maps of its state the     *)
(* operations before it went through.                                      *)
ReadYourWrites ==
  \A e \in Entity, k \in PropertyKey :
    asked[e][k] # <<>> => Read(e, k) = LastAsked(e, k).value

(* The commit can carry out what is buffered: the visitor finds a version  *)
(* for each change (versions.get() is unboxed without a check), removes    *)
(* and changes only what the chain holds, adds only what it lacks, and     *)
(* gives the record state one command for each property.                   *)
Committable ==
  \A e \in Entity, k \in PropertyKey :
    LET added == addedProperties[e][k] # NoValue
        changed == changedProperties[e][k] # NoValue
        removed == k \in removedProperties[e]
    IN
      /\ added \/ changed \/ removed => addedPropertiesWithVersions[e][k] # NoValue
      /\ added => hist[e][k] = <<>>
      /\ changed \/ removed => hist[e][k] # <<>>
      /\ ~(changed /\ removed)

\* The version a set is written with: that of the removal right before it, if
\* there was something to remove in the store.
VersionOfLast(h, ops) ==
  LET n == Len(ops) IN
    IF n > 1 /\ h # <<>> /\ ops[n - 1].value = NoValue THEN ops[n - 1].version ELSE ops[n].version

\* What the operations of a transaction make of a history.
Effect(h, ops) ==
  LET last == ops[Len(ops)] IN
    IF ops = <<>> THEN h
    ELSE IF last.value = NoValue THEN History!Ended(h, getStartVersion(last.version))
    ELSE Superseded(h, last.value, VersionOfLast(h, ops))

(* However often a transaction sets and removes a property, its commit     *)
(* adds one entry at most, with the value set last, and ends the one       *)
(* before; a property that was added and removed leaves no trace; and a    *)
(* removal ends the newest entry and discards the sets before it.          *)
CommitEffect ==
  [][\A e \in Entity : Commit(e) \/ hist'[e] # hist[e] =>
       \A k \in PropertyKey : hist'[e][k] = Effect(hist[e][k], asked[e][k])]_vars

-----------------------------------------------------------------------------
(* One property by itself: the refinement mapping. *)

Of(owner, name) == [p \in {owner} |-> [q \in {name} |-> hist[owner][name]]]

Property(owner, name) == INSTANCE PropertyHistory
  WITH Primitive <- {owner}, PropertyKey <- {name}, hist <- Of(owner, name)

(* Whatever operations a transaction makes of a property, in the store it  *)
(* takes one step of its history at most: one write, which ends the value  *)
(* before it where its own starts, or one removal.                         *)
ImplementsHistories ==
  /\ \A e \in Entity, k \in PropertyKey : Property(e, k)!Init
  /\ [][\A e \in Entity, k \in PropertyKey : [Property(e, k)!Next]_(Of(e, k))]_hist

==============================================================================
