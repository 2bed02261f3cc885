------------------------ MODULE PropertyChanges_proofs ------------------------
(***************************************************************************)
(* Proofs about the property changes of a transaction, for any number of   *)
(* entities, keys, values and operations.                                  *)
(*                                                                         *)
(* The properties relate what was asked to what is read and committed; the *)
(* invariant says that the maps of the state are, for each property, what  *)
(* the last operations on it and the history in the store determine.       *)
(***************************************************************************)
EXTENDS PropertyChanges, DGVersion_proofs

None(e, k) ==
  /\ addedProperties[e][k] = NoValue
  /\ changedProperties[e][k] = NoValue
  /\ k \notin removedProperties[e]

Removed(e, k) ==
  /\ addedProperties[e][k] = NoValue
  /\ changedProperties[e][k] = NoValue
  /\ k \in removedProperties[e] <=> hist[e][k] # <<>>
  /\ addedPropertiesWithVersions[e][k] = LastAsked(e, k).version

Written(e, k) ==
  /\ IF hist[e][k] = <<>>
     THEN addedProperties[e][k] = LastAsked(e, k).value /\ changedProperties[e][k] = NoValue
     ELSE addedProperties[e][k] = NoValue /\ changedProperties[e][k] = LastAsked(e, k).value
  /\ k \notin removedProperties[e]
  /\ addedPropertiesWithVersions[e][k] = VersionOfLast(hist[e][k], asked[e][k])

\* The maps hold what the operations asked for make of the history.
Determined(e, k) ==
  IF asked[e][k] = <<>> THEN None(e, k)
  ELSE IF LastAsked(e, k).value = NoValue THEN Removed(e, k) ELSE Written(e, k)

IInv == TypeOK /\ \A e \in Entity, k \in PropertyKey : Determined(e, k)

-----------------------------------------------------------------------------
(* Sequences of operations. *)

\* Appending an operation makes it the last one.
LEMMA Appended ==
  ASSUME NEW ops \in Seq(Operation), NEW op \in Operation
  PROVE  /\ Append(ops, op) \in Seq(Operation)
         /\ Append(ops, op) # <<>>
         /\ Len(Append(ops, op)) = Len(ops) + 1
         /\ Append(ops, op)[Len(Append(ops, op))] = op
         /\ ops # <<>> => /\ Len(ops) > 0
                          /\ Append(ops, op)[Len(Append(ops, op)) - 1] = ops[Len(ops)]
         /\ ops = <<>> => Len(ops) = 0
OBVIOUS

\* Ending the newest entry of a history leaves a history of the same length.
LEMMA EndedHistory ==
  ASSUME NEW h \in Seq(Entry), NEW end \in HalfVersion
  PROVE  History!Ended(h, end) \in Seq(Entry)
<1>1. CASE h = <<>>
  BY <1>1 DEF History!Ended
<1>2. CASE h # <<>>
  <2>1. Len(h) \in 1 .. Len(h) /\ Len(h) \in DOMAIN h
    BY <1>2
  <2>2. [h[Len(h)] EXCEPT !.end = end] \in Entry
    <3>1. h[Len(h)] \in Entry
      BY <2>1
    <3> QED
      BY <3>1 DEF Entry
  <2>3. [h EXCEPT ![Len(h)] = [h[Len(h)] EXCEPT !.end = end]] \in Seq(Entry)
    BY <2>1, <2>2
  <2> QED
    BY <1>2, <2>3 DEF History!Ended
<1> QED
  BY <1>1, <1>2

\* A write turns a history into a history.
LEMMA SupersededHistory ==
  ASSUME NEW h \in Seq(Entry), NEW v \in Value, NEW ver \in Stamp
  PROVE  Superseded(h, v, ver) \in Seq(Entry)
<1>1. getStartVersion(ver) \in HalfVersion /\ getEndVersion(ver) \in HalfVersion
  BY HalvesOfStamp
<1>2. History!Entry(v, ver) \in Entry
  BY <1>1 DEF Entry, History!Entry, getStartVersion, getEndVersion,
    History!getStartVersion, History!getEndVersion
<1>3. History!Ended(h, getStartVersion(ver)) \in Seq(Entry)
  BY <1>1, EndedHistory
<1> QED
  BY <1>2, <1>3 DEF Superseded

-----------------------------------------------------------------------------
(* Reading and committing, from the invariant. *)

\* What a transaction reads after an operation is what it asked for last.
LEMMA ReadLast ==
  ASSUME IInv, NEW e \in Entity, NEW k \in PropertyKey, asked[e][k] # <<>>
  PROVE  Read(e, k) = LastAsked(e, k).value
<1>1. Determined(e, k)
  BY DEF IInv
<1>2. CASE LastAsked(e, k).value = NoValue
  <2>1. Removed(e, k)
    BY <1>1, <1>2 DEF Determined
  <2> QED
    BY <2>1, <1>2 DEF Removed, Read, Stored
<1>3. CASE LastAsked(e, k).value # NoValue
  <2>1. Written(e, k)
    BY <1>1, <1>3 DEF Determined
  <2> QED
    BY <2>1, <1>3 DEF Written, Read
<1> QED
  BY <1>2, <1>3

\* What a commit writes is the effect of the operations asked for.
LEMMA VisitedEffect ==
  ASSUME IInv, NEW e \in Entity, NEW k \in PropertyKey
  PROVE  Visited(e, k) = Effect(hist[e][k], asked[e][k])
<1>1. Determined(e, k)
  BY DEF IInv
<1>2. CASE asked[e][k] = <<>>
  BY <1>1, <1>2 DEF Determined, None, Visited, Effect
<1>3. CASE asked[e][k] # <<>> /\ LastAsked(e, k).value = NoValue
  <2>1. Removed(e, k)
    BY <1>1, <1>3 DEF Determined
  <2>2. hist[e][k] = <<>> =>
          History!Ended(hist[e][k], getStartVersion(LastAsked(e, k).version)) = hist[e][k]
    BY DEF History!Ended
  <2> QED
    BY <1>3, <2>1, <2>2 DEF Removed, Visited, Effect, LastAsked
<1>4. CASE asked[e][k] # <<>> /\ LastAsked(e, k).value # NoValue
  <2>1. Written(e, k)
    BY <1>1, <1>4 DEF Determined
  <2> QED
    BY <1>4, <2>1 DEF Written, Visited, Effect, LastAsked
<1> QED
  BY <1>2, <1>3, <1>4

-----------------------------------------------------------------------------
(* The steps. *)

\* Nothing is buffered before the first operation.
LEMMA InitIInv == Init => IInv
<1> SUFFICES ASSUME Init PROVE IInv
  OBVIOUS
<1>1. TypeOK
  BY DEF Init, TypeOK, Nothing, NotAsked
<1>2. \A e \in Entity, k \in PropertyKey : Determined(e, k)
  BY DEF Init, Determined, None, Nothing, NotAsked
<1> QED
  BY <1>1, <1>2 DEF IInv

\* The maps of other properties do not change: what determines them stays.
Elsewhere(e, k) ==
  \A f \in Entity, j \in PropertyKey : f # e \/ j # k =>
    /\ addedProperties'[f][j] = addedProperties[f][j]
    /\ changedProperties'[f][j] = changedProperties[f][j]
    /\ j \in removedProperties'[f] <=> j \in removedProperties[f]
    /\ addedPropertiesWithVersions'[f][j] = addedPropertiesWithVersions[f][j]
    /\ asked'[f][j] = asked[f][j]

\* Changing one value of a map of maps.
LEMMA NestedTyped ==
  ASSUME NEW S, NEW f \in [Entity -> [PropertyKey -> S]],
         NEW e \in Entity, NEW k \in PropertyKey, NEW x \in S
  PROVE  [f EXCEPT ![e][k] = x] \in [Entity -> [PropertyKey -> S]]
OBVIOUS

\* What the operations of PropertyContainerStateImpl leave is typed.
LEMMA StateTyped ==
  ASSUME TypeOK, NEW e \in Entity, NEW k \in PropertyKey,
         NEW v \in Value \cup {NoValue}, NEW ver \in TxVersion,
         addProperty(e, k, v, ver) \/ changeProperty(e, k, v, ver) \/ removeProperty(e, k, ver)
  PROVE  /\ addedProperties' \in [Entity -> [PropertyKey -> Value \cup {NoValue}]]
         /\ changedProperties' \in [Entity -> [PropertyKey -> Value \cup {NoValue}]]
         /\ removedProperties' \in [Entity -> SUBSET PropertyKey]
         /\ addedPropertiesWithVersions' \in [Entity -> [PropertyKey -> TxVersion \cup {NoValue}]]
<1>1. /\ addedProperties \in [Entity -> [PropertyKey -> Value \cup {NoValue}]]
      /\ changedProperties \in [Entity -> [PropertyKey -> Value \cup {NoValue}]]
      /\ removedProperties \in [Entity -> SUBSET PropertyKey]
      /\ addedPropertiesWithVersions \in [Entity -> [PropertyKey -> TxVersion \cup {NoValue}]]
  BY DEF TypeOK
<1>2. \/ addedProperties' = addedProperties
      \/ addedProperties' = [addedProperties EXCEPT ![e][k] = v]
      \/ addedProperties' = [addedProperties EXCEPT ![e][k] = NoValue]
  BY DEF addProperty, changeProperty, removeProperty
<1>3. \/ changedProperties' = changedProperties
      \/ changedProperties' = [changedProperties EXCEPT ![e][k] = v]
      \/ changedProperties' = [changedProperties EXCEPT ![e][k] = NoValue]
  BY DEF addProperty, changeProperty, removeProperty
<1>4. \/ removedProperties' = removedProperties
      \/ removedProperties' = [removedProperties EXCEPT ![e] = @ \cup {k}]
      \/ removedProperties' = [removedProperties EXCEPT ![e] = @ \ {k}]
  BY DEF addProperty, changeProperty, removeProperty
<1>5. \/ addedPropertiesWithVersions' = addedPropertiesWithVersions
      \/ addedPropertiesWithVersions' = [addedPropertiesWithVersions EXCEPT ![e][k] = ver]
  BY DEF addProperty, changeProperty, removeProperty, SetVersion
<1> DEFINE Map(S) == [Entity -> [PropertyKey -> S]]
<1>6. addedProperties' \in Map(Value \cup {NoValue})
  <2>1. [addedProperties EXCEPT ![e][k] = v] \in Map(Value \cup {NoValue})
    BY <1>1, NestedTyped
  <2>2. [addedProperties EXCEPT ![e][k] = NoValue] \in Map(Value \cup {NoValue})
    BY <1>1, NestedTyped
  <2> QED
    BY <1>1, <1>2, <2>1, <2>2
<1>7. changedProperties' \in Map(Value \cup {NoValue})
  <2>1. [changedProperties EXCEPT ![e][k] = v] \in Map(Value \cup {NoValue})
    BY <1>1, NestedTyped
  <2>2. [changedProperties EXCEPT ![e][k] = NoValue] \in Map(Value \cup {NoValue})
    BY <1>1, NestedTyped
  <2> QED
    BY <1>1, <1>3, <2>1, <2>2
<1>8. removedProperties' \in [Entity -> SUBSET PropertyKey]
  <2>1. [removedProperties EXCEPT ![e] = @ \cup {k}] \in [Entity -> SUBSET PropertyKey]
    BY <1>1
  <2>2. [removedProperties EXCEPT ![e] = @ \ {k}] \in [Entity -> SUBSET PropertyKey]
    BY <1>1
  <2> QED
    BY <1>1, <1>4, <2>1, <2>2
<1>9. addedPropertiesWithVersions' \in Map(TxVersion \cup {NoValue})
  <2>1. [addedPropertiesWithVersions EXCEPT ![e][k] = ver] \in Map(TxVersion \cup {NoValue})
    BY <1>1, NestedTyped
  <2> QED
    BY <1>1, <1>5, <2>1
<1> QED
  BY <1>6, <1>7, <1>8, <1>9

\* An operation keeps the invariant if it does for the property it is about.
LEMMA OperationStep ==
  ASSUME IInv, TypeOK', UNCHANGED hist,
         NEW e \in Entity, NEW k \in PropertyKey,
         Elsewhere(e, k), Determined(e, k)'
  PROVE  IInv'
<1>1. ASSUME NEW f \in Entity, NEW j \in PropertyKey, f # e \/ j # k
      PROVE  Determined(f, j)'
  <2>1. /\ addedProperties'[f][j] = addedProperties[f][j]
        /\ changedProperties'[f][j] = changedProperties[f][j]
        /\ j \in removedProperties'[f] <=> j \in removedProperties[f]
        /\ addedPropertiesWithVersions'[f][j] = addedPropertiesWithVersions[f][j]
        /\ asked'[f][j] = asked[f][j] /\ hist'[f][j] = hist[f][j]
    BY <1>1 DEF Elsewhere
  <2>2. /\ LastAsked(f, j)' = LastAsked(f, j)
        /\ VersionOfLast(hist'[f][j], asked'[f][j]) = VersionOfLast(hist[f][j], asked[f][j])
    BY <2>1 DEF LastAsked
  <2>3. None(f, j) => None(f, j)'
    BY <2>1 DEF None
  <2>4. Removed(f, j) => Removed(f, j)'
    BY <2>1, <2>2 DEF Removed
  <2>5. Written(f, j) => Written(f, j)'
    BY <2>1, <2>2 DEF Written
  <2> QED
    BY <2>1, <2>2, <2>3, <2>4, <2>5 DEF IInv, Determined
<1> QED
  BY <1>1 DEF IInv

\* What an operation appends to those asked for.
LEMMA Asked ==
  ASSUME TypeOK, NEW e \in Entity, NEW k \in PropertyKey,
         NEW v \in Value \cup {NoValue}, NEW ver \in TxVersion, Ask(e, k, v, ver)
  PROVE  /\ asked' \in [Entity -> [PropertyKey -> Seq(Operation)]]
         /\ asked'[e][k] # <<>>
         /\ LastAsked(e, k)'.value = v
         /\ LastAsked(e, k)'.version = ver
         /\ \A h : VersionOfLast(h, asked'[e][k]) =
              IF asked[e][k] # <<>> /\ h # <<>> /\ LastAsked(e, k).value = NoValue
              THEN LastAsked(e, k).version ELSE ver
<1> DEFINE op == [value |-> v, version |-> ver]
<1>1. op \in Operation /\ asked[e][k] \in Seq(Operation)
  BY DEF Operation, TypeOK
<1>2. asked' = [asked EXCEPT ![e][k] = Append(@, op)]
  BY DEF Ask
<1>3. asked'[e][k] = Append(asked[e][k], op)
  BY <1>2 DEF TypeOK
<1>4. asked' \in [Entity -> [PropertyKey -> Seq(Operation)]]
  BY <1>1, <1>2, Appended DEF TypeOK
<1> HIDE DEF op
<1>5. /\ asked'[e][k] # <<>>
      /\ LastAsked(e, k)' = op
  BY <1>1, <1>3, Appended DEF LastAsked
<1>6. \A h : VersionOfLast(h, asked'[e][k]) =
              IF asked[e][k] # <<>> /\ h # <<>> /\ LastAsked(e, k).value = NoValue
              THEN LastAsked(e, k).version ELSE op.version
  <2>1. CASE asked[e][k] = <<>>
    BY <1>1, <1>3, <2>1, Appended DEF VersionOfLast
  <2>2. CASE asked[e][k] # <<>>
    <3> DEFINE ops == asked'[e][k]
               n == Len(ops)
    <3>1. /\ n > 1
          /\ ops[n] = op
          /\ ops[n - 1] = LastAsked(e, k)
      BY <1>1, <1>3, <2>2, Appended DEF LastAsked
    <3> QED
      BY <2>2, <3>1 DEF VersionOfLast
  <2> QED
    BY <2>1, <2>2
<1> QED
  BY <1>4, <1>5, <1>6 DEF op

\* A set keeps the invariant, as an addition if nothing is read and as a change
\* otherwise: the value is added if the store has none, and changed if it does.
LEMMA SetStep ==
  ASSUME IInv, NEW e \in Entity, NEW k \in PropertyKey, NEW v \in Value, NEW ver \in TxVersion,
         Ask(e, k, v, ver), UNCHANGED hist,
         IF Read(e, k) = NoValue THEN addProperty(e, k, v, ver) ELSE changeProperty(e, k, v, ver)
  PROVE  IInv'
<1>0. /\ TypeOK /\ Determined(e, k)
      /\ v # NoValue
  BY NoValueAssumption DEF IInv
<1>1. /\ asked' \in [Entity -> [PropertyKey -> Seq(Operation)]]
      /\ asked'[e][k] # <<>>
      /\ LastAsked(e, k)'.value = v
      /\ VersionOfLast(hist[e][k], asked'[e][k]) =
              IF asked[e][k] # <<>> /\ hist[e][k] # <<>> /\ LastAsked(e, k).value = NoValue
              THEN LastAsked(e, k).version ELSE ver
  BY <1>0, Asked
<1>2. TypeOK'
  BY <1>0, <1>1, StateTyped DEF TypeOK
<1>3. Elsewhere(e, k)
  BY <1>0 DEF Elsewhere, TypeOK, addProperty, changeProperty, SetVersion, Ask
<1>4. /\ IF hist[e][k] = <<>>
         THEN addedProperties'[e][k] = v /\ changedProperties'[e][k] = NoValue
         ELSE addedProperties'[e][k] = NoValue /\ changedProperties'[e][k] = v
      /\ k \notin removedProperties'[e]
      /\ addedPropertiesWithVersions'[e][k] =
              IF asked[e][k] # <<>> /\ hist[e][k] # <<>> /\ LastAsked(e, k).value = NoValue
              THEN LastAsked(e, k).version ELSE ver
  <2>1. CASE asked[e][k] = <<>>
    <3>1. None(e, k)
      BY <1>0, <2>1 DEF Determined
    <3>2. Read(e, k) = NoValue <=> hist[e][k] = <<>>
      <4>1. hist[e][k] # <<>> => Stored(e, k) # NoValue
        <5>1. hist[e][k] \in Seq(Entry)
          BY <1>0 DEF TypeOK
        <5>2. hist[e][k] # <<>> => hist[e][k][Len(hist[e][k])] \in Entry
          BY <5>1
        <5> QED
          BY <5>2, NoValueAssumption DEF Stored, Entry
      <4> QED
        BY <3>1, <4>1 DEF None, Read, Stored
    <3> QED
      BY <1>0, <2>1, <3>1, <3>2 DEF None, TypeOK, addProperty, changeProperty, SetVersion
  <2>2. CASE asked[e][k] # <<>> /\ LastAsked(e, k).value = NoValue
    <3>1. Removed(e, k) /\ Read(e, k) = NoValue
      BY <1>0, <2>2, ReadLast DEF Determined
    <3> QED
      BY <1>0, <2>2, <3>1 DEF Removed, TypeOK, addProperty, SetVersion
  <2>3. CASE asked[e][k] # <<>> /\ LastAsked(e, k).value # NoValue
    <3>1. Written(e, k) /\ Read(e, k) # NoValue
      BY <1>0, <2>3, ReadLast DEF Determined
    <3> QED
      BY <1>0, <2>3, <3>1 DEF Written, TypeOK, changeProperty, SetVersion
  <2> QED
    BY <2>1, <2>2, <2>3
<1>5. Determined(e, k)'
  BY <1>0, <1>1, <1>4 DEF Determined, Written
<1> QED
  BY <1>2, <1>3, <1>5, OperationStep

\* A removal keeps the invariant: it cancels an addition, and is remembered for
\* a property the store holds.
LEMMA RemoveStep ==
  ASSUME IInv, NEW e \in Entity, NEW k \in PropertyKey, NEW ver \in TxVersion,
         RemoveProperty(e, k, ver)
  PROVE  IInv'
<1>0. /\ TypeOK /\ Determined(e, k)
      /\ Read(e, k) # NoValue /\ Ask(e, k, NoValue, ver) /\ removeProperty(e, k, ver)
      /\ UNCHANGED hist
  BY DEF IInv, RemoveProperty
<1>1. /\ asked' \in [Entity -> [PropertyKey -> Seq(Operation)]]
      /\ asked'[e][k] # <<>>
      /\ LastAsked(e, k)'.value = NoValue
      /\ LastAsked(e, k)'.version = ver
  BY <1>0, Asked
<1>2. TypeOK'
  BY <1>0, <1>1, StateTyped DEF TypeOK
<1>3. Elsewhere(e, k)
  BY <1>0 DEF Elsewhere, TypeOK, removeProperty, SetVersion, Ask
<1>4. \/ None(e, k) /\ hist[e][k] # <<>>
      \/ Written(e, k) /\ LastAsked(e, k).value # NoValue
  <2>1. CASE asked[e][k] = <<>>
    BY <1>0, <2>1 DEF Determined, None, Read, Stored
  <2>2. CASE asked[e][k] # <<>>
    <3>1. LastAsked(e, k).value # NoValue
      BY <1>0, <2>2, ReadLast
    <3> QED
      BY <1>0, <2>2, <3>1 DEF Determined
  <2> QED
    BY <2>1, <2>2
<1>5. Removed(e, k)'
  <2>1. addedPropertiesWithVersions'[e][k] = ver
    BY <1>0 DEF TypeOK, removeProperty, SetVersion
  <2>2. CASE None(e, k) /\ hist[e][k] # <<>>
    BY <1>0, <1>1, <2>1, <2>2 DEF None, Removed, TypeOK, removeProperty
  <2>3. CASE Written(e, k) /\ LastAsked(e, k).value # NoValue
    BY <1>0, <1>1, <2>1, <2>3 DEF Written, Removed, TypeOK, removeProperty
  <2> QED
    BY <1>4, <2>2, <2>3
<1>6. Determined(e, k)'
  BY <1>1, <1>5 DEF Determined
<1> QED
  BY <1>0, <1>2, <1>3, <1>6, OperationStep

\* When the changes of an entity are forgotten, nothing determines its maps.
LEMMA ForgetStep ==
  ASSUME IInv, NEW e \in Entity, Forget(e),
         hist' \in [Entity -> [PropertyKey -> Seq(Entry)]],
         \A f \in Entity : f # e => hist'[f] = hist[f]
  PROVE  IInv'
<1>0. TypeOK
  BY DEF IInv
<1>1. TypeOK'
  <2>1. asked' \in [Entity -> [PropertyKey -> Seq(Operation)]]
    BY <1>0 DEF TypeOK, Forget, NotAsked
  <2>2. /\ addedProperties' \in [Entity -> [PropertyKey -> Value \cup {NoValue}]]
        /\ changedProperties' \in [Entity -> [PropertyKey -> Value \cup {NoValue}]]
        /\ removedProperties' \in [Entity -> SUBSET PropertyKey]
        /\ addedPropertiesWithVersions' \in [Entity -> [PropertyKey -> TxVersion \cup {NoValue}]]
    BY <1>0 DEF TypeOK, Forget, Nothing
  <2> QED
    BY <2>1, <2>2 DEF TypeOK
<1>2. ASSUME NEW k \in PropertyKey PROVE Determined(e, k)'
  BY <1>0 DEF TypeOK, Forget, Nothing, NotAsked, Determined, None
<1>3. ASSUME NEW f \in Entity, NEW k \in PropertyKey, f # e PROVE Determined(f, k)'
  <2>1. /\ addedProperties'[f] = addedProperties[f]
        /\ changedProperties'[f] = changedProperties[f]
        /\ removedProperties'[f] = removedProperties[f]
        /\ addedPropertiesWithVersions'[f] = addedPropertiesWithVersions[f]
        /\ asked'[f] = asked[f]
        /\ hist'[f] = hist[f]
    BY <1>0, <1>3 DEF TypeOK, Forget
  <2> QED
    BY <2>1 DEF IInv, Determined, None, Removed, Written, LastAsked
<1> QED
  BY <1>1, <1>2, <1>3 DEF IInv

\* A commit writes histories.
LEMMA CommitStep ==
  ASSUME IInv, NEW e \in Entity, Commit(e)
  PROVE  IInv'
<1>1. ASSUME NEW k \in PropertyKey PROVE Visited(e, k) \in Seq(Entry)
  <2> DEFINE ops == asked[e][k]
  <2>1. /\ Visited(e, k) = Effect(hist[e][k], ops)
        /\ hist[e][k] \in Seq(Entry) /\ ops \in Seq(Operation)
    BY VisitedEffect DEF IInv, TypeOK
  <2>2. CASE ops = <<>>
    BY <2>1, <2>2 DEF Effect
  <2>3. CASE ops # <<>>
    <3> DEFINE last == ops[Len(ops)]
    <3>1. last \in Operation /\ VersionOfLast(hist[e][k], ops) \in TxVersion
      <4>1. Len(ops) \in 1 .. Len(ops) /\ last \in Operation
        BY <2>1, <2>3
      <4>2. Len(ops) > 1 => ops[Len(ops) - 1] \in Operation
        BY <2>1
      <4> QED
        BY <4>1, <4>2 DEF VersionOfLast, Operation
    <3>2. /\ last.value \in Value \cup {NoValue} /\ last.version \in Stamp
          /\ VersionOfLast(hist[e][k], ops) \in Stamp
      BY <3>1, TxVersionAssumption DEF Operation
    <3>3. getStartVersion(last.version) \in HalfVersion
      BY <3>2, HalvesOfStamp
    <3>4. CASE last.value = NoValue
      BY <2>1, <2>3, <3>3, <3>4, EndedHistory DEF Effect
    <3>5. CASE last.value # NoValue
      <4>1. Effect(hist[e][k], ops) =
              Superseded(hist[e][k], last.value, VersionOfLast(hist[e][k], ops))
        BY <2>3, <3>5 DEF Effect
      <4> QED
        BY <2>1, <3>2, <3>5, <4>1, SupersededHistory
    <3> QED
      BY <3>4, <3>5
  <2> QED
    BY <2>2, <2>3
<1>2. hist' = [hist EXCEPT ![e] = [k \in PropertyKey |-> Visited(e, k)]] /\ Forget(e)
  BY DEF Commit
<1>3. hist \in [Entity -> [PropertyKey -> Seq(Entry)]]
  BY DEF IInv, TypeOK
<1>4. [k \in PropertyKey |-> Visited(e, k)] \in [PropertyKey -> Seq(Entry)]
  BY <1>1
<1>5. /\ hist' \in [Entity -> [PropertyKey -> Seq(Entry)]]
      /\ \A f \in Entity : f # e => hist'[f] = hist[f]
  BY <1>2, <1>3, <1>4
<1> QED
  BY <1>2, <1>5, ForgetStep

\* Every step keeps the invariant.
LEMMA NextIInv == IInv /\ [Next]_vars => IInv'
<1> SUFFICES ASSUME IInv, [Next]_vars PROVE IInv'
  OBVIOUS
<1>1. ASSUME NEW e \in Node, NEW k \in PropertyKey, NEW v \in Value, NEW ver \in TxVersion,
             NodeSetProperty(e, k, v, ver)
      PROVE  IInv'
  BY <1>1, SetStep DEF NodeSetProperty, Entity
<1>2. ASSUME NEW e \in Rel, NEW k \in PropertyKey, NEW v \in Value, NEW ver \in TxVersion,
             RelationshipSetProperty(e, k, v, ver)
      PROVE  IInv'
  BY <1>2, SetStep DEF RelationshipSetProperty, Entity
<1>3. ASSUME NEW e \in Entity, NEW k \in PropertyKey, NEW ver \in TxVersion,
             RemoveProperty(e, k, ver)
      PROVE  IInv'
  BY <1>3, RemoveStep
<1>4. ASSUME NEW e \in Entity, Commit(e) PROVE IInv'
  BY <1>4, CommitStep
<1>5. ASSUME NEW e \in Entity, Rollback(e) PROVE IInv'
  <2>1. hist' = hist /\ Forget(e) /\ hist \in [Entity -> [PropertyKey -> Seq(Entry)]]
    BY <1>5 DEF Rollback, IInv, TypeOK
  <2> QED
    BY <2>1, ForgetStep
<1>6. CASE UNCHANGED vars
  <2>1. TypeOK'
    BY <1>6 DEF vars, pending, IInv, TypeOK
  <2>2. \A e \in Entity, k \in PropertyKey : Determined(e, k)'
    BY <1>6 DEF vars, pending, IInv, Determined, None, Removed, Written, LastAsked
  <2> QED
    BY <2>1, <2>2 DEF IInv
<1> QED
  BY <1>1, <1>2, <1>3, <1>4, <1>5, <1>6 DEF Next

\* The invariant holds in every state the program reaches.
LEMMA Invariance == Spec => []IInv
BY InitIInv, NextIInv, PTL DEF Spec

-----------------------------------------------------------------------------
(* What is proved. *)

\* The maps and histories keep their types.
THEOREM TypeCorrect == Spec => []TypeOK
BY Invariance, PTL DEF IInv

(* A transaction reads what it wrote last, however its operations moved the *)
(* property between the maps of PropertyContainerStateImpl.                *)
THEOREM ReadsOwnWrites == Spec => []ReadYourWrites
<1>1. IInv => ReadYourWrites
  BY ReadLast DEF ReadYourWrites
<1> QED
  BY <1>1, Invariance, PTL

(* What is buffered can be committed: each change has a version, and fits   *)
(* what the store holds.                                                   *)
THEOREM AlwaysCommittable == Spec => []Committable
<1>1. IInv => Committable
  <2> SUFFICES ASSUME IInv, NEW e \in Entity, NEW k \in PropertyKey
               PROVE  LET added == addedProperties[e][k] # NoValue
                          changed == changedProperties[e][k] # NoValue
                          removed == k \in removedProperties[e]
                      IN
                        /\ added \/ changed \/ removed => addedPropertiesWithVersions[e][k] # NoValue
                        /\ added => hist[e][k] = <<>>
                        /\ changed \/ removed => hist[e][k] # <<>>
                        /\ ~(changed /\ removed)
    BY DEF Committable
  <2>1. Determined(e, k) /\ asked[e][k] \in Seq(Operation)
    BY DEF IInv, TypeOK
  <2>2. CASE asked[e][k] = <<>>
    BY <2>1, <2>2 DEF Determined, None
  <2>3. CASE asked[e][k] # <<>>
    <3>1. /\ LastAsked(e, k) \in Operation
          /\ VersionOfLast(hist[e][k], asked[e][k]) \in TxVersion
      <4>1. asked[e][k][Len(asked[e][k])] \in Operation
        BY <2>1, <2>3
      <4>2. Len(asked[e][k]) > 1 => asked[e][k][Len(asked[e][k]) - 1] \in Operation
        BY <2>1
      <4> QED
        BY <4>1, <4>2 DEF VersionOfLast, Operation, LastAsked
    <3>2. LastAsked(e, k).version # NoValue /\ VersionOfLast(hist[e][k], asked[e][k]) # NoValue
      BY <3>1, NoValueAssumption, TxVersionAssumption DEF Operation
    <3> QED
      BY <2>1, <2>3, <3>2 DEF Determined, Removed, Written
  <2> QED
    BY <2>2, <2>3
<1> QED
  BY <1>1, Invariance, PTL

\* Only a commit changes a history, into the effect of its operations.
LEMMA CommittedEffect ==
  ASSUME IInv, [Next]_vars, NEW e \in Entity, Commit(e) \/ hist'[e] # hist[e],
         NEW k \in PropertyKey
  PROVE  hist'[e][k] = Effect(hist[e][k], asked[e][k])
<1>1. Commit(e)
  <2>1. ASSUME NEW f \in Entity, Commit(f), f # e PROVE hist'[e] = hist[e]
    BY <2>1 DEF Commit, IInv, TypeOK
  <2> QED
    BY <2>1 DEF Next, NodeSetProperty, RelationshipSetProperty, RemoveProperty, Rollback, vars
<1>2. hist' = [hist EXCEPT ![e] = [j \in PropertyKey |-> Visited(e, j)]]
  BY <1>1 DEF Commit
<1>3. hist'[e][k] = Visited(e, k)
  BY <1>2 DEF IInv, TypeOK
<1> QED
  BY <1>3, VisitedEffect

(* A commit makes of each history exactly what the operations asked for,   *)
(* and no other step changes a history.                                    *)
THEOREM CommitExact == Spec => CommitEffect
<1>1. IInv /\ [Next]_vars =>
        [\A e \in Entity : Commit(e) \/ hist'[e] # hist[e] =>
           \A k \in PropertyKey : hist'[e][k] = Effect(hist[e][k], asked[e][k])]_vars
  BY CommittedEffect
<1> QED
  BY <1>1, Invariance, PTL DEF Spec, CommitEffect

-----------------------------------------------------------------------------
(* The history of one property by itself. *)

\* What the operations of a transaction make of a history, one step does.
LEMMA OneStep ==
  ASSUME TypeOK, NEW e \in Entity, NEW k \in PropertyKey
  PROVE  LET h == hist[e][k] IN
           \/ Effect(h, asked[e][k]) = h
           \/ \E v \in Value, ver \in TxVersion : Effect(h, asked[e][k]) = Superseded(h, v, ver)
           \/ h # <<>> /\ \E ver \in TxVersion :
                Effect(h, asked[e][k]) = History!Ended(h, getStartVersion(ver))
<1> DEFINE h == hist[e][k]
           ops == asked[e][k]
           last == ops[Len(ops)]
<1>1. ops \in Seq(Operation)
  BY DEF TypeOK
<1>2. CASE ops = <<>>
  BY <1>2 DEF Effect
<1>3. CASE ops # <<>>
  <2>1. last \in Operation /\ VersionOfLast(h, ops) \in TxVersion
    <3>1. Len(ops) \in 1 .. Len(ops) /\ last \in Operation
      BY <1>1, <1>3
    <3>2. Len(ops) > 1 => ops[Len(ops) - 1] \in Operation
      BY <1>1
    <3> QED
      BY <3>1, <3>2 DEF VersionOfLast, Operation
  <2>2. last.value \in Value \cup {NoValue} /\ last.version \in TxVersion
    BY <2>1 DEF Operation
  <2>3. CASE last.value # NoValue
    BY <1>3, <2>1, <2>2, <2>3 DEF Effect
  <2>4. CASE last.value = NoValue
    <3>1. Effect(h, ops) = History!Ended(h, getStartVersion(last.version))
      BY <1>3, <2>4 DEF Effect
    <3>2. h = <<>> => Effect(h, ops) = h
      BY <3>1 DEF History!Ended
    <3> QED
      BY <2>2, <3>1, <3>2
  <2> QED
    BY <2>3, <2>4
<1> QED
  BY <1>2, <1>3

\* A write of one property, or a removal, is a step of its history alone.
LEMMA WriteShown ==
  ASSUME TypeOK, NEW e \in Entity, NEW k \in PropertyKey, NEW v \in Value, NEW ver \in TxVersion,
         hist'[e][k] = Superseded(hist[e][k], v, ver)
  PROVE  Property(e, k)!Next
<1>1. Property(e, k)!SetProperty(e, k, v, ver)
  BY DEF Property!SetProperty, Property!Ended, Property!Entry, Superseded, Of,
    History!Ended, History!Entry, getStartVersion, getEndVersion, History!getStartVersion,
    History!getEndVersion, Property!getStartVersion, Property!getEndVersion
<1> QED
  BY <1>1 DEF Property!Next

LEMMA RemovalShown ==
  ASSUME TypeOK, NEW e \in Entity, NEW k \in PropertyKey, NEW ver \in TxVersion,
         hist[e][k] # <<>>,
         hist'[e][k] = History!Ended(hist[e][k], getStartVersion(ver))
  PROVE  Property(e, k)!Next
<1>1. Property(e, k)!RemoveProperty(e, k, ver)
  BY DEF Property!RemoveProperty, Property!Ended, Of, History!Ended, getStartVersion,
    Property!getStartVersion
<1> QED
  BY <1>1 DEF Property!Next

(* Whatever a transaction does to a property, its history takes one step   *)
(* at most, a write or a removal, and this when the transaction commits.   *)
THEOREM HistoriesImplemented == Spec => ImplementsHistories
<1>1. Init => \A e \in Entity, k \in PropertyKey : Property(e, k)!Init
  BY DEF Init, Property!Init, Of
<1>2. ASSUME IInv, [Next]_vars, NEW e \in Entity, NEW k \in PropertyKey
      PROVE  [Property(e, k)!Next]_(Of(e, k))
  <2>1. CASE hist'[e][k] = hist[e][k]
    BY <2>1 DEF Of
  <2>2. CASE hist'[e][k] # hist[e][k]
    <3>1. hist'[e][k] = Effect(hist[e][k], asked[e][k])
      BY <1>2, <2>2, CommittedEffect
    <3>2. TypeOK
      BY <1>2 DEF IInv
    <3> QED
      BY <2>2, <3>1, <3>2, OneStep, WriteShown, RemovalShown
  <2> QED
    BY <2>1, <2>2
<1>3. IInv /\ [Next]_vars =>
        [\A e \in Entity, k \in PropertyKey : [Property(e, k)!Next]_(Of(e, k))]_hist
  BY <1>2
<1> QED
  BY <1>1, <1>3, Invariance, PTL DEF Spec, ImplementsHistories

===============================================================================
