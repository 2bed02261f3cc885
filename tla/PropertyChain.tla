---------------------------- MODULE PropertyChain ----------------------------
(***************************************************************************)
(* The property records of nodes and relationships: the main chain that    *)
(* holds the latest record of every key, and the history chains that hang  *)
(* from it and hold the records those superseded.  The operations are the  *)
(* ones TransactionRecordState performs while a transaction's commands are *)
(* prepared: PropertyCreator.primitiveSetProperty (its two branches),      *)
(* the versioned PropertyDeleter.removeProperty, and deletePropertyChain,  *)
(* which runs when the node or relationship is physically deleted.         *)
(*                                                                         *)
(* Transactions on one primitive are serialised by its exclusive lock, but *)
(* their versions were allocated when they began, so the versions come in  *)
(* any order: every operation picks any of TxVersion.                      *)
(***************************************************************************)
EXTENDS DGVersion

CONSTANTS
  Primitive,      \* nodes and relationships (PrimitiveRecord)
  PropertyKey,    \* property key tokens
  Value,          \* property values
  PropertyId,     \* ids of the property store
  NoRecord,       \* Record.NO_NEXT_PROPERTY, NO_PREVIOUS_PROPERTY: -1
  TxVersion       \* the stamps a KernelTransaction can carry

ASSUME PropertyIdAssumption == NoRecord \notin PropertyId
ASSUME TxVersionAssumption  == TxVersion \subseteq Stamp

VARIABLES
  first,          \* PrimitiveRecord.nextProp: the head of each main chain
  inUse,          \* the fields of PropertyRecord, each a function of its id
  entity, key, value, version,
  nextProp, prevProp, nextHisProp, prevHisProp

links   == <<nextProp, prevProp>>
hisLinks == <<nextHisProp, prevHisProp>>
content == <<entity, key, value>>
vars    == <<first, inUse, content, version, links, hisLinks>>

Link == PropertyId \cup {NoRecord}

TypeOK ==
  /\ first \in [Primitive -> Link]
  /\ inUse \in [PropertyId -> BOOLEAN]
  /\ entity \in [PropertyId -> Primitive \cup {NoRecord}]
  /\ key \in [PropertyId -> PropertyKey \cup {NoRecord}]
  /\ value \in [PropertyId -> Value \cup {NoRecord}]
  /\ version \in [PropertyId -> Stamp]
  /\ nextProp \in [PropertyId -> Link]
  /\ prevProp \in [PropertyId -> Link]
  /\ nextHisProp \in [PropertyId -> Link]
  /\ prevHisProp \in [PropertyId -> Link]

Init ==
  /\ first = [p \in Primitive |-> NoRecord]
  /\ inUse = [r \in PropertyId |-> FALSE]
  /\ entity = [r \in PropertyId |-> NoRecord]
  /\ key = [r \in PropertyId |-> NoRecord]
  /\ value = [r \in PropertyId |-> NoRecord]
  /\ version = [r \in PropertyId |-> 0]
  /\ nextProp = [r \in PropertyId |-> NoRecord]
  /\ prevProp = [r \in PropertyId |-> NoRecord]
  /\ nextHisProp = [r \in PropertyId |-> NoRecord]
  /\ prevHisProp = [r \in PropertyId |-> NoRecord]

-----------------------------------------------------------------------------
(* Walking a chain.  A set is closed for p when it holds the head of p and *)
(* the successor of every record it holds; the records a walk visits are   *)
(* the ones that lie in every closed set.                                  *)

Closed(p, S) ==
  /\ first[p] # NoRecord => first[p] \in S
  /\ \A r \in S : nextProp[r] # NoRecord => nextProp[r] \in S

MainChain(p) == {r \in PropertyId : \A S \in SUBSET PropertyId : Closed(p, S) => r \in S}

\* Mutants of Hosts: only the head is looked at, or history records as well.
HeadHosts(p, k) == {r \in PropertyId : r = first[p] /\ inUse[r] /\ key[r] = k}
AllHosts(p, k) == {r \in PropertyId : entity[r] = p /\ inUse[r] /\ key[r] = k}

\* Where the walk finds a block of key k; a record not in use is stepped over.
Hosts(p, k) == {r \in MainChain(p) : inUse[r] /\ key[r] = k}

\* Mutant of FreeIds: the ids of history records count as free.
IdsNotInMainChains == {r \in PropertyId : ~inUse[r] \/ prevHisProp[r] # NoRecord}

\* PropertyStore.nextId() hands out an id never used or one that was freed.
FreeIds == {r \in PropertyId : ~inUse[r]}

\* propertyRecords.create(nextId(), primitive), and the block put in it.
NewBlock(n, p, k, v) ==
  /\ inUse'  = [inUse  EXCEPT ![n] = TRUE]
  /\ entity' = [entity EXCEPT ![n] = p]
  /\ key'    = [key    EXCEPT ![n] = k]
  /\ value'  = [value  EXCEPT ![n] = v]

-----------------------------------------------------------------------------
\* Mutant of TakePlace: the next record keeps its link to the existing one.
TakePlaceOneWay(p, host, n) ==
  /\ first' = IF prevProp[host] = NoRecord THEN [first EXCEPT ![p] = n] ELSE first
  /\ nextProp' = [r \in PropertyId |-> IF r = n THEN nextProp[host]
                                      ELSE IF r = prevProp[host] THEN n ELSE nextProp[r]]
  /\ prevProp' = [prevProp EXCEPT ![n] = prevProp[host]]

(* primitiveSetProperty when the walk meets the key: the new record takes  *)
(* the place of the existing one, which keeps its own, stale links.        *)
TakePlace(p, host, n) ==
  /\ first' = IF prevProp[host] = NoRecord THEN [first EXCEPT ![p] = n] ELSE first
  /\ nextProp' = [r \in PropertyId |-> IF r = n THEN nextProp[host]
                                      ELSE IF r = prevProp[host] THEN n ELSE nextProp[r]]
  /\ prevProp' = [r \in PropertyId |-> IF r = n THEN prevProp[host]
                                      ELSE IF r = nextProp[host] THEN n ELSE prevProp[r]]

\* The existing record becomes the head of the history of the new one.
BecomeHistory(host, n) ==
  /\ nextHisProp' = [nextHisProp EXCEPT ![n] = host]
  /\ prevHisProp' = [prevHisProp EXCEPT ![n] = NoRecord, ![host] = n]

\* Mutant of Ending: the end of the writer's own interval is taken.
EndingAtEnd(ver, stamp) == setEndVersion(getEndVersion(ver), stamp)

\* The stamp of a record whose interval an operation with stamp ver ends.
Ending(ver, stamp) == setEndVersion(getStartVersion(ver), stamp)

ChangeProperty(p, k, v, ver, host, n) ==
  /\ NewBlock(n, p, k, v)
  /\ version' = [version EXCEPT ![n] = ver, ![host] = Ending(ver, version[host])]
  /\ TakePlace(p, host, n)
  /\ BecomeHistory(host, n)

\* Mutant of NewHead: the records before it are left behind.
NewHeadAlone(p, n) ==
  /\ first' = [first EXCEPT ![p] = n]
  /\ nextProp' = [nextProp EXCEPT ![n] = NoRecord]
  /\ prevProp' = [prevProp EXCEPT ![n] = NoRecord]

\* primitiveSetProperty when the walk ends without the key: a new head.
NewHead(p, n) ==
  /\ first' = [first EXCEPT ![p] = n]
  /\ nextProp' = [nextProp EXCEPT ![n] = first[p]]
  /\ prevProp' = [r \in PropertyId |-> IF r = n THEN NoRecord
                                      ELSE IF r = first[p] THEN n ELSE prevProp[r]]

AddProperty(p, k, v, ver, n) ==
  /\ NewBlock(n, p, k, v)
  /\ version' = [version EXCEPT ![n] = ver]
  /\ NewHead(p, n)
  /\ nextHisProp' = [nextHisProp EXCEPT ![n] = NoRecord]
  /\ prevHisProp' = [prevHisProp EXCEPT ![n] = NoRecord]

\* The versioned removeProperty only ends the interval: the record stays in
\* use and linked.  Asked for a key the chain lacks it throws.
RemoveProperty(p, k, ver, host) ==
  /\ version' = [version EXCEPT ![host] = Ending(ver, version[host])]
  /\ UNCHANGED <<first, inUse, content, links, hisLinks>>

\* Mutant of Blanked: every field becomes -1.
BlankedWithNone(f, chain, blank) == [r \in PropertyId |-> IF r \in chain THEN NoRecord ELSE f[r]]
(* deletePropertyChain frees the records of the main chain, and only those. *)
(* A record not in use is blank here: the code leaves its fields behind,   *)
(* but reads them no more and creates the next record of that id afresh.   *)
Blanked(f, chain, blank) == [r \in PropertyId |-> IF r \in chain THEN blank ELSE f[r]]

DeletePropertyChain(p) ==
  LET chain == MainChain(p) IN
    /\ first' = [first EXCEPT ![p] = NoRecord]
    /\ inUse' = Blanked(inUse, chain, FALSE)
    /\ entity' = Blanked(entity, chain, NoRecord)
    /\ key' = Blanked(key, chain, NoRecord)
    /\ value' = Blanked(value, chain, NoRecord)
    /\ version' = Blanked(version, chain, 0)
    /\ nextProp' = Blanked(nextProp, chain, NoRecord)
    /\ prevProp' = Blanked(prevProp, chain, NoRecord)
    /\ nextHisProp' = Blanked(nextHisProp, chain, NoRecord)
    /\ prevHisProp' = Blanked(prevHisProp, chain, NoRecord)

Set(p, k, v, ver) ==
  \/ \E host \in Hosts(p, k), n \in FreeIds : ChangeProperty(p, k, v, ver, host, n)
  \/ Hosts(p, k) = {} /\ \E n \in FreeIds : AddProperty(p, k, v, ver, n)

Remove(p, k, ver) == \E host \in Hosts(p, k) : RemoveProperty(p, k, ver, host)

Next ==
  \/ \E p \in Primitive, k \in PropertyKey, v \in Value, ver \in TxVersion : Set(p, k, v, ver)
  \/ \E p \in Primitive, k \in PropertyKey, ver \in TxVersion : Remove(p, k, ver)
  \/ \E p \in Primitive : DeletePropertyChain(p)

Spec == Init /\ [][Next]_vars

-----------------------------------------------------------------------------
\* The latest record of each key p has: in use and superseded by no other.
Latest(p) == {r \in PropertyId : inUse[r] /\ prevHisProp[r] = NoRecord /\ entity[r] = p}

\* A record some later record of the same key replaced.
Superseded(r) == inUse[r] /\ prevHisProp[r] # NoRecord

(* The main chain is a doubly linked list, what the assertions of          *)
(* PropertyCreator call a property chain: its head has no predecessor, and *)
(* the links of two neighbours agree in both directions.                   *)
MainChainLinked ==
  \A p \in Primitive :
    /\ first[p] # NoRecord => prevProp[first[p]] = NoRecord
    /\ \A r \in MainChain(p) :
         /\ nextProp[r] # NoRecord => prevProp[nextProp[r]] = r
         /\ prevProp[r] # NoRecord => nextProp[prevProp[r]] = r

(* A walk from a primitive finds exactly the latest records of that        *)
(* primitive: replacing a record in the middle of the chain loses no other *)
(* property, and no primitive ever reaches records of another one or       *)
(* records already freed.                                                  *)
NoLostProperty == \A p \in Primitive : MainChain(p) = Latest(p)

\* A key is in at most one record of a main chain, so that a read does not
\* depend on the order of the chain.
OneHostPerKey ==
  \A p \in Primitive : \A r, s \in MainChain(p) : key[r] = key[s] => r = s

(* Consecutive records of a history belong to the same property, and the   *)
(* older one ends at the version where the newer one starts, whatever      *)
(* order the versions of the writers came in and whatever a removal        *)
(* between the two had written there.                                      *)
HistoryAdjoins ==
  \A r \in PropertyId : inUse[r] /\ nextHisProp[r] # NoRecord =>
    LET h == nextHisProp[r] IN
      /\ inUse[h] /\ entity[h] = entity[r] /\ key[h] = key[r]
      /\ prevHisProp[h] = r
      /\ getEndVersion(version[h]) = getStartVersion(version[r])

\* RecordPropertyCursor.nextHistory reaches the end: no history is a loop.
HistoryAcyclic ==
  \A S \in SUBSET {r \in PropertyId : inUse[r]} :
    S # {} => \E r \in S : nextHisProp[r] \notin S

(* History is append only: once a record is superseded no later operation, *)
(* on its primitive or on another, changes its value or its interval, or   *)
(* takes it out of use.                                                    *)
HistoryFrozen ==
  [][\A r \in PropertyId : Superseded(r) =>
       /\ Superseded(r)'
       /\ UNCHANGED <<entity[r], key[r], value[r], version[r], nextHisProp[r]>>]_vars

==============================================================================
