---------------------------- MODULE EntityVersions ----------------------------
(***************************************************************************)
(* The stamps of nodes and relationships.  Transactions of several threads *)
(* create and delete entities through Operations, under the locks it       *)
(* takes, and buffer what they do in their TxState; a commit writes the    *)
(* records one by one; a scan of GraphDatabaseFacade reads them one by one *)
(* meanwhile.  A versioned deletion ends the interval of a record, which   *)
(* stays in use; only DETACH DELETE takes records out of use.              *)
(*                                                                         *)
(* Every operation names its own stamp: Operations is given one by a query *)
(* with a version clause, and reads that of the kernel transaction, which  *)
(* nested transactions change, otherwise.                                  *)
(***************************************************************************)
EXTENDS VersionScans

CONSTANTS
  Thread,
  Node, Rel,
  Ends,           \* the nodes each relationship connects
  NotInUse,       \* a record that is not in use
  Nothing,        \* no stamp, no relationship
  TxVersion,      \* the stamps an operation can be given
  TxId,           \* lastTransactionIdWhenStarted: what an unversioned creation stamps
  ScanVersion     \* bound: the versions that are scanned

Entity == Node \cup Rel

ASSUME DistinctEntities == Node \cap Rel = {}
ASSUME EndsAssumption == Ends \in [Rel -> SUBSET Node]
ASSUME StampsAssumption == TxVersion \cup TxId \subseteq Stamp
ASSUME ValuesAssumption == {NotInUse, Nothing} \cap (Stamp \cup Rel) = {}
ASSUME ScanAssumption == ScanVersion \subseteq HalfVersion

VARIABLES
  record,         \* the stamp of each record in use
  tx,             \* the open transaction of each thread
  scan            \* a scan of one version, read by a transaction without changes

vars == <<record, tx, scan>>

Transaction ==
  [applying : BOOLEAN,
   reserved : SUBSET Entity,                            \* ids taken from the stores
   created : SUBSET Entity, removed : SUBSET Entity,    \* TxState
   stamp : [Entity -> Stamp \cup {Nothing}],            \* NodeStateImpl.nodeVersion and alike
   locks : SUBSET Entity,                               \* exclusive locks held
   deleting : Rel \cup {Nothing},                       \* relationshipDelete waits for locks
   cursor : Stamp \cup {NotInUse, Nothing},             \* with this stamp in its cursor
   raced : SUBSET Rel]                                  \* history: deleted by a stale stamp

Scan ==
  [version : HalfVersion, todo : SUBSET Entity, seen : SUBSET Entity,
   snapshot : SUBSET Entity, disturbed : BOOLEAN]       \* history

TypeOK ==
  /\ record \in [Entity -> Stamp \cup {NotInUse}]
  /\ tx \in [Thread -> Transaction]
  /\ scan \in Scan

NewTransaction ==
  [applying |-> FALSE, reserved |-> {}, created |-> {}, removed |-> {},
   stamp |-> [e \in Entity |-> Nothing], locks |-> {},
   deleting |-> Nothing, cursor |-> Nothing, raced |-> {}]

InUse(e) == record[e] # NotInUse

Snapshot(version) == {e \in Entity : InUse(e) /\ InSingleVersion(record[e], version)}

Init ==
  /\ record = [e \in Entity |-> NotInUse]
  /\ tx = [t \in Thread |-> NewTransaction]
  /\ scan = [version |-> 0, todo |-> {}, seen |-> {}, snapshot |-> {}, disturbed |-> FALSE]

-----------------------------------------------------------------------------
(* Operations *)

\* The thread is neither committing nor waiting for the locks of a deletion.
CanOperate(t) == ~tx[t].applying /\ tx[t].deleting = Nothing

\* acquireExclusive returns when no other transaction holds one of them.
Lockable(t, es) == \A u \in Thread \ {t} : tx[u].locks \cap es = {}

\* What the transaction itself sees of an entity, in its state and the store.
Exists(t, e) == (InUse(e) \/ e \in tx[t].created) /\ e \notin tx[t].removed

\* reserveNode(), reserveRelationship(): the id of an entity that was created
\* and deleted by a transaction does not go back to the store.
Reservable(e) == ~InUse(e) /\ \A t \in Thread : e \notin tx[t].reserved \cup tx[t].removed

\* nodeCreate and nodeCreateWithVersion; nodeCreateWithLabels leaves the
\* stamp to the record state, nodeCreateWithLabelsWithVersion does not.
NodeCreate(t, n, ver) ==
  /\ CanOperate(t) /\ Reservable(n)
  /\ tx' = [tx EXCEPT ![t].reserved = @ \cup {n}, ![t].created = @ \cup {n},
                      ![t].stamp[n] = ver]
  /\ UNCHANGED <<record, scan>>

\* What lockRelationshipNodes and acquireExclusiveRelationshipLock lock: not
\* what the transaction itself created.
Wanted(t, es) == es \ tx[t].created

\* lockRelationshipNodes, assertNodeExists: a node that was ended exists.
RelationshipCreate(t, r, ver) ==
  /\ CanOperate(t) /\ Reservable(r)
  /\ Lockable(t, Wanted(t, Ends[r]))
  /\ \A n \in Ends[r] : Exists(t, n)
  /\ tx' = [tx EXCEPT ![t].reserved = @ \cup {r}, ![t].created = @ \cup {r},
                      ![t].stamp[r] = ver, ![t].locks = @ \cup Wanted(t, Ends[r])]
  /\ UNCHANGED <<record, scan>>

\* Mutant of Forget: the pending stamp is overwritten as a record would be.
ForgetAsRecord(s, es) ==
  [s EXCEPT !.created = @ \ es,
            !.stamp = [e \in Entity |-> IF e \in es THEN NotInUse ELSE @[e]]]

\* An entity created by the same transaction leaves no trace.
Forget(s, es) ==
  [s EXCEPT !.created = @ \ es,
            !.stamp = [e \in Entity |-> IF e \in es THEN Nothing ELSE @[e]]]

\* Mutant of Ended: an entity that has ended is ended again.
EndedAgain(old, ver, pending) == setEndVersion(getStartVersion(ver), old)

\* The stamp of a versioned deletion; an ended entity stays as it is.
Ended(old, ver, pending) ==
  IF hasEndVersion(old) THEN pending ELSE setEndVersion(getStartVersion(ver), old)

\* Mutant of NodeDelete: without acquireExclusiveNodeLock.
NodeDeleteUnlocked(t, n, ver) ==
  /\ CanOperate(t) /\ Exists(t, n)
  /\ \/ /\ n \in tx[t].created
        /\ tx' = [tx EXCEPT ![t] = Forget(@, {n})]
     \/ /\ n \notin tx[t].created
        /\ tx' = [tx EXCEPT ![t].stamp[n] = Ended(record[n], ver, @)]
  /\ UNCHANGED <<record, scan>>

\* nodeDelete takes the lock first and reads the store after.
NodeDelete(t, n, ver) ==
  /\ CanOperate(t) /\ Exists(t, n)
  /\ \/ /\ n \in tx[t].created
        /\ tx' = [tx EXCEPT ![t] = Forget(@, {n})]
     \/ /\ n \notin tx[t].created
        /\ Lockable(t, {n})
        /\ tx' = [tx EXCEPT ![t].locks = @ \cup {n},
                            ![t].stamp[n] = Ended(record[n], ver, @)]
  /\ UNCHANGED <<record, scan>>

\* relationshipDelete reads the store first, then asks for its locks.
RelationshipLoad(t, r) ==
  /\ CanOperate(t) /\ Exists(t, r)
  /\ tx' = [tx EXCEPT ![t].deleting = r, ![t].cursor = record[r]]
  /\ UNCHANGED <<record, scan>>

RelationshipDelete(t, ver) ==
  LET r == tx[t].deleting
      wanted == Wanted(t, Ends[r] \cup {r})
      done == [tx[t] EXCEPT !.locks = @ \cup wanted, !.deleting = Nothing, !.cursor = Nothing]
      stale == tx[t].cursor # record[r]
  IN
    /\ r # Nothing /\ Lockable(t, wanted)
    /\ tx' = [tx EXCEPT ![t] =
         IF ~Exists(t, r) THEN done
         ELSE IF r \in tx[t].created THEN Forget(done, {r})
         ELSE [done EXCEPT !.stamp[r] = Ended(tx[t].cursor, ver, @),
                           !.raced = IF stale THEN @ \cup {r} ELSE @]]
    /\ UNCHANGED <<record, scan>>

(* nodeDetachDelete locks the node, its relationships' nodes, and removes  *)
(* them all; it takes no lock of a relationship.                           *)
NodeDetachDelete(t, n) ==
  LET rels == {r \in Rel : n \in Ends[r] /\ Exists(t, r)}
      gone == {n} \cup rels
      wanted == Wanted(t, {n} \cup UNION {Ends[r] : r \in rels})
  IN
    /\ CanOperate(t) /\ Exists(t, n) /\ Lockable(t, wanted)
    /\ tx' = [tx EXCEPT ![t] =
         [Forget(tx[t], gone) EXCEPT !.removed = @ \cup (gone \ tx[t].created),
                                     !.locks = @ \cup wanted]]
    /\ UNCHANGED <<record, scan>>

-----------------------------------------------------------------------------
(* Commit and rollback *)

Stamped(t) == {e \in Entity : tx[t].stamp[e] # Nothing}
Touched(t) == tx[t].created \cup tx[t].removed \cup Stamped(t)

\* The records of both ends are loaded when that of a relationship is made.
Commit(t) ==
  /\ CanOperate(t) /\ Touched(t) # {}
  /\ \A r \in tx[t].created \cap Rel : \A n \in Ends[r] : Exists(t, n)
  /\ tx' = [tx EXCEPT ![t].applying = TRUE]
  /\ UNCHANGED <<record, scan>>

\* The stamp a command writes: of a creation without one, the id of the last
\* transaction that had committed when this one began.
Written(t, e) ==
  IF e \in tx[t].removed THEN {NotInUse}
  ELSE IF tx[t].stamp[e] # Nothing THEN {tx[t].stamp[e]} ELSE TxId

(* A change that a scan of this version may notice: one that is not        *)
(* versioned, one of an older version, or the race of two deletions.       *)
Disturbs(t, e, version) ==
  \/ e \in tx[t].removed \cup tx[t].raced
  \/ e \in tx[t].created /\ tx[t].stamp[e] = Nothing
  \/ e \in tx[t].created /\ getStartVersion(tx[t].stamp[e]) < version
  \/ e \notin tx[t].created /\ getEndVersion(tx[t].stamp[e]) < version

\* Mutant of Before: nodes and relationships in any order.
BeforeByMode(t, d, e) ==
  LET mode(x) == IF x \in tx[t].created THEN 0 ELSE IF x \in tx[t].removed THEN 2 ELSE 1
  IN  mode(d) < mode(e)

(* The order of extractCommands: creations, changes, deletions, and of     *)
(* each first the relationships.                                           *)
Before(t, d, e) ==
  LET mode(x) == IF x \in tx[t].created THEN 0 ELSE IF x \in tx[t].removed THEN 2 ELSE 1
  IN  mode(d) < mode(e) \/ (mode(d) = mode(e) /\ d \in Rel /\ e \in Node)

\* One command of the transaction is applied to the store.
Apply(t, e) ==
  /\ tx[t].applying /\ e \in Touched(t)
  /\ \A d \in Touched(t) : ~Before(t, d, e)
  /\ \E w \in Written(t, e) : record' = [record EXCEPT ![e] = w]
  /\ tx' = [tx EXCEPT ![t] =
              [Forget(tx[t], {e}) EXCEPT !.removed = @ \ {e}, !.raced = @ \ {e}]]
  /\ scan' = [scan EXCEPT !.disturbed = @ \/ Disturbs(t, e, scan.version)]

\* The locks go when all is applied.
Applied(t) ==
  /\ tx[t].applying /\ Touched(t) = {}
  /\ tx' = [tx EXCEPT ![t] = NewTransaction]
  /\ UNCHANGED <<record, scan>>

\* By the client, by a deadlock or a termination, which may interrupt a wait.
Rollback(t) ==
  /\ ~tx[t].applying /\ tx[t] # NewTransaction
  /\ tx' = [tx EXCEPT ![t] = NewTransaction]
  /\ UNCHANGED <<record, scan>>

-----------------------------------------------------------------------------
(* The single version scans, of nodes and of relationships *)

ScanStart(version, es) ==
  /\ scan' = [version |-> version, todo |-> es, seen |-> {},
              snapshot |-> Snapshot(version) \cap es, disturbed |-> FALSE]
  /\ UNCHANGED <<record, tx>>

ScanNext(e) ==
  /\ e \in scan.todo
  /\ scan' = [scan EXCEPT !.todo = @ \ {e},
                          !.seen = IF e \in Snapshot(scan.version) THEN @ \cup {e} ELSE @]
  /\ UNCHANGED <<record, tx>>

Next ==
  \/ \E t \in Thread :
       \/ \E n \in Node, ver \in TxVersion \cup {Nothing} : NodeCreate(t, n, ver)
       \/ \E r \in Rel, ver \in TxVersion : RelationshipCreate(t, r, ver)
       \/ \E n \in Node, ver \in TxVersion : NodeDelete(t, n, ver)
       \/ \E r \in Rel : RelationshipLoad(t, r)
       \/ \E ver \in TxVersion : RelationshipDelete(t, ver)
       \/ \E n \in Node : NodeDetachDelete(t, n)
       \/ Commit(t) \/ Applied(t) \/ Rollback(t)
       \/ \E e \in Entity : Apply(t, e)
  \/ \E version \in ScanVersion, es \in {Node, Rel} : ScanStart(version, es)
  \/ \E e \in Entity : ScanNext(e)

Spec == Init /\ [][Next]_vars

-----------------------------------------------------------------------------
(* No two open transactions hold changes of the same entity, so that no    *)
(* commit overwrites the changes of another it has not seen.               *)
WritesExclusive ==
  \A t, u \in Thread : t # u => Touched(t) \cap Touched(u) = {}

(* A relationship in use has its nodes: each is in use, or was created by  *)
(* the commit under way, whose command for it is still to come.  So it is  *)
(* whichever transaction removes a node while others make relationships of *)
(* it, and after every single command of their commits.                    *)
EndsInUse ==
  \A r \in Rel : InUse(r) => \A n \in Ends[r] :
    InUse(n) \/ \E u \in Thread : tx[u].applying /\ n \in tx[u].created

(* The past is kept: when the record of an entity changes but stays in     *)
(* use, its visibility in versions up to the one it now ends at stays what *)
(* it was, whatever the order of the versions.  The only exception is a    *)
(* relationship deleted by a stamp that was read before the locks and is   *)
(* stale.                                                                  *)
PastKept ==
  [][\A e \in Entity : record[e] # NotInUse /\ record'[e] # NotInUse =>
       \/ \E t \in Thread : e \in tx[t].raced
       \/ \A v \in 0 .. getEndVersion(record'[e]) :
            InSingleVersion(record[e], v) <=> InSingleVersion(record'[e], v)]_vars

(* The comment on DGVersion.endVersion says that an end version of 0 means *)
(* an entity that is alive: the scans of the current graph would show it.  *)
ZeroEndIsAlive ==
  \A e \in Entity : InUse(e) /\ getEndVersion(record[e]) = 0 => InCurrent(record[e])

(* A scan of one version returns what that version held when the scan      *)
(* began, even if it interleaves with the record by record application of  *)
(* commits of that version or later ones.                                  *)
ScanRepeatable ==
  scan.todo = {} /\ ~scan.disturbed => scan.seen = scan.snapshot

-----------------------------------------------------------------------------
(* What the scans of single versions show: the refinement mapping. *)

\* getAllNodesInSingleVersion and getAllRelationshipsInSingleVersion.
graph == [version \in HalfVersion |-> Snapshot(version)]

racing == UNION {tx[t].raced : t \in Thread}

VG == INSTANCE VersionedGraph WITH LastVersion <- Alive

(* The records implement the versioned graph: a command of a commit makes  *)
(* one entity appear that no version showed, or takes it out of the        *)
(* versions after the one it is deleted in, or erases it, and nothing else *)
(* changes in any version; only a deletion by a stale stamp escapes this.  *)
ImplementsGraph == VG!Spec

==============================================================================
