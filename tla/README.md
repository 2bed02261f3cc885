# DynamicGraphPlus: a TLA+ verification of the versioned graph

DynamicGraphPlus is a set of classes laid over Neo4j 3.5.6 that turn it into a
*versioned* graph database. Every transaction carries a version; nodes,
relationships, labels and property records carry a *stamp* that packs the first
and the last version they belong to; versioned deletions and updates end the
interval of a stamp and keep the old data; scans ask for what existed in one
version, in all of several, or what changed between two. What the repository
does not contain (lock manager, transaction pool, page cache, transaction log)
is Neo4j's library code; it is modelled from how the repository's code uses it
and marked external in `PROJECT.json`.

Paths below are abbreviated: `impl/` is `src/src/main/java/org/neo4j/kernel/impl/`,
`recordstorage/` is `impl/storageengine/impl/recordstorage/`, and `cn/` is
`src/src/main/java/cn/`.

## 1. Inventory

| Component | State it keeps | Operations | What makes it correct |
|---|---|---|---|
| A. Version stamps (`cn/DynamicGraph/Common/DGVersion.java`) | none: a `long` with two 16-bit halves | pack, unpack, set start, set end, `hasEndVersion` | Ending keeps the start; intervals fit together; 65535 means alive |
| B. Version store (`cn/.../DbVersionStore.java`, `impl/store/CommonAbstractStore.java`) | records of marked versions; high id and free ids of its id generator | `nextId` (a version for a new transaction), mark on close, rebuild of the generator on start | A marked version is never handed out again |
| C. Transaction life cycle (`GraphDatabaseFacade.beginTx…`, `TopLevelTransaction`, `PlaceboTransaction`, `KernelTransactionImplementation`) | per pooled object: version, success, failure, closing, closed, termination reason, reuse count; per thread: the bound transaction | begin in six forms, nest, success, failure, close, terminate, acquire from and release to the pool | One owner for each object; a close that returns has committed exactly on success; a handle's termination reaches the right transaction |
| D. Transaction state (`impl/api/state/TxState.java`, `…StateImpl.java`) | created, removed and changed entities, with their stamps | one `…DoCreate`, `…DoDelete`, `…DoSet…` for each operation, `accept(visitor)` | What is committed is what was asked for |
| E. Operations (`impl/newapi/Operations.java`) | none of its own; takes locks, holds pooled cursors | create, delete, detach-delete, labels, properties; set version, which nothing calls | Changes of two transactions never overwrite each other |
| F. Record state and commit (`recordstorage/TransactionRecordState.java`, `TransactionToRecordStateVisitor.java`) | the changed records of a transaction | visit the state, make commands, in order | Commands are complete and in an order that recovery and readers can take |
| G. Property chains (`recordstorage/PropertyCreator.java`, `PropertyDeleter.java`, `RecordPropertyCursor.java`) | records with `nextProp`, `prevProp`, `nextHisProp`, `prevHisProp`, version | set, remove, delete the chain, read, read the history | The chain holds the latest values, the histories the old ones, and nothing is lost, shared or cut |
| H. Labels (`impl/store/DynamicNodeLabels.java`, `InlineNodeLabels.java`, `NodeLabelsField.java`) | a map from labels to stamps in a dynamic record of the node; the map that the cursor of a transaction loaded last | add, remove, put, load; a commit loads and writes the whole map | No label is lost or taken away by another transaction; a change is under the lock of its node |
| I. Scans (`GraphDatabaseFacade.getAll…`, cursors) | a cursor position | four conditions on a stamp, for nodes and for relationships | A version shows the same entities whenever it is asked for |
| J. Record formats (`impl/store/format/standard`) | bytes | read, write, `isInUse` | What is written is what is read; rebuilds find what is in use |
| K. Stores (`impl/store/NeoStores.java` …) | files | open, close, value encoding | Neo4j's |
| L. Serialisation (`cn/DynamicGraph/Common/*Serializer.java`) | none | write and read values and maps by type codes | Reading gives what was written |
| M. Bolt server (`org/neo4j/bolt/v1`, `v3`) | for each session: the state of the protocol, the transaction and the open result, the interrupt counter, a pending notice of termination | run, pull, begin, commit, roll back, reset, end of the connection, interrupt, validate | Protocol and transaction stay in step; interrupts and terminations are carried out; what failed is not committed |
| N. Driver messaging (`org/neo4j/driver/internal`) | none | encode RUN with a version | Field order |
| O. Cypher front end and runtime (`src/src/main/scala`) | the query's version selection | select a version, scan, read, write | Reads and writes use the selected version |
| P. Object API, server bootstrap, RocksDB wrapper | configuration | delegation | out of scope |

How they interact. A client begins a transaction (C), which takes a version from
B and puts it, packed by A, in a pooled kernel transaction. Operations (E) take
locks, read records through cursors (I) and buffer changes in D, with the stamp
of the kernel transaction or of the query (O). `close()` turns D into record
changes (F, G, H) and applies them one by one, while scans (I) of other threads
read the records; then the pooled object is released and, after that, the
version is marked in B. Marks are in no transaction log. Over Bolt, the client is the
worker thread of a session (M), which begins and closes pooled transactions request
by request, while the thread that reads the socket interrupts it.

What is hard here:

* *interleavings*: the close of a transaction continues after its object is back
  in the pool; `relationshipDelete` reads a stamp before it waits for locks;
  scans read while commands are applied; terminations arrive from other threads; the
  reading thread of a session marks a transaction that its worker can close, and another
  session begin again, in between;
* *order*: versions are allocated at begin and written at commit, so they reach
  the store in any order;
* *crashes*: marks that were not flushed are lost, and the generator is rebuilt
  from what is left, with or without a scan for holes;
* *stale data*: links that superseded records keep; ids that are used again; the
  version a pooled object keeps from its last transaction; the labels a pooled cursor
  keeps from the last node;
* *whole maps*: a commit writes back every label of a node, those it has not changed too;
* *what must happen in the end*: a RESET, the end of a connection or a termination gives
  back the transaction, wherever the worker is in a request;
* *numeric edges*: 16-bit halves, the end 65535, the end 0, half-open intervals.

The full list, each at its line with the properties that cover it, is under
`hazards` in `PROJECT.json`. Those without a property say why.

## 2. Modules

| Module | Models | Code |
|---|---|---|
| `DGVersion` | A. The width of a half is the constant `Limit`; shifts and masks are `*`, `\div` and `%` by it | `DGVersion.java` |
| `PropertyChain` | G. One action per operation on records; the heads and the record fields are functions of ids | `PropertyCreator.primitiveSetProperty` in its two branches, the versioned `PropertyDeleter.removeProperty`, `deletePropertyChain` |
| `PropertyCursor` | What cursors read through the links of `PropertyChain`, as the histories of `PropertyHistory`: the refinement mapping | `RecordPropertyCursor.next`, `nextHistory`, `propertyVersion` |
| `PropertyHistory` | The abstract specification of G: each property has a sequence of values with intervals; no records or links | (abstract) |
| `VersionScans` | I. The conditions of the four scans as operators on a stamp | `GraphDatabaseFacade.getAllNodes…`, `getAllRelationships…` |
| `EntityVersions` | D, E, F and I for nodes and relationships: several transactions with locks and buffered state, commits record by record, a scan that interleaves | `Operations`, `TxState`, `TransactionRecordState`, the facade's scans |
| `VersionedGraph` | The abstract specification of E, F and I: what each version shows, one entity changing at a time; no stamps, records, locks or transactions. `EntityVersions` ends with the mapping | (abstract) |
| `VersionedTransactions` | B and C: pool, pooled objects, threads' transactions, version store, crash and restart | `GraphDatabaseFacade.beginTx…`, `TopLevelTransaction`, `PlaceboTransaction`, `KernelTransactionImplementation`, `DbVersionStore`, `CommonAbstractStore` |
| `AtomicTransactions` | The abstract specification of C: a transaction is begun, asked to commit, doomed, and has one outcome; its close returns only if that is what was asked for, and an exception says nothing; no objects, pool, nesting or steps of a close. `VersionedTransactions` ends with the mapping | (abstract) |
| `VersionLedger` | The abstract specification of B: a version is issued once, marked if it was issued, and a mark is flushed or lost; no id generator. Mapped there too | (abstract) |
| `PropertyChanges` | The property part of D and E: what operations read, the maps of added, changed and removed properties with their versions, and what the commit's visitor makes of them | `Operations.…SetProperty…`, `…RemoveProperty…`, `PropertyContainerStateImpl`, `DefaultPropertyCursor`, `TransactionToRecordStateVisitor` |
| `NodeLabels` | H, with the label part of D and E: buffered changes under node locks, the pooled cursor, commits that load, change and write whole maps | `Operations.nodeAddLabel`, `nodeRemoveLabelWithVersion`, `nodeCreateWithLabelsWithVersion`, `TxState`, `DefaultNodeCursor`, `NodeStore.ensureHeavyEx`, `DynamicNodeLabels` |
| `BoltSessions` | M over the pool of C: several sessions with a worker and a reading thread each, pooled transactions, interrupts, terminations; with fairness | `TransactionStateMachine`, `TransactionStateMachineV1SPI`, the states and the reader of version 3 of the protocol |
| `MC…` | TLC instances: stamps for small sets of versions, the ends of relationships, symmetry sets | |
| `DGVersion_proofs`, `VersionScans_proofs`, `PropertyChain_proofs`, `PropertyChanges_proofs`, `VersionedTransactions_proofs`, `EntityVersions_proofs`, `NodeLabels_proofs`, `BoltSessions_proofs` | Theorems and their proofs | |

`EntityVersions` extends `VersionScans`, `PropertyCursor` extends `PropertyChain`, `PropertyChanges` writes its histories with the
operators of `PropertyHistory`, which `PropertyChain` implements; every module that models code but
`BoltSessions`, which has no versions, extends `DGVersion`, so a stamp is the same packed number everywhere. An operator whose comment begins
with *Mutant of* is a deliberately broken variant of its neighbour. No action
uses it; it stands for a plausible bug, and putting it in the place of the
original must make the property that `PROJECT.json` pairs it with fail.

### PropertyChain

State. `first` is `PrimitiveRecord.nextProp`; `inUse`, `entity`, `key`, `value`,
`version` and the four link variables are the fields of `PropertyRecord`.
Transactions on one primitive are serialised by its exclusive lock, so each
operation is one step, but their versions come in any order: every operation
picks its stamp freely from `TxVersion`.

* `Set` is `primitiveSetProperty`: it walks the main chain (`MainChain`, the
  records in every closed set; walking by links needs no recursion to define)
  and either `ChangeProperty`, where a new record takes the place of the
  existing one and that becomes the head of its history, or `AddProperty`.
* `Remove` ends the interval of the record; it stays in use and linked.
* `DeletePropertyChain` frees the main chain and only the main chain. Histories
  stay in use and unowned; their ids never come back.

What a superseded record keeps in `nextProp` and `prevProp` is left stale as in
the code; `NoLostProperty` and `MainChainLinked` are about those never mattering.
The fields of a record that is not in use are blank in the model: the code does
not clear them in memory, but creates the next record of that id afresh.
Values that overflow to dynamic records are a single value here, and one record
holds one property block, as in the versioned path of the code.

`PropertyCursor` reads a property as the code's cursor does: the record that the walk finds, and
from it back along `nextHisProp`. `ChangeProperty` then shows as `SetProperty` of a history, and
`AddProperty` as one of an empty history; `RemoveProperty` shows as itself and `DeletePropertyChain` as `Forget`.

### PropertyChanges

State. The four maps are the fields of `PropertyContainerStateImpl`, for each entity; a key
that a map does not hold has the value `NoValue`, which is also `Values.NO_VALUE`. `hist`
is what is committed, in the terms of `PropertyHistory`. `asked` is a history variable, the
operations of the transaction that took effect.

* `NodeSetProperty`, `RelationshipSetProperty` and `RemoveProperty` read the property as
  `DefaultPropertyCursor` does (`Read`: changes first, then the store without the keys that
  are changed or removed) and choose between addition, change, removal and nothing.
* `changeProperty`, `addProperty` and `removeProperty` are those of the code. A property
  removed and then added becomes a change, without a version of its own.
* `Commit` applies the visitor's order, removals, changes, additions, to the histories.
* `Rollback` is any way in which the transaction ends without writing.

The store reads the newest value of a history whether or not its interval has ended, as
the cursor does. A set of a relationship property to the value that is read does nothing;
after a committed removal that is the ended value, and the set is lost (a hazard).
Versions are picked by each operation: queries pass their own, nested transactions change
the one of the kernel transaction. An entity is locked exclusively from its first change to
the end of the transaction, so one transaction at a time has changes of it. `EntityVersions`
has the locks; here they are what lets every entity have one set of maps.

Each property by itself (`Of`) is a history of `PropertyHistory`, of which a commit takes one step
at most. So both halves of the way of a property into the store meet in that specification: here the
operations of a transaction become a write or a removal, and in `PropertyChain` that becomes
changes of records and links.

### EntityVersions

State. `record` gives the stamp of each record in use, `tx` the `TxState`, locks
and pending operation of each thread, `scan` one running scan.

* `NodeCreate`, `RelationshipCreate`, `NodeDelete`, `NodeDetachDelete` are one
  step each: what they read, they read under their locks.
* `relationshipDelete` is two steps, `RelationshipLoad` and `RelationshipDelete`,
  since it reads the stamp and then waits. The history variable `raced` records
  that the stamp was stale when it was used.
* `Commit` starts the application of the commands, `Apply` writes one record, in
  the order of `extractCommands`, `Applied` releases the locks.
* `Rollback` is possible at any time before a commit, in a wait as well
  (deadlock, termination).
* `ScanStart` and `ScanNext` are the single-version scan, record by record.

A creation without a version is stamped with the id of the last transaction that
had committed (`TxId`), a plain number, as in the code.

To `VersionedGraph` the state is what the scan of each version would show (`graph`). Only `Apply` is
seen: the record of a created entity makes it appear in the versions of its stamp, that of a
deleted one takes it out of the versions after it, a physical deletion out of all, and every other
step shows nothing. Deletions by a stale stamp (`racing`) are an input of the abstract
specification, which says no more of them than that they change one relationship.

### NodeLabels

State. `stored` is the map that each node record points to, `tx` the locks, the created nodes
and the buffered changes of each thread's transaction, `cursor` the map that its pooled
`nodeCursor` holds. `image` holds the records a commit has loaded and changed and not yet
written. `asked`, `swapped` and `strayed` are history variables: the labels that were to be
added, the nodes a transaction changes for another one, and those that a commit changed so.

* `NodeCreate` and `NodeAddLabel` buffer a label with its stamp. A label that the node has, or
  seems to have, is left alone: `ensureHeavyEx` loads a map only when the record points to one,
  and nothing clears the last one, so on a node without labels the cursor shows those of the
  node before (`Foreign`).
* `NodeRemoveLabel` ends the stamp it reads, and gives it to the node that has the id of the
  label, as the label that has the id of the node: node and label are swapped on the way through
  `TxState` (section 6). It throws when there is no stamp to end, or when the transaction has
  changes but none of this node. Nodes and labels are numbers here, since the swap needs it. The
  version it ends with is one that was given, from `EndVersion`, as in `nodeRemoveLabelWithVersion`;
  `nodeRemoveLabel` is the same with the version of the transaction.
* `Commit` loads the records of all changed nodes and puts the changes in their maps; one that
  does not exist fails the commit. `Apply` writes one map, `Applied` gives back the locks.

The lock of a node is taken by whoever adds or removes a label of it, passes over nodes of the
transaction itself, and is held to the end.

### BoltSessions

State. `fsm` is the state of the protocol (library code; its states are those that the handlers
in the repository answer in), `state` and `ctx` are the fields of `TransactionStateMachine` and of
its context (`currentResultHandle` stands for the open result by the transaction that its statement runs
in), `doing` and `goal` say where the worker is in a request, `ktx` are the pooled transactions, `interrupts` and `resets` count RESETs, `marking` is the transaction that the
reading thread has read and not yet marked. `late` is a history variable: the sessions for
which that transaction was released in between.

* `Take` begins a request, or fails it for a pending notice. `beginTransaction`,
  `runAutoCommit`, `startExecution`, `runPeriodic`, `startPeriodic`, `streamResult` and
  `commitOrRollback` are the requests, in two steps where the transaction is visible to the reading
  thread in between. PULL stands for DISCARD too. Each can fail as in the code.
* `startPeriodic` is the `finally` of a periodic commit, which begins a transaction whether the statement
  failed or not (`Started`). While the result is open its transaction is bound to the thread: the
  begin gives the context that same one, or throws because it was terminated meanwhile, and then the session
  has failed, its context has no transaction and its result still holds one. When the result is over,
  because the statement failed or returns nothing, the begin makes a new transaction or throws.
* A reset terminates and closes the open result before it closes the transaction of the context. It ends
  that transaction, or without one the transaction of the result, with the close of the result (`Last`).
* `closeTransaction` sets the flags, and `Closed` is `tx.close()` with its outcomes. A
  terminated commit throws past `commitTransaction()` and leaves the state explicit. The
  decision in the close and the release are one step: a mark after the decision changes nothing.
* `Interrupt` and `Stop` are the reading thread's: count, read the current transaction, which is a
  plain field of another thread; then, in a step of its own, `Mark` whatever the object is by now.
* `Reset` answers one RESET; only the last resets the session. `validateTransaction` is the worker
  that waits for the next request of an open transaction. `Expire` is the monitor, or a client that
  terminates transactions.

The state INTERRUPTED of the protocol is the counter being positive: until the last RESET is
answered every other request is ignored, so the queue is as long as the unanswered RESETs
(`Enqueued`). This is version 3 of the protocol. A begin or a run can be refused for a
bookmark, access or a statement that does not compile.

### VersionedTransactions

State. `ktx` holds the fields of each pooled object; `slot` and `pooled` are the
library's pool with its thread-local slots; `tx` is each thread's
`TopLevelTransaction` and the `PlaceboTransaction` nested in it; `direct` holds
calls of `terminate()` on their way; `highId`, `freed`, `marked` and `flushed`
are the version store in memory and on disk. The field `committed` of a transaction and the variable
`vetoed` are history the properties speak of. What became of a transaction (`successCalled`,
`committed`, `result`) stays in `tx` until its thread begins the next one.

`close()` is modelled in its steps: decide (`CloseTransaction`), `Commit`,
`CommitFails` or `Rollback`, `Release` to the pool, and then `MarkVersion`, which
reads the version from an object that another thread may own by then. Each step after
the decision can throw as in the code: `Commit` although the transaction is in the log (the
commit process after its `success` is set, or a hook or a listener once all is applied),
`CommitFails` because nothing is, `Rollback` in any case if `success()` was called and else if the roll back
fails, `Release` when the auxiliary state cannot be closed, and the mark of an outer or a nested
transaction when the page cache throws. An exception before the mark passes over it (`Left`).
`CreateToken` is the transaction of its own that a new token takes from the same
pool and leaves in the slot of the thread, where the next token finds it. To `AtomicTransactions`
a transaction is pending until its object is closed, when its outcome is decided; its client is told
when `close()` has ended, after the release and the mark; whatever vetoes the object dooms the
transaction. To `VersionLedger` the versions issued are those below the high
id that are not free; all of a begin but its stamp is a stutter. `Crash` is a restart with either form of `rebuildIdGenerator`.

Preconditions on clients. `beginTx(version)` stores its argument as a *stamp*;
the model gives it the stamp of a version that was issued. A client that passes
a plain version number gets start version 0, and the close of an outer
`beginTx()` would mark version 0; nothing in the repository says which of the two
is meant, so this is listed as a hazard and not as a finding.

## 3. Runs

| Run | Configuration and bounds | Properties | What it shows |
|---|---|---|---|
| `chain` | one node, three keys, four ids | `TypeOK` `MainChainLinked` `NoLostProperty` `OneHostPerKey` | Replacing at the head, in the middle and at the end, adding, removing and deleting keep the main chain a doubly linked list of the latest records |
| `history` | two nodes, one key, two values, three ids, stamps with two different starts | `HistoryAdjoins` `HistoryAcyclic` `HistoryFrozen` `ImplementsHistory` | Histories are append-only sequences of adjoining intervals, also when ids are used again, and what cursors read implements `PropertyHistory` |
| `lifecycle` | two threads, two objects, two incarnations each, both kinds of termination, no versions | `OneOwner` `CloseIsHonest` `VetoIsFinal` `HandleTerminatesItsOwn` `ImplementsAtomic` | Pooling, nesting and terminations that race a close, which all together implement `AtomicTransactions` |
| `versions` | two threads, two objects, two versions, crashes | `TypeOK` `MarkedNeverReissued` `ImplementsLedger` | Marks are respected by the id generator across crashes and both rebuilds, which implement `VersionLedger` |
| `writes` | two threads, two nodes, one relationship, versions 1 and 2 in either order | `TypeOK` `WritesExclusive` `EndsInUse` `PastKept` `ImplementsGraph` | Locks keep the changes of two transactions apart, no relationship loses its nodes, versioned changes keep the past, and what versions show implements `VersionedGraph` |
| `scans` | two threads, a node with a loop, a scan of version 2 during commits of versions 1 and 2 | `ScanRepeatable` | A scan returns what its version held when it began |
| `node_changes` | one node, one key, two values, stamps of two versions, four operations on a property in a transaction, histories of two entries | `TypeOK` `ReadYourWrites` `Committable` `CommitEffect` `ImplementsHistories` | Sets and removals in any order leave the maps able to be read and committed, and the commit writes their effect and nothing more, one step of `PropertyHistory` for each property |
| `relationship_changes` | one relationship, the same with three operations | `ReadYourWrites` `CommitEffect` | The same for relationships, where a set can be skipped |
| `labels` | two threads, nodes 1 and 2, labels 2 and 3, one start version, one to end with | `TypeOK` `AddsNotLost` `LabelsKept` | Labels are neither lost nor taken away, although commits write whole maps and cursors carry labels from node to node |
| `label_removal` | the same nodes and labels, one thread, versions 0 and 1 to end with | `ChangesUnderLock` (violated) | A finding, see section 6 |
| `sessions` | two sessions, two objects, two RESETs of one client, terminations at any time, both connections may end | `TypeOK` `SessionsConsistent` `NoLateMarkOfOwn` `FailedNeverCommits` `InterruptsSettle` `TerminatedEnds` | Sessions that hand transactions to each other and are interrupted anywhere stay in step, and every interrupt and termination is carried out |
| `zero_end` | one node, version 0 | `ZeroEndIsAlive` (violated) | A finding, see section 6 |

Why the bounds are enough. `Limit` is 4, so that versions reach the boundary of a
half (0 and the end that means alive) as well as values inside. Three keys on one
chain are the fewest that have a head, a middle and an end; the fourth id is what
a replacement needs. Three ids of two nodes are the fewest with which an id is
freed while a history with links to it stays. Two threads are enough for the
properties about pairs of transactions, and two objects let a thread find an
object in its slot, in the pool, or not at all. Two incarnations tell a late
termination from a timely one. Two versions give a hole and a mark after it. In
`versions`, `MaxIncarnation` bounds how often an object is initialised between
restarts and `MaxVersion` the versions of the store; in all runs `Rel`'s ends are
all nodes. In `node_changes` and
`relationship_changes`, `MaxAsked` bounds the operations of one transaction on one property
and `MaxHistory` the entries of a history: four operations are a set, a removal, a set and
another, which passes through every pair of maps, and a history of one entry that gets a
second is the store that has something to supersede. The two runs are apart because
entities share no state; `PropertyChanges_proofs` needs neither bound. Ids, threads, objects, nodes, primitives, keys and values are only
compared for equality, so symmetry over them is sound for these safety properties.

In `labels`, the token spaces overlap in 2: the removal of label 2 from node 1 strays to node 2,
that of label 3 to a node that does not exist, whose commit fails. One start version is enough to
lose or to end a label; that a start or an end never moves is for all versions by the proof.
In `sessions`, two RESETs are the fewest of which one is not the last; the client of the other
session sends none, but its connection can end, and two objects are what lets each session find the one
the other has just released. No symmetry is used there, since the run checks liveness.

Only `sessions` disables the deadlock check: all its connections can be closed.

What a property leaves out, on purpose:

* `ScanRepeatable` speaks of scans that only versioned changes of that version or
  later ones interleaved with. Creations without a version, physical deletions,
  changes of older versions and raced deletions do disturb a scan, in the code as
  in the model (`Disturbs`).
* `PastKept` leaves out relationships deleted by a stale stamp (`raced`): there the
  end version of a deletion that committed meanwhile is overwritten. `ImplementsGraph` has a step
  of its own for them (`Overwrite`).
* `EndsInUse` is about records in use. A versioned deletion of a node ends its stamp and no stamps of
  relationships, so that a version can show a relationship without its nodes, in the code as in the model.
* `ImplementsGraph` is about single commands, as readers see them: a commit is not atomic to a scan
  of its own version, in the code as in the abstract specification.
* `MarkedNeverReissued` says nothing of versions whose mark a crash lost. They are
  issued again although the data of their transactions is recovered. `ImplementsLedger` says only
  that no more is lost: what is on disk is kept, and of what counts as issued afterwards nothing is above it.
* `CloseIsHonest` and `ImplementsAtomic` rely on a close that returns. One that throws says nothing: the
  transaction may be committed, whatever the message says (section 5). A transaction
  can be rolled back by a late `TopLevelTransaction.terminate()` that was meant for an earlier one,
  in which case its close throws; to `ImplementsAtomic` it was doomed by whoever may veto it.

* `AddsNotLost` leaves out labels that the cursor showed by mistake on a node without any
  (`Foreign`): the add is skipped, in the code as in the model. It and `LabelsKept` leave out the
  nodes that a removal from another node changed (`strayed`), whose map is written without the
  lock of the node.
* `NoLateMarkOfOwn` says nothing of other sessions: a late mark does terminate the transaction of
  a session that has begun the object again. `TerminatedEnds` shows that the victim ends.
* `SessionsConsistent` allows a failed session to hold a transaction that its context does not have: the
  terminated one of a periodic commit, behind the open result. Only then, and no second one; that the
  reset finds it is `InterruptsSettle`.
* `TerminatedEnds` leaves out what a failed periodic commit leaves behind, a new transaction or
  the terminated one of its result, which nobody validates, and a client that starts further statements.

Fairness. Only `BoltSessions` assumes any: weak fairness of `Work(s)` and of `Mark(s)` for each
session. `Work` is what the worker does by itself: a request that it has taken goes on and ends, a
RESET or the end of the connection is in its queue, and while it waits with an open transaction it
polls and validates (`TransactionStateMachine.validateTransaction` is called from the loop that
waits for the queue). `Mark` is the second half of a method the reading thread is in. A client
that sends nothing, and the monitor, owe nothing, so `Take`, `Interrupt`, `Stop` and `Expire` have no
fairness. In the other modules every property is a safety property: their threads are the clients' own
and may stop anywhere.

## 4. Proofs

All proofs are for every value of the constants, under the assumptions the modules
declare: `LimitAssumption` (a half has more than one value),
`PropertyIdAssumption` (the null link is no id), `TxVersionAssumption` and
`StampsAssumption` (what a transaction carries is a stamp), `NoneAssumption`, `NoValueAssumption` and
`ValuesAssumption` (the marks that stand for nothing are no stamps, values or ids), `DistinctEntities` and
the `EndsAssumption` of `EntityVersions` (a relationship is no node, its ends are nodes), that of `NodeLabels`
(what a label ends with is an integer) with `IdAssumption` (ids are numbers), `ScanAssumption` (what a scan asks for is a
version), `KtxAssumption` (an object for each session), and that bounds are numbers.

`DGVersion_proofs`. Division with remainder by `Limit` is unique (`DivMod`), from
which `Unpack`: two halves come back as they were packed; and `EndedBy`: ending a
stamp keeps its start and makes its end the start of the other; and `EndedAt`: ending it with any
integer keeps its start.

`VersionScans_proofs`. `SeenThroughout`: the scan of several versions returns what
the scans of each of them all return. `DeltaComplete`: the delta of two versions
misses nothing that only one of them shows and reports nothing both show.
`EndingKeepsPast`: ending a stamp changes no version up to that end.

`PropertyChain_proofs`. `TypeCorrect`, `Linked`, `NothingLost`, `OneHost`,
`Adjoining`, `Acyclic` and `Frozen`, for any number of primitives, keys and ids.
The properties speak of what a walk along `nextProp` finds, and no property of
walks is inductive: a step changes three links and the walk as a whole. The
invariant `IInv` therefore speaks of the *latest* records (in use, superseded by
none, owned by the primitive), which need no walk to define:

* `LatestLinked`: links of latest records lead to latest records of the same
  primitive and agree in both directions, and one without a predecessor is the head;
* `LatestReached`: no set closed under the links from the head misses a latest record;
* `LatestKeys`: latest records of a primitive have different keys;
* `TypeOK`, `HistoryAdjoins`, `HistoryAcyclic`.

`WalkFindsLatest` derives `MainChain(p) = Latest(p)` from the first two: the latest
records are themselves a closed set, and are in each. One lemma per operation
(`ChangeStep`, `AddStep`, `RemoveStep`, `DeleteStep`) shows `IInv'`. In `ChangeStep`
a set closed after the step is turned into one closed before it by exchanging the
new record for the old. `HistoryAdjoins` holds whatever stamps come in which order
because `EndedBy` gives the end of the old interval from the start of the new one,
and because a removal only touches records that no other supersedes.

`Implementation` shows that the records implement `PropertyHistory`. The mapping `nextHistory` is a
recursive function along the links, and nothing can be proved about it before the
equation that defines it is known to have a solution. It has one because histories are finite and end:
`HistoryAcyclic` gives every set of records one that leads to none of them, so that the least
relation between records and sequences that the equation allows is a function on all of them. From there on only the
equation is used. A step that changes some records leaves the history of every other as it was, since a
record whose history changed and whose predecessor's did not could only be a changed one;
`ChangeProperty`, `AddProperty`, `RemoveProperty` and `DeletePropertyChain` then each take one step of the abstract
specification.

`PropertyChanges_proofs`. `TypeCorrect`, `ReadsOwnWrites`, `AlwaysCommittable`, `CommitExact` and
`HistoriesImplemented`, for any number of entities, keys, values and operations. None of the properties
is inductive: that a read returns the last value says nothing of which map it is in, and the
next operation depends on the map. The invariant (`Determined`) says that the operations asked
for and the history in the store determine the maps: nothing is buffered before the first; after
a removal the key is remembered exactly if the store has a history; after a set the value is an
addition if the store has none and a change otherwise, with the version `VersionOfLast`.
`SetStep`, `RemoveStep` and `ForgetStep` show that it is kept, `VisitedEffect` that what the
visitor writes from such maps is `Effect`, and `OneStep` that this is one write, one removal or nothing,
with a value and a version that an operation was given.

`VersionedTransactions_proofs`. `TypeCorrect`, `Owned`, `CloseTellsTheTruth`, `NoVetoOverruled`,
`OwnTerminated` and `NeverReissued`, for any number of threads, objects, incarnations and versions, and any
number of crashes. An object is at rest (in the pool or in a slot) or serves one transaction, and the invariant
says what its fields are in either case (`Resting`, `Serving`, `Holds`). What was told is an invariant of
the transaction alone (`Honest`): once there is a result, it is "returned" only if the transaction was
committed exactly when it was asked for, and no step of the close turns an exception back into a
return. `OwnTerminated` rests on counting:
incarnation i of an object expects the reuse count i - 1, and that is the count only while
incarnation i serves, because every release adds one (`Counted`). `NoVetoOverruled` needs that a veto of an
object that is open is in its `failure` flag, which `CloseTransaction` reads, and that one that comes later is no
veto. `NeverReissued` needs that every version a close can still mark has been handed out (`Marks`), also when
it reads the object after the release and another thread's transaction has put its own version there, or
a form with a timeout has left the old one; no version handed out is taken back but by a crash, after which nobody has one to
mark. That a rebuild finds a highest id at all (`HighId`) is a well-founded minimum.

`AtomicImplemented` shows that this is atomic transactions to the clients. One lemma says that a step of a thread
on an object that no other uses is not seen by the other clients (which is `OneOwner`), one what a veto
is to whom it hits; the outcome appears when the object is closed (`CloseShown`), where the invariant says
that a transaction that is committing was asked for and has no veto. The client is told by the release or by
the mark (`EndShown`): `Honest` makes a return one that the specification allows, and an exception is
allowed with either outcome. `LedgerImplemented` uses of the invariant that what is marked was issued
(`Marks`), and of `HighId` that a rebuild takes exactly one more than the highest record on disk.

`EntityVersions_proofs`. `TypeCorrect`, `WritesApart`, `NoLooseEnds`, `PastIsKept` and `ScansRepeat`, for any graph
(`Ends` is any function from relationships to sets of nodes), any number of threads and all
versions. The locks do not tell two transactions apart by themselves: `NodeDetachDelete` locks
the node and its neighbours and changes relationships it has not locked, and `RelationshipDelete` locks the
relationship and its nodes one after the other. The invariant says what stands behind every change:
a created entity is reserved and not in use (`Own`); a changed node is locked, and of a changed relationship the
nodes are (`Covered`), so that two changes of it would share a lock; a new relationship's ends are locked or
new (`Attached`), and a removed node's relationships are removed with it (`Detached`), whence `EndsInUse`: the ends of
a relationship in use are in use, or the commit that is being applied has still to write them. That last part
is why the order of the commands matters (`Ordered`): created entities before the others, new relationships before new
nodes, removed relationships before their nodes. `KeepsPast` says of a buffered stamp that it shows what the stored
one shows up to the version it ends at (from `EndingKeepsPast`), except for the relationships in `raced`, whose
stamp was read before the locks were held; `ScanInv`, that what a scan has seen and what is left of it
make up what its version held when it began.

`GraphImplemented` shows that the records implement `VersionedGraph`. It needs a second invariant,
of what is buffered: what is to be ended was alive when it was read and, unless its stamp was stale, is
so still in the record (`EndsOwn`, `EndsRecord`), and what is created has a record nowhere. Each `Apply`
writes one record, whose stamp before and after gives the versions that show the entity (`ShownAfter`),
and from these one of the four abstract steps, or none when the stamps show the same.

`NodeLabels_proofs`. `TypeCorrect`, `NoAddLost` and `Kept`, for any number of threads, nodes and
labels and all versions. A commit writes the map it has loaded, so that nothing is lost only if
nobody else changes the node meanwhile. The invariant says who can: locks and created nodes of two
transactions are disjoint (`Apart`), and a node that is changed without either is in `swapped`
(`SwapsKnown`), and in `strayed` before it is written; so what a commit has loaded is still what the store
holds (`ImageFresh`), and the stamps it puts over it have the same starts (`ChangesKeep`), since a
stamp that is ended was read from there (`EndsStamp`, from `EndedAt`).

`BoltSessions_proofs`. `TypeCorrect`, `InStep`, `OwnNotMarkedLate` and `FailedIsUndone`, for any number
of sessions, objects and RESETs. The properties speak of a session between two requests; the invariant says
what it holds at each point of one (`Holds`, `Underway`), in its context or, after a periodic commit
whose transaction was terminated, behind the open result (terminations only set flags, so that it stays
so: `StillConsistent`); that only a close that a request of an
undisturbed session began is of a successful transaction (`Successes`), and that while the reading thread is
behind the worker begins nothing, so what was released meanwhile was the last the session held
(`Behind`). One lemma per action shows that it is kept, two more serve all that end in
`closeTransaction` and in a reset.

Only model-checked: the liveness of sessions, `InterruptsSettle` and `TerminatedEnds`. Liveness and `ENABLED` are
out of the prover's reach, and so are `RECURSIVE` operators and induction over data; the modules with proofs use none,
and what is proved of the one recursive function, `nextHistory`, rests on the argument above. The properties
of the two runs that end in a violation do not hold.

## 5. What is not modelled, and why

* Record formats, serialisation of label maps, Cypher runtime: planned (section 7).
* Labels without a version, the layout of the dynamic records of a map, the label scan store.
* Bolt: version 1 of the protocol with its ACK_FAILURE; the version field of a RUN, which the
  decoders of the repository read and drop. The web browser's bundled scripts under `resources/browser` are
  the vendored front end of Neo4j and no part of the graph.
* In the modelled components: nesting deeper than one level, a second `close()` of
  a stale handle, disposal of pooled objects, `commitVersion(version, false)`,
  explicit batches of versions; `nodeSetVersion` and `relSetVersion`, which nothing in the
  repository calls; reads of a property at a version; properties of entities that the
  same transaction creates and deletes; what a scan shows of its own transaction.
* Exceptions of the calls in `release()` before `pool.release` (line 758), but for that of the auxiliary state, which
  is thrown at the end: they would keep the object from the pool. Exceptions inside a begin of a
  `VersionedTransactions` thread. Neither is expected of that code.
* In the sessions: a roll back that throws, and what the library does when the close of the result of a
  periodic commit throws, which ends the connection. That close is library code, taken as the roll
  back of the transaction the statement runs in.
* Relationship chains and groups, dynamic records, the page cache, the transaction
  log: library code or Neo4j code with few changes.
* Versions that wrap at 2^16 (they are stamped as smaller ones): a hazard without a
  property, since the runs stay below the limit. The theorems state the laws of stamps for versions that
  fit in a half.
* The parser, planner, server bootstrap, driver, RocksDB wrapper: no state of the
  versioned graph.

What the code does not promise, and no property says: that an exception of `close()` means a roll back. The
text of the exception is "Transaction was marked as successful, but unable to commit transaction so rolled
back." (`TopLevelTransaction.java:116`), for most of what can be thrown: by the commit process after
`success` was set (`KernelTransactionImplementation.java:552-554`, which goes on to `afterCommit` at 587 and not
to `rollback`), by a hook or a listener (714), by `release()` (763), or by the mark of the version after the
close of the kernel transaction has returned (`TopLevelTransaction.java:95`). In all of these the transaction can be
committed, and is in the model. `CloseIsHonest`, `ImplementsAtomic` and their theorems speak of the
closes that return, and of what may never be committed.

## 6. Findings

`zero_end`: the comment on `DGVersion` (line 5) says that `endVersion = 0` means an
entity that is alive. `hasEndVersion` (line 40) calls every end below 65535 ended,
so an entity created and deleted in version 0, the first version of a new store, has
end 0 and is hidden from the scans of the current graph.

`label_removal`: the interface declares `nodeDoRemoveLabel(long nodeId, long labelId, long version)`
(`org/neo4j/kernel/api/txstate/TransactionState.java:35`); the implementation with a version
(`impl/api/state/TxState.java:321`) is given and passes on the label first. A removal changes the
labels of the node that has the id of the label, which the transaction has not locked, and leaves the
label on the node it was called for.

## 7. Plan

Done: the modules and proofs above. In the order of what matters most, what is left:

1. `PropertyChanges` composed with `PropertyChain`, whose common specification is so far
   `PropertyHistory`, so that a commit writes records in one module, and reads of a property at a version (`NodeProxy.getProperty(key, version)`), which see the
   version of the store cursor also for what the transaction changed.
2. The property record format and its `isInUse`, with the rebuild of its id generator,
   over a small byte layout.
3. What a scan shows of the transaction it runs in.
4. `VersionedTransactions`: deeper nesting, stale handles, batches of versions.
5. `BoltSessions`: version 1 of the protocol.
6. The version a Cypher query selects, reads with and writes with.

The abstract specifications (property histories, the versioned graph, atomic transactions, the
ledger of versions) are stated, and each is implemented by its detailed one, by a proof.

Theorems worth proving next: that the commits of `NodeLabels` implement an abstract map of labels,
but for nodes that a swapped removal changed; and that a session of `BoltSessions` runs atomic
transactions (`AtomicTransactions`), which needs the outcome of the last one in its state.
