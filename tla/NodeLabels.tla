------------------------------ MODULE NodeLabels ------------------------------
(***************************************************************************)
(* The labels of nodes, each with a stamp.  A node record points to a map  *)
(* from labels to stamps in dynamic records; Operations reads it through a *)
(* cursor that is pooled with the transaction object, and buffers what a   *)
(* transaction changes in its TxState; a commit loads the records of the   *)
(* nodes it changes, makes their new images, and applies them one by one.  *)
(* Nodes and labels are numbered, and a removal of a label swaps the two.  *)
(***************************************************************************)
EXTENDS DGVersion

CONSTANTS
  Thread,         \* each with a pooled transaction object
  Node, Label,    \* ids of the two token spaces, which may overlap
  None,           \* no stamp
  TxVersion,      \* the stamps that added labels can be given,
  EndVersion      \* and the versions that removals can

Id == Node \cup Label

ASSUME IdAssumption == Id \subseteq Nat
ASSUME StampsAssumption == TxVersion \subseteq Stamp
ASSUME EndsAssumption == EndVersion \subseteq Int
ASSUME NoneAssumption == None \notin Stamp

VARIABLES
  inUse,          \* the nodes in use
  stored,         \* the map each node record points to
  tx,             \* the open transaction of each thread
  cursor,         \* the map Operations.nodeCursor holds: NodeRecord.dynamicVersionLabels
  strayed         \* history: nodes whose labels a commit changed for another node

vars == <<inUse, stored, tx, cursor, strayed>>

LabelMap == [Id -> Stamp \cup {None}]
NoLabels == [l \in Id |-> None]

Transaction ==
  [applying : BOOLEAN,
   created : SUBSET Node, locks : SUBSET Node,
   labels : [Id -> LabelMap],       \* label differences and labelsWithVersionMap, by node
   image : [Id -> LabelMap],        \* the records the commit has loaded and changed
   asked : SUBSET (Node \X Label),  \* history: labels that were to be added,
   swapped : SUBSET Id]             \* and nodes changed by the removal from another

TypeOK ==
  /\ inUse \subseteq Node
  /\ stored \in [Node -> LabelMap]
  /\ tx \in [Thread -> Transaction]
  /\ cursor \in [Thread -> LabelMap]
  /\ strayed \subseteq Node

NewTransaction ==
  [applying |-> FALSE, created |-> {}, locks |-> {},
   labels |-> [n \in Id |-> NoLabels], image |-> [n \in Id |-> NoLabels], asked |-> {},
   swapped |-> {}]

Init ==
  /\ inUse = {} /\ stored = [n \in Node |-> NoLabels]
  /\ tx = [t \in Thread |-> NewTransaction]
  /\ cursor = [t \in Thread |-> NoLabels]
  /\ strayed = {}

-----------------------------------------------------------------------------
(* What a transaction reads. *)

Exists(t, n) == n \in inUse \cup tx[t].created

\* Nodes with changes of their labels in the state of a transaction.
Relabelled(t) == {n \in Id : tx[t].labels[n] # NoLabels}

\* A NodeState exists; without one, augmentLabelsMap() has no id and throws.
HasState(t, n) == n \in tx[t].created \cup Relabelled(t)
HasChanges(t) == tx[t].created \cup Relabelled(t) # {}

Merged(below, above) == [l \in Id |-> IF above[l] # None THEN above[l] ELSE below[l]]

\* Mutant of ensureHeavyEx: a map that is there already is not loaded again.
ensureHeavyOnce(t, n) ==
  IF n \in inUse /\ cursor[t] = NoLabels THEN stored[n] ELSE cursor[t]

(* The map of the store cursor on node n.  It is loaded only when the      *)
(* record points to one; clear() and initialize() leave the last one.      *)
ensureHeavyEx(t, n) ==
  IF n \in inUse /\ stored[n] # NoLabels THEN stored[n] ELSE cursor[t]

\* The cursor shows a label of the node it was on before.
Foreign(t, n, l) == ~(n \in inUse /\ stored[n] # NoLabels) /\ cursor[t][l] # None

hasLabel(t, n, l) == tx[t].labels[n][l] # None \/ ensureHeavyEx(t, n)[l] # None

\* DefaultNodeCursor.versionLabels().
versionLabels(t, n) ==
  IF n \in tx[t].created THEN tx[t].labels[n]
  ELSE Merged(ensureHeavyEx(t, n), tx[t].labels[n])

-----------------------------------------------------------------------------
(* Operations *)

\* acquireExclusiveNodeLock, which passes over nodes of the transaction itself.
Lockable(t, n) == n \in tx[t].created \/ \A u \in Thread \ {t} : n \notin tx[u].locks
Locked(t, n) == IF n \in tx[t].created THEN tx[t].locks ELSE tx[t].locks \cup {n}

\* nodeCreateWithLabelsWithVersion; without labels, nodeCreateWithVersion.
NodeCreate(t, n, labels, ver) ==
  /\ ~tx[t].applying
  /\ n \notin inUse /\ \A u \in Thread : n \notin tx[u].created
  /\ tx' = [tx EXCEPT ![t].created = @ \cup {n},
                      ![t].labels[n] = [l \in Id |-> IF l \in labels THEN ver ELSE @[l]],
                      ![t].asked = @ \cup ({n} \X labels)]
  /\ UNCHANGED <<inUse, stored, cursor, strayed>>

\* Mutant of NodeAddLabel: without acquireExclusiveNodeLock.
NodeAddLabelUnlocked(t, n, l, ver) ==
  /\ ~tx[t].applying /\ Exists(t, n)
  /\ tx' = [tx EXCEPT ![t].asked = IF Foreign(t, n, l) THEN @ ELSE @ \cup {<<n, l>>},
                      ![t].labels[n][l] = IF hasLabel(t, n, l) THEN @ ELSE ver]
  /\ cursor' = [cursor EXCEPT ![t] = IF tx[t].labels[n][l] # None THEN @ ELSE ensureHeavyEx(t, n)]
  /\ UNCHANGED <<inUse, stored, strayed>>

\* A label that the node has, or seems to have, is left as it is.
NodeAddLabel(t, n, l, ver) ==
  /\ ~tx[t].applying /\ Exists(t, n) /\ Lockable(t, n)
  /\ tx' = [tx EXCEPT ![t].locks = Locked(t, n),
                      ![t].asked = IF Foreign(t, n, l) THEN @ ELSE @ \cup {<<n, l>>},
                      ![t].labels[n][l] = IF hasLabel(t, n, l) THEN @ ELSE ver]
  /\ cursor' = [cursor EXCEPT ![t] = IF tx[t].labels[n][l] # None THEN @ ELSE ensureHeavyEx(t, n)]
  /\ UNCHANGED <<inUse, stored, strayed>>

(* The label is not removed from the node: the ended stamp goes to the     *)
(* node with the id of the label, as the label with the id of the node.    *)
(* Without a stamp to end, or without a NodeState, the call throws.  The   *)
(* version is one as such; nodeRemoveLabel() takes the transaction's.      *)
NodeRemoveLabel(t, n, l, version) ==
  LET old == versionLabels(t, n)[l]
      throws == old = None \/ (HasChanges(t) /\ ~HasState(t, n))
      ends == hasLabel(t, n, l) /\ ~throws /\ ~hasEndVersion(old)
  IN
    /\ ~tx[t].applying /\ Exists(t, n) /\ Lockable(t, n)
    /\ tx' = [tx EXCEPT ![t].locks = Locked(t, n),
                        ![t].labels[l][n] = IF ends THEN setEndVersion(version, old) ELSE @,
                        ![t].swapped = IF ends /\ l # n THEN @ \cup {l} ELSE @]
    /\ cursor' = [cursor EXCEPT ![t] = ensureHeavyEx(t, n)]
    /\ UNCHANGED <<inUse, stored, strayed>>

-----------------------------------------------------------------------------
(* Commit and rollback *)

Touched(t) == tx[t].created \cup Relabelled(t)
\* DynamicNodeLabels.add: ensureHeavy, then one put for each label.
Image(t, n) ==
  IF n \in tx[t].created THEN tx[t].labels[n] ELSE Merged(stored[n], tx[t].labels[n])

\* Mutant of Commit: a record that is not in use is made instead of loaded.
CommitMissing(t) ==
  /\ ~tx[t].applying /\ Touched(t) # {}
  /\ tx' = [tx EXCEPT ![t].applying = TRUE,
                      ![t].image = [n \in Id |-> IF n \in Touched(t) THEN tx[t].labels[n] ELSE @[n]]]
  /\ strayed' = strayed \cup tx[t].swapped
  /\ UNCHANGED <<inUse, stored, cursor>>

\* The records are loaded when the commands are made; one that is missing
\* fails the commit.
Commit(t) ==
  /\ ~tx[t].applying /\ Touched(t) # {}
  /\ \A n \in Touched(t) : Exists(t, n)
  /\ tx' = [tx EXCEPT ![t].applying = TRUE,
                      ![t].image = [n \in Id |-> IF n \in Touched(t) THEN Image(t, n) ELSE @[n]]]
  /\ strayed' = strayed \cup tx[t].swapped
  /\ UNCHANGED <<inUse, stored, cursor>>

Apply(t, n) ==
  /\ tx[t].applying /\ n \in Touched(t)
  /\ stored' = [stored EXCEPT ![n] = tx[t].image[n]]
  /\ inUse' = inUse \cup {n}
  /\ tx' = [tx EXCEPT ![t].created = @ \ {n}, ![t].labels[n] = NoLabels,
                      ![t].image[n] = NoLabels, ![t].asked = {a \in @ : a[1] # n},
                      ![t].swapped = @ \ {n}]
  /\ UNCHANGED <<cursor, strayed>>

\* The locks go when all is applied.
Applied(t) ==
  /\ tx[t].applying /\ Touched(t) = {}
  /\ tx' = [tx EXCEPT ![t] = NewTransaction]
  /\ UNCHANGED <<inUse, stored, cursor, strayed>>

\* By the client, or by a commit that finds no record to load.
Rollback(t) ==
  /\ ~tx[t].applying /\ tx[t] # NewTransaction
  /\ tx' = [tx EXCEPT ![t] = NewTransaction]
  /\ UNCHANGED <<inUse, stored, cursor, strayed>>

Next ==
  \E t \in Thread :
    \/ \E n \in Node, labels \in SUBSET Label, ver \in TxVersion : NodeCreate(t, n, labels, ver)
    \/ \E n \in Node, l \in Label :
         \/ \E ver \in TxVersion : NodeAddLabel(t, n, l, ver)
         \/ \E version \in EndVersion : NodeRemoveLabel(t, n, l, version)
    \/ Commit(t) \/ Applied(t) \/ Rollback(t)
    \/ \E n \in Node : Apply(t, n)

Spec == Init /\ [][Next]_vars

-----------------------------------------------------------------------------
(* A label that a transaction was to add is in its changes or in the       *)
(* record of the node, whichever nodes its cursor was on before: but for   *)
(* those that the cursor showed on a node without any, which it skips, and *)
(* but for nodes that were changed by the removal of a label from another. *)
AddsNotLost ==
  \A t \in Thread : \A a \in tx[t].asked :
    \/ a[1] \in strayed
    \/ tx[t].labels[a[1]][a[2]] # None
    \/ a[1] \in inUse /\ stored[a[1]][a[2]] # None

(* A commit takes no label from a node, moves no start and no end of a     *)
(* stamp that has one, although it writes the whole map that it loaded     *)
(* before: no other transaction changes the node meanwhile.  The exception *)
(* are nodes that were changed by the removal of a label from another.     *)
LabelsKept ==
  [][\A n \in Node, l \in Id : n \notin strayed /\ stored[n][l] # None =>
       /\ stored'[n][l] # None
       /\ getStartVersion(stored'[n][l]) = getStartVersion(stored[n][l])
       /\ hasEndVersion(stored[n][l]) => stored'[n][l] = stored[n][l]]_vars

(* The interface of the transaction state declares nodeDoRemoveLabel with  *)
(* the node first: what a removal changes are the labels of the node it    *)
(* was called for, which is the one it has locked or created.              *)
ChangesUnderLock ==
  \A t \in Thread : Relabelled(t) \subseteq tx[t].locks \cup tx[t].created

===============================================================================
