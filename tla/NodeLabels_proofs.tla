--------------------------- MODULE NodeLabels_proofs ---------------------------
(***************************************************************************)
(* Proofs about the labels of nodes, for any number of threads, nodes and  *)
(* labels and for operations of every version.                             *)
(*                                                                         *)
(* A commit writes whole maps.  That nothing is lost follows from who can  *)
(* change a node: the transaction that has locked or created it, and a     *)
(* removal that was meant for another node, which is followed in swapped   *)
(* and strayed.                                                            *)
(***************************************************************************)
EXTENDS NodeLabels, DGVersion_proofs

\* No two transactions hold or create the same node.
Apart(t, u) ==
  /\ tx[t].locks \cap tx[u].locks = {}
  /\ tx[t].created \cap tx[u].created = {}

\* What is locked is in use, what is created is not.
InUseOrNot(t) == tx[t].locks \subseteq inUse /\ tx[t].created \cap inUse = {}

\* What else has changes is known to be swapped, and marked before it is written.
SwapsKnown(t) ==
  /\ Relabelled(t) \subseteq tx[t].locks \cup tx[t].created \cup tx[t].swapped
  /\ tx[t].swapped \subseteq Relabelled(t)
  /\ tx[t].applying => tx[t].swapped \subseteq strayed

\* The records that a commit has loaded are still those of the store.
ImageFresh(t) ==
  tx[t].applying =>
    /\ Touched(t) \subseteq inUse \cup tx[t].created
    /\ \A n \in Touched(t) \ strayed : tx[t].image[n] = Image(t, n)

\* What one map makes of another: the same start, and the end if it has one.
Keeps(old, new) ==
  \A l \in Id : old[l] # None /\ new[l] # None =>
    /\ getStartVersion(new[l]) = getStartVersion(old[l])
    /\ hasEndVersion(old[l]) => new[l] = old[l]

ChangesKeep(t) ==
  \A n \in Node \ (strayed \cup tx[t].swapped) : Keeps(stored[n], tx[t].labels[n])

AddsKept(t) ==
  \A a \in tx[t].asked :
    \/ a[1] \in strayed
    \/ tx[t].labels[a[1]][a[2]] # None
    \/ a[1] \in inUse /\ stored[a[1]][a[2]] # None

ThreadInv(t) ==
  InUseOrNot(t) /\ SwapsKnown(t) /\ ImageFresh(t) /\ ChangesKeep(t) /\ AddsKept(t)

IInv ==
  /\ TypeOK
  /\ \A n \in Node \ inUse : stored[n] = NoLabels
  /\ \A t, u \in Thread : t # u => Apart(t, u)
  /\ \A t \in Thread : ThreadInv(t)

-----------------------------------------------------------------------------
(* What a step has to show. *)

\* No labels are a map, and so is what the cursor holds.
LEMMA MapTypes ==
  /\ NoLabels \in LabelMap
  /\ \A t \in Thread, n \in Node : TypeOK => ensureHeavyEx(t, n) \in LabelMap
BY DEF NoLabels, LabelMap, TypeOK, ensureHeavyEx

\* A transaction that has nothing keeps the invariant.
LEMMA NewInv ==
  ASSUME TypeOK, NEW t \in Thread, tx[t] = NewTransaction
  PROVE  ThreadInv(t)
<1>1. Relabelled(t) = {}
  BY DEF Relabelled, NewTransaction, NoLabels
<1>2. \A n \in Node : tx[t].labels[n] = NoLabels
  BY DEF NewTransaction, Id
<1>3. ChangesKeep(t)
  BY <1>2 DEF ChangesKeep, Keeps, NoLabels
<1> QED
  BY <1>1, <1>3 DEF ThreadInv, NewTransaction, InUseOrNot, SwapsKnown, ImageFresh, AddsKept

LEMMA NewType == NewTransaction \in Transaction
BY MapTypes DEF NewTransaction, Transaction, NoLabels

(* A step that changes one transaction and not the store keeps the         *)
(* invariant if that transaction does.                                     *)
LEMMA LocalStep ==
  ASSUME IInv, NEW t \in Thread,
         UNCHANGED <<inUse, stored>>, strayed \subseteq strayed', strayed' \subseteq Node,
         cursor' \in [Thread -> LabelMap],
         tx' \in [Thread -> Transaction],
         \A u \in Thread \ {t} : tx'[u] = tx[u],
         \A u \in Thread \ {t} : Apart(t, u)',
         ThreadInv(t)'
  PROVE  IInv'
<1>1. TypeOK'
  BY DEF IInv, TypeOK
<1>2. ASSUME NEW u \in Thread, u # t PROVE ThreadInv(u)'
  <2>1. tx'[u] = tx[u] /\ ThreadInv(u)
    BY <1>2 DEF IInv
  <2>2. Relabelled(u)' = Relabelled(u) /\ Touched(u)' = Touched(u)
    BY <2>1 DEF Touched, Relabelled
  <2>3. \A n \in Id : Image(u, n)' = Image(u, n)
    BY <2>1 DEF Image, Merged
  <2>4. Touched(u) \subseteq Id
    BY <2>1 DEF IInv, TypeOK, Transaction, Touched, Relabelled, Id
  <2>5. InUseOrNot(u)' /\ SwapsKnown(u)' /\ AddsKept(u)'
    BY <2>1, <2>2 DEF ThreadInv, InUseOrNot, SwapsKnown, AddsKept
  <2>6. ImageFresh(u)'
    BY <2>1, <2>2, <2>3, <2>4 DEF ThreadInv, ImageFresh
  <2>7. ChangesKeep(u)'
    BY <2>1 DEF ThreadInv, ChangesKeep
  <2> QED
    BY <2>5, <2>6, <2>7 DEF ThreadInv
<1>3. \A u \in Thread : ThreadInv(u)'
  BY <1>2
<1>4. ASSUME NEW u \in Thread, NEW w \in Thread, u # w PROVE Apart(u, w)'
  BY <1>4 DEF IInv, Apart
<1>5. \A n \in Node \ inUse' : stored'[n] = NoLabels
  BY DEF IInv
<1> QED
  BY <1>1, <1>3, <1>4, <1>5 DEF IInv

-----------------------------------------------------------------------------
(* The operations. *)

LEMMA CreateStep ==
  ASSUME IInv, NEW t \in Thread, NEW n \in Node, NEW labels \in SUBSET Label,
         NEW ver \in TxVersion, NodeCreate(t, n, labels, ver)
  PROVE  IInv'
<1> DEFINE new == [l \in Id |-> IF l \in labels THEN ver ELSE tx[t].labels[n][l]]
<1>0. TypeOK /\ tx[t] \in Transaction /\ n \in Id /\ ver \in Stamp /\ NoLabels \in LabelMap
  BY StampsAssumption, MapTypes DEF IInv, TypeOK, Id
<1>1. new \in LabelMap
  BY <1>0 DEF Transaction, LabelMap
<1>2. /\ tx' \in [Thread -> Transaction]
      /\ \A u \in Thread \ {t} : tx'[u] = tx[u]
      /\ tx'[t].applying = FALSE
      /\ tx'[t].created = tx[t].created \cup {n}
      /\ tx'[t].locks = tx[t].locks /\ tx'[t].swapped = tx[t].swapped
      /\ tx'[t].labels = [tx[t].labels EXCEPT ![n] = new]
      /\ tx'[t].asked = tx[t].asked \cup ({n} \X labels)
  <2> DEFINE after == [tx[t] EXCEPT !.created = @ \cup {n}, !.labels = [@ EXCEPT ![n] = new],
                                    !.asked = @ \cup ({n} \X labels)]
  <2>1. tx' = [tx EXCEPT ![t] = after] /\ tx[t].applying = FALSE
    BY <1>0 DEF NodeCreate, TypeOK, Transaction
  <2>2. [tx[t].labels EXCEPT ![n] = new] \in [Id -> LabelMap]
    BY <1>0, <1>1 DEF Transaction
  <2>3. after \in Transaction
    BY <1>0, <2>2 DEF Transaction
  <2>4. /\ after.applying = tx[t].applying /\ after.created = tx[t].created \cup {n}
        /\ after.locks = tx[t].locks /\ after.swapped = tx[t].swapped
        /\ after.labels = [tx[t].labels EXCEPT ![n] = new]
        /\ after.asked = tx[t].asked \cup ({n} \X labels)
    BY <1>0 DEF Transaction
  <2> HIDE DEF after
  <2> QED
    BY <1>0, <2>1, <2>3, <2>4 DEF TypeOK
<1>3. ThreadInv(t)
  BY DEF IInv
<1>4. InUseOrNot(t)'
  BY <1>2, <1>3 DEF ThreadInv, InUseOrNot, NodeCreate
<1>5. tx[t].labels \in [Id -> LabelMap] /\ Id = DOMAIN tx[t].labels
  BY <1>0 DEF Transaction
<1>6. \A m \in Id \ {n} : tx'[t].labels[m] = tx[t].labels[m]
  BY <1>2, <1>5
<1>7. tx'[t].labels[n] = new
  BY <1>0, <1>2, <1>5
<1>8. Relabelled(t)' \subseteq Relabelled(t) \cup {n}
  BY <1>6 DEF Relabelled
<1>9. \A l \in Id : tx[t].labels[n][l] # None => new[l] # None
  BY <1>0, NoneAssumption
<1>10. Relabelled(t) \subseteq Relabelled(t)'
  <2>1. ASSUME tx[t].labels[n] # NoLabels PROVE new # NoLabels
    <3>1. PICK l \in Id : tx[t].labels[n][l] # None
      BY <2>1, <1>0, <1>5 DEF LabelMap, NoLabels
    <3> QED
      BY <3>1, <1>9 DEF NoLabels
  <2> QED
    BY <1>6, <1>7, <2>1 DEF Relabelled
<1>11. SwapsKnown(t)'
  BY <1>2, <1>3, <1>8, <1>10 DEF ThreadInv, SwapsKnown
<1>12. ImageFresh(t)'
  BY <1>2 DEF ImageFresh
<1>13. n \notin inUse /\ stored[n] = NoLabels /\ UNCHANGED <<inUse, stored, cursor, strayed>>
  BY DEF NodeCreate, IInv
<1>14. ChangesKeep(t)'
  <2> SUFFICES ASSUME NEW m \in Node \ (strayed \cup tx[t].swapped)
               PROVE  Keeps(stored[m], tx'[t].labels[m])
    BY <1>2, <1>13 DEF ChangesKeep
  <2>1. CASE m = n
    BY <2>1, <1>13 DEF Keeps, NoLabels
  <2>2. CASE m # n
    BY <2>2, <1>3, <1>6 DEF ThreadInv, ChangesKeep, Id
  <2> QED
    BY <2>1, <2>2
<1>15. AddsKept(t)'
  <2> SUFFICES ASSUME NEW a \in tx[t].asked \cup ({n} \X labels)
               PROVE  \/ a[1] \in strayed
                      \/ tx'[t].labels[a[1]][a[2]] # None
                      \/ a[1] \in inUse /\ stored[a[1]][a[2]] # None
    BY <1>2, <1>13 DEF AddsKept
  <2>1. CASE a \in {n} \X labels
    <3>1. a[1] = n /\ a[2] \in labels /\ a[2] \in Id
      BY <2>1 DEF Id
    <3> QED
      BY <3>1, <1>7, <1>0, NoneAssumption
  <2>2. CASE a \in tx[t].asked
    <3>1. a[1] \in Id /\ a[2] \in Id
      BY <2>2, <1>0 DEF Transaction, Id
    <3> QED
      BY <2>2, <3>1, <1>3, <1>6, <1>7, <1>9 DEF ThreadInv, AddsKept
  <2> QED
    BY <2>1, <2>2
<1>16. \A u \in Thread \ {t} : Apart(t, u)'
  <2>1. \A u \in Thread : n \notin tx[u].created
    BY DEF NodeCreate
  <2> QED
    BY <1>2, <2>1 DEF IInv, Apart
<1>17. cursor' \in [Thread -> LabelMap] /\ strayed' \subseteq Node
  BY <1>13 DEF IInv, TypeOK
<1> HIDE DEF new
<1> QED
  BY <1>2, <1>4, <1>11, <1>12, <1>13, <1>14, <1>15, <1>16, <1>17, LocalStep DEF ThreadInv

\* What the cursor shows of a node whose record points to labels are these.
LEMMA CursorShows ==
  ASSUME IInv, NEW t \in Thread, NEW n \in Node, n \in inUse, NEW l \in Id
  PROVE  \/ ensureHeavyEx(t, n)[l] = stored[n][l]
         \/ stored[n][l] = None /\ (ensureHeavyEx(t, n)[l] # None => Foreign(t, n, l))
<1>1. stored[n] = NoLabels => stored[n][l] = None
  BY DEF NoLabels
<1> QED
  BY <1>1 DEF ensureHeavyEx, Foreign

LEMMA AddStep ==
  ASSUME IInv, NEW t \in Thread, NEW n \in Node, NEW l \in Label,
         NEW ver \in TxVersion, NodeAddLabel(t, n, l, ver)
  PROVE  IInv'
<1> DEFINE new == IF hasLabel(t, n, l) THEN tx[t].labels[n][l] ELSE ver
           asks == IF Foreign(t, n, l) THEN tx[t].asked ELSE tx[t].asked \cup {<<n, l>>}
<1>0. /\ TypeOK /\ tx[t] \in Transaction /\ n \in Id /\ l \in Id
      /\ ver \in Stamp /\ NoLabels \in LabelMap /\ ensureHeavyEx(t, n) \in LabelMap
  BY StampsAssumption, MapTypes DEF IInv, TypeOK, Id
<1>1. new \in Stamp \cup {None} /\ asks \in SUBSET (Node \X Label)
  BY <1>0 DEF Transaction, LabelMap
<1>2. Locked(t, n) \in SUBSET Node
  BY <1>0 DEF Locked, Transaction
<1>3. /\ tx' = [tx EXCEPT ![t].locks = Locked(t, n), ![t].asked = asks, ![t].labels[n][l] = new]
      /\ UNCHANGED <<inUse, stored, strayed>>
  BY <1>0 DEF NodeAddLabel
<1>3a. tx[t].applying = FALSE
  BY <1>0 DEF NodeAddLabel, Transaction
<1> HIDE DEF new, asks
<1>4. /\ tx' \in [Thread -> Transaction]
      /\ \A u \in Thread \ {t} : tx'[u] = tx[u]
      /\ tx'[t].applying = FALSE
      /\ tx'[t].created = tx[t].created
      /\ tx'[t].locks = Locked(t, n) /\ tx'[t].swapped = tx[t].swapped
      /\ tx'[t].labels = [tx[t].labels EXCEPT ![n][l] = new]
      /\ tx'[t].asked = asks
  <2> DEFINE changed == [tx[t].labels EXCEPT ![n][l] = new]
             after == [tx[t] EXCEPT !.locks = Locked(t, n), !.asked = asks, !.labels = changed]
  <2>1. tx' = [tx EXCEPT ![t] = after]
    BY <1>0, <1>3 DEF TypeOK, Transaction
  <2>0. ~tx[t].applying /\ tx \in [Thread -> Transaction]
    BY <1>0, <1>3a DEF TypeOK
  <2>2. changed \in [Id -> LabelMap]
    BY <1>0, <1>1 DEF Transaction, LabelMap
  <2>3. after \in Transaction
    BY <1>0, <1>1, <1>2, <2>2 DEF Transaction
  <2>4. /\ after.applying = tx[t].applying /\ after.created = tx[t].created
        /\ after.locks = Locked(t, n) /\ after.swapped = tx[t].swapped
        /\ after.labels = [tx[t].labels EXCEPT ![n][l] = new]
        /\ after.asked = asks
    BY <1>0 DEF Transaction
  <2> HIDE DEF after
  <2> QED
    BY <1>3a, <2>0, <2>1, <2>3, <2>4
<1>5. /\ \A m \in Id \ {n} : tx'[t].labels[m] = tx[t].labels[m]
      /\ \A k \in Id \ {l} : tx'[t].labels[n][k] = tx[t].labels[n][k]
      /\ tx'[t].labels[n][l] = new
  BY <1>0, <1>4 DEF Transaction, LabelMap
<1>6. tx[t].labels[n][l] # None => new = tx[t].labels[n][l]
  BY DEF new, hasLabel
<1>7. ThreadInv(t)
  BY DEF IInv
<1>8. \/ n \in tx[t].created /\ Locked(t, n) = tx[t].locks
      \/ /\ n \in inUse /\ n \notin tx[t].created /\ Locked(t, n) = tx[t].locks \cup {n}
         /\ \A u \in Thread \ {t} : n \notin tx[u].locks
  BY DEF NodeAddLabel, Exists, Lockable, Locked
<1>9. InUseOrNot(t)'
  BY <1>3, <1>4, <1>7, <1>8 DEF ThreadInv, InUseOrNot
<1>10. Relabelled(t) \subseteq Relabelled(t)' /\ Relabelled(t)' \subseteq Relabelled(t) \cup {n}
  <2>1. ASSUME tx[t].labels[n] # NoLabels PROVE tx'[t].labels[n] # NoLabels
    <3>1. PICK k \in Id : tx[t].labels[n][k] # None
      BY <2>1, <1>0 DEF Transaction, LabelMap, NoLabels
    <3> QED
      BY <3>1, <1>5, <1>6 DEF NoLabels
  <2> QED
    BY <1>5, <2>1 DEF Relabelled
<1>11. SwapsKnown(t)'
  BY <1>4, <1>7, <1>8, <1>10 DEF ThreadInv, SwapsKnown
<1>12. ImageFresh(t)'
  BY <1>4 DEF ImageFresh
<1>13. ChangesKeep(t)'
  <2> SUFFICES ASSUME NEW m \in Node \ (strayed \cup tx[t].swapped), NEW k \in Id,
                      stored[m][k] # None, tx'[t].labels[m][k] # None
               PROVE  /\ getStartVersion(tx'[t].labels[m][k]) = getStartVersion(stored[m][k])
                      /\ hasEndVersion(stored[m][k]) => tx'[t].labels[m][k] = stored[m][k]
    BY <1>3, <1>4 DEF ChangesKeep, Keeps
  <2>1. CASE m = n /\ k = l
    <3>1. n \in inUse
      BY <2>1 DEF IInv, NoLabels
    <3>2. hasLabel(t, n, l)
      BY <3>1, <2>1, <1>0, CursorShows DEF hasLabel
    <3> QED
      BY <2>1, <3>2, <1>5, <1>7 DEF new, ThreadInv, ChangesKeep, Keeps
  <2>2. CASE ~(m = n /\ k = l)
    <3>1. tx'[t].labels[m][k] = tx[t].labels[m][k]
      BY <2>2, <1>5 DEF Id
    <3> QED
      BY <3>1, <1>7 DEF ThreadInv, ChangesKeep, Keeps
  <2> QED
    BY <2>1, <2>2
<1>14. AddsKept(t)'
  <2> SUFFICES ASSUME NEW a \in asks
               PROVE  \/ a[1] \in strayed
                      \/ tx'[t].labels[a[1]][a[2]] # None
                      \/ a[1] \in inUse /\ stored[a[1]][a[2]] # None
    BY <1>3, <1>4 DEF AddsKept
  <2>1. CASE a \in tx[t].asked
    <3>1. a[1] \in Id /\ a[2] \in Id
      BY <2>1, <1>0 DEF Transaction, Id
    <3> QED
      BY <2>1, <3>1, <1>5, <1>6, <1>7 DEF ThreadInv, AddsKept
  <2>2. CASE a = <<n, l>> /\ ~Foreign(t, n, l)
    <3>1. new = None => n \in inUse /\ stored[n][l] # None
      BY <2>2, <1>0, NoneAssumption DEF new, hasLabel, ensureHeavyEx, Foreign
    <3> QED
      BY <2>2, <3>1, <1>5
  <2> QED
    BY <2>1, <2>2 DEF asks
<1>15. \A u \in Thread \ {t} : Apart(t, u)'
  BY <1>4, <1>8 DEF IInv, Apart
<1>16. cursor' \in [Thread -> LabelMap] /\ strayed' \subseteq Node
  BY <1>0 DEF NodeAddLabel, TypeOK
<1> QED
  BY <1>3, <1>4, <1>9, <1>11, <1>12, <1>13, <1>14, <1>15, <1>16, LocalStep DEF ThreadInv

\* What the removal of a label ends is a stamp, and ends with the same start.
LEMMA EndsStamp ==
  ASSUME IInv, NEW t \in Thread, NEW n \in Node, NEW l \in Label, NEW version \in EndVersion,
         versionLabels(t, n)[l] # None
  PROVE  LET old == versionLabels(t, n)[l]
             new == setEndVersion(version, old)
         IN  old \in Stamp /\ new \in Stamp /\ getStartVersion(new) = getStartVersion(old)
<1>0. /\ TypeOK /\ tx[t] \in Transaction /\ n \in Id /\ l \in Id
      /\ version \in Int /\ ensureHeavyEx(t, n) \in LabelMap
  BY EndsAssumption, MapTypes DEF IInv, TypeOK, Id
<1>1. versionLabels(t, n)[l] \in Stamp
  BY <1>0 DEF versionLabels, Merged, Transaction, LabelMap
<1> HIDE DEF versionLabels
<1> QED
  BY <1>0, <1>1, EndedAt

LEMMA RemoveStep ==
  ASSUME IInv, NEW t \in Thread, NEW n \in Node, NEW l \in Label,
         NEW version \in EndVersion, NodeRemoveLabel(t, n, l, version)
  PROVE  IInv'
<1> DEFINE old == versionLabels(t, n)[l]
           throws == old = None \/ (HasChanges(t) /\ ~HasState(t, n))
           ends == hasLabel(t, n, l) /\ ~throws /\ ~hasEndVersion(old)
           ended == setEndVersion(version, old)
           new == IF ends THEN ended ELSE tx[t].labels[l][n]
           swaps == IF ends /\ l # n THEN tx[t].swapped \cup {l} ELSE tx[t].swapped
<1>0. /\ TypeOK /\ tx[t] \in Transaction /\ n \in Id /\ l \in Id
      /\ NoLabels \in LabelMap /\ ensureHeavyEx(t, n) \in LabelMap
  BY MapTypes DEF IInv, TypeOK, Id
<1>1. ends => /\ old \in Stamp /\ ~hasEndVersion(old)
              /\ ended \in Stamp /\ getStartVersion(ended) = getStartVersion(old)
  BY EndsStamp
<1>2. tx' = [tx EXCEPT ![t].locks = Locked(t, n), ![t].labels[l][n] = new, ![t].swapped = swaps]
  BY <1>0 DEF NodeRemoveLabel
<1>3. /\ tx[t].applying = FALSE
      /\ UNCHANGED <<inUse, stored, strayed>>
      /\ cursor' = [cursor EXCEPT ![t] = ensureHeavyEx(t, n)]
  BY <1>0 DEF NodeRemoveLabel, Transaction
<1>4. \/ n \in tx[t].created /\ Locked(t, n) = tx[t].locks
      \/ /\ n \in inUse /\ n \notin tx[t].created /\ Locked(t, n) = tx[t].locks \cup {n}
         /\ \A u \in Thread \ {t} : n \notin tx[u].locks
  BY DEF NodeRemoveLabel, Exists, Lockable, Locked
<1>5. new \in Stamp \cup {None} /\ swaps \in SUBSET Id /\ Locked(t, n) \in SUBSET Node
  BY <1>0, <1>1, <1>4 DEF Transaction, LabelMap
<1>6. /\ tx[t].labels[l][n] # None => new # None
      /\ ends => new = ended /\ new # None
      /\ ~ends => new = tx[t].labels[l][n] /\ swaps = tx[t].swapped
      /\ tx[t].swapped \subseteq swaps /\ swaps \subseteq tx[t].swapped \cup {l}
      /\ ends /\ l # n => l \in swaps
      /\ l \in swaps => l \in tx[t].swapped \/ (ends /\ l # n)
  BY <1>1, NoneAssumption
<1>7. ends /\ l = n => old = versionLabels(t, n)[n]
  OBVIOUS
<1> HIDE DEF new, swaps, ends, ended, old
<1>8. /\ tx' \in [Thread -> Transaction]
      /\ \A u \in Thread \ {t} : tx'[u] = tx[u]
      /\ tx'[t].applying = FALSE
      /\ tx'[t].created = tx[t].created /\ tx'[t].asked = tx[t].asked
      /\ tx'[t].locks = Locked(t, n) /\ tx'[t].swapped = swaps
      /\ tx'[t].labels = [tx[t].labels EXCEPT ![l][n] = new]
  <2> DEFINE changed == [tx[t].labels EXCEPT ![l][n] = new]
             after == [tx[t] EXCEPT !.locks = Locked(t, n), !.labels = changed, !.swapped = swaps]
  <2>1. tx' = [tx EXCEPT ![t] = after]
    BY <1>0, <1>2 DEF TypeOK, Transaction
  <2>0. ~tx[t].applying /\ tx \in [Thread -> Transaction]
    BY <1>0, <1>3 DEF TypeOK
  <2>2. changed \in [Id -> LabelMap]
    BY <1>0, <1>5 DEF Transaction, LabelMap
  <2>3. after \in Transaction
    BY <1>0, <1>5, <2>2 DEF Transaction
  <2>4. /\ after.applying = tx[t].applying /\ after.created = tx[t].created
        /\ after.locks = Locked(t, n) /\ after.swapped = swaps
        /\ after.labels = [tx[t].labels EXCEPT ![l][n] = new]
        /\ after.asked = tx[t].asked
    BY <1>0 DEF Transaction
  <2> HIDE DEF after
  <2> QED
    BY <1>3, <2>0, <2>1, <2>3, <2>4
<1>9. /\ \A m \in Id \ {l} : tx'[t].labels[m] = tx[t].labels[m]
      /\ \A k \in Id \ {n} : tx'[t].labels[l][k] = tx[t].labels[l][k]
      /\ tx'[t].labels[l][n] = new
  BY <1>0, <1>8 DEF Transaction, LabelMap
<1>10. ThreadInv(t)
  BY DEF IInv
<1>11. InUseOrNot(t)'
  BY <1>3, <1>4, <1>8, <1>10 DEF ThreadInv, InUseOrNot
<1>12. /\ Relabelled(t) \subseteq Relabelled(t)'
       /\ ends => l \in Relabelled(t)' /\ Relabelled(t)' \subseteq Relabelled(t) \cup {l}
       /\ ~ends => Relabelled(t)' \subseteq Relabelled(t)
  <2>1. ASSUME tx[t].labels[l] # NoLabels PROVE tx'[t].labels[l] # NoLabels
    <3>1. PICK k \in Id : tx[t].labels[l][k] # None
      BY <2>1, <1>0 DEF Transaction, LabelMap, NoLabels
    <3> QED
      BY <3>1, <1>6, <1>9 DEF NoLabels
  <2>2. ends => tx'[t].labels[l] # NoLabels
    BY <1>0, <1>6, <1>9 DEF NoLabels
  <2>3. ASSUME ~ends PROVE tx'[t].labels[l] = tx[t].labels[l]
    <3>0. tx[t].labels \in [Id -> LabelMap] /\ tx'[t].labels \in [Id -> LabelMap]
      <4>1. tx[t] \in Transaction /\ tx'[t] \in Transaction
        BY <1>0, <1>8
      <4> QED
        BY <4>1 DEF Transaction
    <3>1. tx[t].labels[l] \in LabelMap /\ tx'[t].labels[l] \in LabelMap
      BY <1>0, <3>0
    <3>2. new = tx[t].labels[l][n]
      BY <2>3, <1>6
    <3>3. \A k \in Id : tx'[t].labels[l][k] = tx[t].labels[l][k]
      BY <1>9, <3>2
    <3> QED
      BY <3>1, <3>3 DEF LabelMap
  <2> QED
    BY <1>0, <1>9, <2>1, <2>2, <2>3 DEF Relabelled
<1>13. SwapsKnown(t)'
  BY <1>4, <1>6, <1>8, <1>10, <1>12 DEF ThreadInv, SwapsKnown
<1>14. ImageFresh(t)'
  BY <1>8 DEF ImageFresh
<1>15. ChangesKeep(t)'
  <2> SUFFICES ASSUME NEW m \in Node \ (strayed \cup swaps), NEW k \in Id,
                      stored[m][k] # None, tx'[t].labels[m][k] # None
               PROVE  /\ getStartVersion(tx'[t].labels[m][k]) = getStartVersion(stored[m][k])
                      /\ hasEndVersion(stored[m][k]) => tx'[t].labels[m][k] = stored[m][k]
    BY <1>3, <1>8 DEF ChangesKeep, Keeps
  <2>0. m \notin tx[t].swapped /\ m \in Id
    BY <1>6 DEF Id
  <2>1. CASE m = l /\ k = n /\ ends
    <3>1. l = n
      BY <2>1, <1>6
    <3>2. n \in inUse /\ n \notin tx[t].created
      BY <2>1, <3>1, <1>10 DEF IInv, NoLabels, ThreadInv, InUseOrNot
    <3>3. ensureHeavyEx(t, n)[n] = stored[n][n]
      BY <2>1, <3>1, <3>2, <1>0, CursorShows
    <3>4. old = IF tx[t].labels[n][n] # None THEN tx[t].labels[n][n] ELSE stored[n][n]
      BY <2>1, <3>1, <3>2, <3>3, <1>0, <1>7 DEF versionLabels, Merged
    <3>5. getStartVersion(old) = getStartVersion(stored[n][n]) /\ ~hasEndVersion(stored[n][n])
      BY <2>0, <2>1, <3>1, <3>4, <1>1, <1>10 DEF ThreadInv, ChangesKeep, Keeps
    <3> QED
      BY <2>1, <3>1, <3>5, <1>1, <1>6, <1>9
  <2>2. CASE ~(m = l /\ k = n /\ ends)
    <3>1. tx'[t].labels[m][k] = tx[t].labels[m][k]
      BY <2>0, <2>2, <1>6, <1>9
    <3> QED
      BY <2>0, <3>1, <1>10 DEF ThreadInv, ChangesKeep, Keeps
  <2> QED
    BY <2>1, <2>2
<1>16. AddsKept(t)'
  <2> SUFFICES ASSUME NEW a \in tx[t].asked
               PROVE  \/ a[1] \in strayed
                      \/ tx'[t].labels[a[1]][a[2]] # None
                      \/ a[1] \in inUse /\ stored[a[1]][a[2]] # None
    BY <1>3, <1>8 DEF AddsKept
  <2>1. a[1] \in Id /\ a[2] \in Id
    BY <1>0 DEF Transaction, Id
  <2> QED
    BY <2>1, <1>6, <1>9, <1>10 DEF ThreadInv, AddsKept
<1>17. \A u \in Thread \ {t} : Apart(t, u)'
  BY <1>4, <1>8 DEF IInv, Apart
<1>18. cursor' \in [Thread -> LabelMap] /\ strayed' \subseteq Node
  BY <1>0, <1>3 DEF TypeOK
<1> QED
  BY <1>3, <1>8, <1>11, <1>13, <1>14, <1>15, <1>16, <1>17, <1>18, LocalStep DEF ThreadInv

-----------------------------------------------------------------------------
(* Commit and rollback. *)

LEMMA CommitStep ==
  ASSUME IInv, NEW t \in Thread, Commit(t)
  PROVE  IInv'
<1> DEFINE images == [n \in Id |-> IF n \in Touched(t) THEN Image(t, n) ELSE tx[t].image[n]]
<1>0. TypeOK /\ tx[t] \in Transaction /\ ThreadInv(t)
  BY DEF IInv, TypeOK
<1>1. Touched(t) \subseteq inUse \cup tx[t].created /\ Touched(t) \subseteq Node
  BY <1>0 DEF Commit, Exists, TypeOK, Transaction
<1>2. \A n \in Touched(t) : Image(t, n) \in LabelMap
  BY <1>0, <1>1 DEF Image, Merged, TypeOK, Transaction, LabelMap, Id
<1>3. images \in [Id -> LabelMap]
  BY <1>0, <1>2 DEF Transaction
<1>4. /\ tx' = [tx EXCEPT ![t].applying = TRUE, ![t].image = images]
      /\ strayed' = strayed \cup tx[t].swapped
      /\ UNCHANGED <<inUse, stored, cursor>>
  BY <1>0 DEF Commit, TypeOK, Transaction
<1>5. \A n \in Touched(t) : images[n] = Image(t, n)
  BY <1>1 DEF Id
<1> HIDE DEF images
<1>6. /\ tx' \in [Thread -> Transaction]
      /\ \A u \in Thread \ {t} : tx'[u] = tx[u]
      /\ tx'[t].applying = TRUE /\ tx'[t].image = images
      /\ tx'[t].created = tx[t].created /\ tx'[t].asked = tx[t].asked
      /\ tx'[t].locks = tx[t].locks /\ tx'[t].swapped = tx[t].swapped
      /\ tx'[t].labels = tx[t].labels
  <2> DEFINE after == [tx[t] EXCEPT !.applying = TRUE, !.image = images]
  <2>1. tx' = [tx EXCEPT ![t] = after] /\ tx \in [Thread -> Transaction]
    BY <1>0, <1>4 DEF TypeOK, Transaction
  <2>2. after \in Transaction
    BY <1>0, <1>3 DEF Transaction
  <2> QED
    BY <1>0, <2>1, <2>2 DEF Transaction
<1>7. Relabelled(t)' = Relabelled(t) /\ Touched(t)' = Touched(t)
  BY <1>6 DEF Touched, Relabelled
<1>8. \A n \in Touched(t) : Image(t, n)' = Image(t, n)
  BY <1>4, <1>6 DEF Image, Merged
<1>9. ThreadInv(t)'
  <2>1. InUseOrNot(t)' /\ AddsKept(t)' /\ SwapsKnown(t)' /\ ChangesKeep(t)'
    BY <1>0, <1>4, <1>6, <1>7
    DEF ThreadInv, InUseOrNot, AddsKept, SwapsKnown, ChangesKeep
  <2>2. ImageFresh(t)'
    BY <1>1, <1>4, <1>5, <1>6, <1>7, <1>8 DEF ImageFresh
  <2> QED
    BY <2>1, <2>2 DEF ThreadInv
<1>10. strayed' \subseteq Node
  BY <1>0, <1>1, <1>4 DEF ThreadInv, SwapsKnown, Touched, TypeOK
<1>11. \A u \in Thread \ {t} : Apart(t, u)'
  BY <1>6 DEF IInv, Apart
<1> QED
  BY <1>0, <1>4, <1>6, <1>9, <1>10, <1>11, LocalStep DEF TypeOK

LEMMA EndStep ==
  ASSUME IInv, NEW t \in Thread, Applied(t) \/ Rollback(t)
  PROVE  IInv'
<1>0. TypeOK
  BY DEF IInv
<1>1. /\ tx' = [tx EXCEPT ![t] = NewTransaction]
      /\ UNCHANGED <<inUse, stored, cursor, strayed>>
  BY DEF Applied, Rollback
<1>2. /\ tx' \in [Thread -> Transaction]
      /\ \A u \in Thread \ {t} : tx'[u] = tx[u]
      /\ tx'[t] = NewTransaction
  BY <1>0, <1>1, NewType DEF TypeOK
<1>3. TypeOK'
  BY <1>0, <1>1, <1>2 DEF TypeOK
<1>4. ThreadInv(t)'
  <2>1. Relabelled(t)' = {}
    BY <1>2 DEF Relabelled, NewTransaction, NoLabels
  <2>2. \A n \in Node : tx'[t].labels[n] = NoLabels
    BY <1>2 DEF NewTransaction, Id
  <2>3. ChangesKeep(t)'
    BY <1>1, <2>2 DEF ChangesKeep, Keeps, NoLabels
  <2> QED
    BY <1>2, <2>1, <2>3
    DEF ThreadInv, NewTransaction, InUseOrNot, SwapsKnown, ImageFresh, AddsKept
<1>5. \A u \in Thread \ {t} : Apart(t, u)'
  BY <1>2 DEF Apart, NewTransaction
<1> QED
  BY <1>0, <1>1, <1>2, <1>4, <1>5, LocalStep DEF TypeOK

\* A node that a commit writes has no changes of another transaction, unless
\* they were meant for another node.
LEMMA Exclusive ==
  ASSUME IInv, NEW t \in Thread, NEW u \in Thread, t # u, tx[t].applying,
         NEW n \in Touched(t), n \notin strayed
  PROVE  /\ n \notin tx[u].created /\ n \notin tx[t].swapped
         /\ n \in Relabelled(u) => n \in tx[u].swapped
<1>1. ThreadInv(t) /\ ThreadInv(u) /\ Apart(t, u)
  BY DEF IInv
<1>2. n \in tx[t].locks \cup tx[t].created /\ n \notin tx[t].swapped
  BY <1>1 DEF ThreadInv, SwapsKnown, Touched
<1> QED
  BY <1>1, <1>2 DEF ThreadInv, SwapsKnown, InUseOrNot, Apart

LEMMA ApplyStep ==
  ASSUME IInv, NEW t \in Thread, NEW n \in Node, Apply(t, n)
  PROVE  IInv'
<1>0. /\ TypeOK /\ tx[t] \in Transaction /\ n \in Id /\ NoLabels \in LabelMap
      /\ ThreadInv(t) /\ tx[t].applying /\ n \in Touched(t)
  BY MapTypes DEF IInv, TypeOK, Id, Apply
<1>1. /\ stored' = [stored EXCEPT ![n] = tx[t].image[n]]
      /\ inUse' = inUse \cup {n}
      /\ UNCHANGED <<cursor, strayed>>
  BY DEF Apply
<1>2. /\ tx' \in [Thread -> Transaction]
      /\ \A u \in Thread \ {t} : tx'[u] = tx[u]
      /\ tx'[t].applying = tx[t].applying /\ tx'[t].locks = tx[t].locks
      /\ tx'[t].created = tx[t].created \ {n} /\ tx'[t].swapped = tx[t].swapped \ {n}
      /\ tx'[t].labels = [tx[t].labels EXCEPT ![n] = NoLabels]
      /\ tx'[t].image = [tx[t].image EXCEPT ![n] = NoLabels]
      /\ tx'[t].asked = {a \in tx[t].asked : a[1] # n}
  <2> DEFINE after == [tx[t] EXCEPT !.created = @ \ {n}, !.labels = [@ EXCEPT ![n] = NoLabels],
                                    !.image = [@ EXCEPT ![n] = NoLabels],
                                    !.asked = {a \in @ : a[1] # n}, !.swapped = @ \ {n}]
  <2>1. tx' = [tx EXCEPT ![t] = after] /\ tx \in [Thread -> Transaction]
    BY <1>0 DEF Apply, TypeOK, Transaction
  <2>2. /\ [tx[t].labels EXCEPT ![n] = NoLabels] \in [Id -> LabelMap]
        /\ [tx[t].image EXCEPT ![n] = NoLabels] \in [Id -> LabelMap]
    BY <1>0 DEF Transaction
  <2>3. after \in Transaction
    BY <1>0, <2>2 DEF Transaction
  <2>4. /\ after.applying = tx[t].applying /\ after.locks = tx[t].locks
        /\ after.created = tx[t].created \ {n} /\ after.swapped = tx[t].swapped \ {n}
        /\ after.labels = [tx[t].labels EXCEPT ![n] = NoLabels]
        /\ after.image = [tx[t].image EXCEPT ![n] = NoLabels]
        /\ after.asked = {a \in tx[t].asked : a[1] # n}
    BY <1>0 DEF Transaction
  <2> HIDE DEF after
  <2> QED
    BY <2>1, <2>3, <2>4
<1>3. /\ \A m \in Id \ {n} : /\ tx'[t].labels[m] = tx[t].labels[m]
                             /\ tx'[t].image[m] = tx[t].image[m]
      /\ tx'[t].labels[n] = NoLabels
      /\ \A m \in Node \ {n} : stored'[m] = stored[m]
      /\ stored'[n] = tx[t].image[n]
  BY <1>0, <1>1, <1>2 DEF TypeOK, Transaction
<1>4. n \in inUse \cup tx[t].created
  BY <1>0 DEF ThreadInv, ImageFresh
<1>5. TypeOK'
  BY <1>0, <1>1, <1>2 DEF TypeOK, Transaction
<1>6. \A m \in Node \ inUse' : stored'[m] = NoLabels
  BY <1>1, <1>3 DEF IInv
<1>7. ASSUME NEW u \in Thread, NEW w \in Thread, u # w PROVE Apart(u, w)'
  BY <1>2, <1>7 DEF IInv, Apart
<1>8. Relabelled(t)' = Relabelled(t) \ {n} /\ Touched(t)' = Touched(t) \ {n}
  <2>1. Relabelled(t)' = Relabelled(t) \ {n}
    BY <1>3 DEF Relabelled
  <2> QED
    BY <1>2, <2>1 DEF Touched
<1>9. Touched(t) \subseteq Node
  BY <1>0 DEF ThreadInv, ImageFresh, TypeOK, Transaction
<1>10. ThreadInv(t)'
  <2>1. InUseOrNot(t)' /\ SwapsKnown(t)'
    BY <1>0, <1>1, <1>2, <1>8 DEF ThreadInv, InUseOrNot, SwapsKnown
  <2>2. \A m \in Touched(t) \ {n} : Image(t, m)' = Image(t, m)
    BY <1>2, <1>3, <1>9 DEF Image, Merged, Id
  <2>3. ImageFresh(t)'
    BY <1>0, <1>1, <1>2, <1>3, <1>8, <1>9, <2>2 DEF ThreadInv, ImageFresh, Id
  <2>4. ChangesKeep(t)'
    <3> SUFFICES ASSUME NEW m \in Node \ (strayed \cup (tx[t].swapped \ {n}))
                 PROVE  Keeps(stored'[m], tx'[t].labels[m])
      BY <1>1, <1>2 DEF ChangesKeep
    <3>1. CASE m = n
      BY <3>1, <1>3 DEF Keeps, NoLabels
    <3>2. CASE m # n
      BY <3>2, <1>0, <1>3 DEF ThreadInv, ChangesKeep, Id
    <3> QED
      BY <3>1, <3>2
  <2>5. AddsKept(t)'
    <3> SUFFICES ASSUME NEW a \in tx[t].asked, a[1] # n
                 PROVE  \/ a[1] \in strayed
                        \/ tx'[t].labels[a[1]][a[2]] # None
                        \/ a[1] \in inUse' /\ stored'[a[1]][a[2]] # None
      BY <1>1, <1>2 DEF AddsKept
    <3>1. a[1] \in Node /\ a[1] \in Id
      BY <1>0 DEF Transaction, Id
    <3> QED
      BY <3>1, <1>0, <1>1, <1>3 DEF ThreadInv, AddsKept
  <2> QED
    BY <2>1, <2>3, <2>4, <2>5 DEF ThreadInv
<1>11. ASSUME NEW u \in Thread, u # t PROVE ThreadInv(u)'
  <2>1. tx'[u] = tx[u] /\ ThreadInv(u) /\ tx[u] \in Transaction
    BY <1>0, <1>2, <1>11 DEF IInv, TypeOK
  <2>2. Relabelled(u)' = Relabelled(u) /\ Touched(u)' = Touched(u)
    BY <2>1 DEF Touched, Relabelled
  <2>3. n \notin strayed => /\ n \notin tx[u].created
                            /\ n \in Relabelled(u) => n \in tx[u].swapped
    BY <1>0, <1>11, Exclusive
  <2>4. InUseOrNot(u)'
    BY <1>1, <1>4, <1>11, <2>1 DEF ThreadInv, InUseOrNot, IInv, Apart
  <2>5. SwapsKnown(u)'
    BY <1>1, <2>1, <2>2 DEF ThreadInv, SwapsKnown
  <2>6. ImageFresh(u)'
    <3> SUFFICES ASSUME tx[u].applying
                 PROVE  /\ Touched(u) \subseteq inUse' \cup tx[u].created
                        /\ \A m \in Touched(u) \ strayed : tx[u].image[m] = Image(u, m)'
      BY <1>1, <2>1, <2>2 DEF ImageFresh
    <3>1. Touched(u) \subseteq inUse \cup tx[u].created /\ Touched(u) \subseteq Node
      BY <1>0, <2>1 DEF ThreadInv, ImageFresh, TypeOK, Transaction
    <3>2. n \in Touched(u) => n \in strayed
      BY <2>1, <2>3 DEF ThreadInv, SwapsKnown, Touched
    <3>3. \A m \in Touched(u) \ strayed : Image(u, m)' = Image(u, m)
      BY <1>3, <2>1, <3>1, <3>2 DEF Image, Merged
    <3> QED
      BY <1>1, <2>1, <3>1, <3>3 DEF ThreadInv, ImageFresh
  <2>7. ChangesKeep(u)'
    <3> SUFFICES ASSUME NEW m \in Node \ (strayed \cup tx[u].swapped)
                 PROVE  Keeps(stored'[m], tx[u].labels[m])
      BY <1>1, <2>1 DEF ChangesKeep
    <3>1. CASE m = n
      <4>1. tx[u].labels[n] = NoLabels
        BY <1>0, <2>3, <3>1 DEF Relabelled
      <4> QED
        BY <3>1, <4>1 DEF Keeps, NoLabels
    <3>2. CASE m # n
      BY <3>2, <1>3, <2>1 DEF ThreadInv, ChangesKeep
    <3> QED
      BY <3>1, <3>2
  <2>8. AddsKept(u)'
    <3> SUFFICES ASSUME NEW a \in tx[u].asked
                 PROVE  \/ a[1] \in strayed
                        \/ tx[u].labels[a[1]][a[2]] # None
                        \/ a[1] \in inUse' /\ stored'[a[1]][a[2]] # None
      BY <1>1, <2>1 DEF AddsKept
    <3>1. a[1] \in Node /\ a[2] \in Id
      BY <2>1 DEF Transaction, Id
    <3>2. \/ a[1] \in strayed
          \/ tx[u].labels[a[1]][a[2]] # None
          \/ a[1] \in inUse /\ stored[a[1]][a[2]] # None
      BY <2>1 DEF ThreadInv, AddsKept
    <3>3. CASE a[1] = n /\ n \notin strayed /\ n \in inUse /\ stored[n][a[2]] # None
      <4>1. n \notin tx[t].created
        BY <1>0, <3>3 DEF ThreadInv, InUseOrNot
      <4>2. tx[t].image[n] = Image(t, n)
        BY <1>0, <3>3 DEF ThreadInv, ImageFresh
      <4>3. tx[t].image[n][a[2]] # None
        BY <3>1, <3>3, <4>1, <4>2 DEF Image, Merged
      <4> QED
        BY <1>1, <1>3, <3>3, <4>3
    <3>4. CASE a[1] # n
      BY <1>1, <1>3, <3>1, <3>2, <3>4
    <3> QED
      BY <3>2, <3>3, <3>4
  <2> QED
    BY <2>4, <2>5, <2>6, <2>7, <2>8 DEF ThreadInv
<1>12. \A u \in Thread : ThreadInv(u)'
  BY <1>10, <1>11
<1> QED
  BY <1>5, <1>6, <1>7, <1>12 DEF IInv

-----------------------------------------------------------------------------
(* The theorems. *)

LEMMA InitIInv == Init => IInv
<1> SUFFICES ASSUME Init PROVE IInv
  OBVIOUS
<1>1. TypeOK
  BY MapTypes, NewType DEF Init, TypeOK
<1>2. \A t \in Thread : tx[t] = NewTransaction
  BY DEF Init
<1>3. \A t \in Thread : ThreadInv(t)
  BY <1>1, <1>2, NewInv
<1>4. \A n \in Node \ inUse : stored[n] = NoLabels
  BY DEF Init
<1>5. \A t, u \in Thread : t # u => Apart(t, u)
  BY <1>2 DEF Apart, NewTransaction
<1> QED
  BY <1>1, <1>3, <1>4, <1>5 DEF IInv

LEMMA NextIInv == IInv /\ [Next]_vars => IInv'
<1> SUFFICES ASSUME IInv, [Next]_vars PROVE IInv'
  OBVIOUS
<1>1. CASE UNCHANGED vars
  <2>1. UNCHANGED <<inUse, stored, tx, cursor, strayed>>
    BY <1>1 DEF vars
  <2> QED
    BY <2>1 DEF IInv, TypeOK, Apart, ThreadInv, InUseOrNot, SwapsKnown, ImageFresh,
      ChangesKeep, AddsKept, Touched, Relabelled, Image, Merged
<1>2. ASSUME NEW t \in Thread, NEW n \in Node, NEW labels \in SUBSET Label,
             NEW ver \in TxVersion, NodeCreate(t, n, labels, ver)
      PROVE  IInv'
  BY <1>2, CreateStep
<1>3. ASSUME NEW t \in Thread, NEW n \in Node, NEW l \in Label,
             \/ \E ver \in TxVersion : NodeAddLabel(t, n, l, ver)
             \/ \E version \in EndVersion : NodeRemoveLabel(t, n, l, version)
      PROVE  IInv'
  BY <1>3, AddStep, RemoveStep
<1>4. ASSUME NEW t \in Thread, Commit(t) \/ Applied(t) \/ Rollback(t) PROVE IInv'
  BY <1>4, CommitStep, EndStep
<1>5. ASSUME NEW t \in Thread, NEW n \in Node, Apply(t, n) PROVE IInv'
  BY <1>5, ApplyStep
<1> QED
  BY <1>1, <1>2, <1>3, <1>4, <1>5 DEF Next

LEMMA Invariance == Spec => []IInv
BY InitIInv, NextIInv, PTL DEF Spec

(* The labels of nodes are of the types the module gives them; above all,  *)
(* only nodes are changed for another one, never what is no node.          *)
THEOREM TypeCorrect == Spec => []TypeOK
<1>1. IInv => TypeOK
  BY DEF IInv
<1> QED
  BY <1>1, Invariance, PTL

(* A label that a transaction was to add stays in its changes until it is  *)
(* in the record of the node.                                              *)
THEOREM NoAddLost == Spec => []AddsNotLost
<1>1. IInv => AddsNotLost
  BY DEF IInv, ThreadInv, AddsKept, AddsNotLost
<1> QED
  BY <1>1, Invariance, PTL

(* Commits that write whole maps take no label from a node and move no     *)
(* start and no end of one, whatever the versions of the operations.       *)
THEOREM Kept == Spec => LabelsKept
<1> DEFINE Keeping == \A n \in Node, l \in Id : n \notin strayed /\ stored[n][l] # None =>
                        /\ stored'[n][l] # None
                        /\ getStartVersion(stored'[n][l]) = getStartVersion(stored[n][l])
                        /\ hasEndVersion(stored[n][l]) => stored'[n][l] = stored[n][l]
<1>1. IInv /\ [Next]_vars => Keeping
  <2> SUFFICES ASSUME IInv, [Next]_vars PROVE Keeping
    OBVIOUS
  <2>1. CASE UNCHANGED stored
    BY <2>1
  <2>2. ASSUME NEW t \in Thread, NEW n \in Node, Apply(t, n) PROVE Keeping
    <3> SUFFICES ASSUME NEW m \in Node, NEW l \in Id, m \notin strayed, stored[m][l] # None
                 PROVE  /\ stored'[m][l] # None
                        /\ getStartVersion(stored'[m][l]) = getStartVersion(stored[m][l])
                        /\ hasEndVersion(stored[m][l]) => stored'[m][l] = stored[m][l]
      OBVIOUS
    <3>1. /\ stored' = [stored EXCEPT ![n] = tx[t].image[n]] /\ stored \in [Node -> LabelMap]
          /\ tx[t].applying /\ n \in Touched(t) /\ ThreadInv(t)
      BY <2>2 DEF Apply, IInv, TypeOK
    <3>2. CASE m # n
      BY <3>1, <3>2
    <3>3. CASE m = n
      <4>1. n \in inUse /\ n \notin tx[t].created
        BY <3>1, <3>3 DEF IInv, NoLabels, ThreadInv, InUseOrNot
      <4>2. stored'[n] = Merged(stored[n], tx[t].labels[n])
        BY <3>1, <3>3, <4>1 DEF ThreadInv, ImageFresh, Image
      <4>3. n \notin tx[t].swapped
        BY <3>1, <3>3 DEF ThreadInv, SwapsKnown
      <4>4. Keeps(stored[n], tx[t].labels[n])
        BY <3>1, <3>3, <4>3 DEF ThreadInv, ChangesKeep
      <4> QED
        BY <3>3, <4>2, <4>4 DEF Merged, Keeps
    <3> QED
      BY <3>2, <3>3
  <2>3. \/ UNCHANGED stored
        \/ \E t \in Thread, n \in Node : Apply(t, n)
    <3>1. ASSUME NEW t \in Thread, NEW n \in Node, NEW labels \in SUBSET Label,
                 NEW ver \in TxVersion, NodeCreate(t, n, labels, ver)
          PROVE  UNCHANGED stored
      BY <3>1 DEF NodeCreate
    <3>2. ASSUME NEW t \in Thread, NEW n \in Node, NEW l \in Label,
                 \/ \E ver \in TxVersion : NodeAddLabel(t, n, l, ver)
                 \/ \E version \in EndVersion : NodeRemoveLabel(t, n, l, version)
          PROVE  UNCHANGED stored
      BY <3>2 DEF NodeAddLabel, NodeRemoveLabel
    <3>3. ASSUME NEW t \in Thread, Commit(t) \/ Applied(t) \/ Rollback(t)
          PROVE  UNCHANGED stored
      BY <3>3 DEF Commit, Applied, Rollback
    <3>4. UNCHANGED vars => UNCHANGED stored
      BY DEF vars
    <3> QED
      BY <3>1, <3>2, <3>3, <3>4 DEF Next
  <2> QED
    BY <2>1, <2>2, <2>3
<1> QED
  BY <1>1, Invariance, PTL DEF Spec, LabelsKept
===============================================================================
