------------------------- MODULE EntityVersions_proofs -------------------------
(***************************************************************************)
(* Proofs about the stamps of nodes and relationships, for any number of   *)
(* threads, nodes and relationships and for all versions.                  *)
(*                                                                         *)
(* A relationship is not locked itself when its node is detached, so what  *)
(* keeps two transactions apart are the nodes at its ends.  The invariant  *)
(* says which ids and locks a transaction has for what it has touched, and *)
(* that the ends of a relationship in use are in use or about to be.       *)
(***************************************************************************)
EXTENDS EntityVersions, VersionScans_proofs

\* Of the state of one transaction.
StampedBy(s) == {e \in Entity : s.stamp[e] # Nothing}
TouchedBy(s) == s.created \cup s.removed \cup StampedBy(s)

\* What is created is reserved and not in use, what is changed is in use.
Own(s) ==
  /\ s.created \subseteq s.reserved
  /\ \A e \in s.created : ~InUse(e)
  /\ ~s.applying => \A e \in s.reserved : ~InUse(e)
  /\ s.removed \cap s.created = {}
  /\ \A e \in TouchedBy(s) \ s.created : InUse(e)

\* A changed node is locked, and so are the nodes of a changed relationship.
Covered(s) ==
  \A e \in TouchedBy(s) \ s.created :
    /\ e \in Node => e \in s.locks
    /\ e \in Rel => Ends[e] \subseteq s.locks /\ (e \in s.locks \/ Ends[e] # {})

\* The ends of a new relationship stay where they are until it is written.
Attached(s) ==
  \A r \in s.created \cap Rel : \A n \in Ends[r] :
    /\ n \in s.locks \cup s.reserved
    /\ s.applying => n \notin s.removed /\ (n \in s.created \/ (n \in s.locks /\ InUse(n)))

\* A node is removed with its relationships.
Detached(s) ==
  \A n \in s.removed \cap Node, r \in Rel : n \in Ends[r] /\ InUse(r) => r \in s.removed

\* Up to the version it ends at, the new stamp shows what the old one does.
SamePast(old, new) ==
  \A v \in 0 .. getEndVersion(new) : InSingleVersion(old, v) <=> InSingleVersion(new, v)

KeepsPast(s) ==
  \A e \in StampedBy(s) \ (s.created \cup s.raced) : SamePast(record[e], s.stamp[e])

\* A deletion that waits for its locks has read a stamp.
Waiting(s) ==
  s.deleting # Nothing =>
    ~s.applying /\ (s.deleting \notin s.created => s.cursor \in Stamp)

TxInv(s) == Own(s) /\ Covered(s) /\ Attached(s) /\ Detached(s) /\ KeepsPast(s) /\ Waiting(s)

Apart(s, q) == s.locks \cap q.locks = {} /\ s.reserved \cap q.reserved = {}

ScanInv ==
  ~scan.disturbed => scan.seen \cup (scan.todo \cap Snapshot(scan.version)) = scan.snapshot

IInv ==
  /\ TypeOK
  /\ \A t \in Thread : TxInv(tx[t])
  /\ \A t, u \in Thread : t # u => Apart(tx[t], tx[u])
  /\ EndsInUse
  /\ ScanInv

-----------------------------------------------------------------------------
(* Stamps. *)

\* A deletion ends a stamp that has not ended, and keeps its past.
LEMMA EndingStamp ==
  ASSUME NEW old \in Stamp, NEW ver \in TxVersion, NEW pending \in Stamp \cup {Nothing},
         pending # Nothing => SamePast(old, pending)
  PROVE  /\ Ended(old, ver, pending) \in Stamp \cup {Nothing}
         /\ Ended(old, ver, pending) # Nothing => SamePast(old, Ended(old, ver, pending))
<1>1. CASE hasEndVersion(old)
  BY <1>1 DEF Ended
<1>2. CASE ~hasEndVersion(old)
  <2> DEFINE new == setEndVersion(getStartVersion(ver), old)
  <2>1. ver \in Stamp
    BY StampsAssumption
  <2>2. new \in Stamp /\ getEndVersion(new) = getStartVersion(ver)
    BY <2>1, EndedBy
  <2>3. SamePast(old, new)
    BY <1>2, <2>1, <2>2, EndingKeepsPast DEF SamePast
  <2> QED
    BY <1>2, <2>2, <2>3 DEF Ended
<1> QED
  BY <1>1, <1>2

LEMMA Sentinels == NotInUse \notin Stamp /\ Nothing \notin Stamp /\ Nothing \notin Rel
BY ValuesAssumption

-----------------------------------------------------------------------------
(* What a step has to show. *)

\* A transaction that has nothing keeps the invariant.
LEMMA NewInv == NewTransaction \in Transaction /\ TxInv(NewTransaction)
<1>1. NewTransaction \in Transaction
  BY DEF NewTransaction, Transaction
<1>2. StampedBy(NewTransaction) = {} /\ TouchedBy(NewTransaction) = {}
  BY DEF NewTransaction, StampedBy, TouchedBy
<1> QED
  BY <1>1, <1>2 DEF TxInv, NewTransaction, Own, Covered, Attached, Detached, KeepsPast, Waiting

(* A step of one transaction that leaves the store alone keeps the         *)
(* invariant if that transaction does, and takes what nobody else has.     *)
LEMMA OperationStep ==
  ASSUME IInv, NEW t \in Thread, NEW after \in Transaction,
         tx' = [tx EXCEPT ![t] = after], UNCHANGED <<record, scan>>,
         tx[t].applying => tx[t].created = {},
         TxInv(after),
         \A u \in Thread \ {t} : Apart(after, tx[u])
  PROVE  IInv'
<1>1. tx' \in [Thread -> Transaction] /\ tx'[t] = after /\ \A u \in Thread \ {t} : tx'[u] = tx[u]
  BY DEF IInv, TypeOK
<1>2. ASSUME NEW u \in Thread PROVE TxInv(tx[u])'
  <2>1. TxInv(tx'[u])
    BY <1>1 DEF IInv
  <2> QED
    BY <2>1 DEF TxInv, Own, Covered, Attached, Detached, KeepsPast, Waiting, InUse
<1>3. ASSUME NEW u \in Thread, NEW w \in Thread, u # w PROVE Apart(tx[u], tx[w])'
  BY <1>1, <1>3 DEF IInv, Apart
<1>4. EndsInUse'
  BY <1>1 DEF IInv, EndsInUse, InUse
<1>5. ScanInv'
  BY DEF IInv, ScanInv, Snapshot, InUse
<1>6. TypeOK'
  BY <1>1 DEF IInv, TypeOK
<1> QED
  BY <1>2, <1>3, <1>4, <1>5, <1>6 DEF IInv

\* What a transaction is without some entities.
LEMMA Forgotten ==
  ASSUME NEW s \in Transaction, NEW es \in SUBSET Entity
  PROVE  LET after == Forget(s, es) IN
         /\ after \in Transaction
         /\ after.applying = s.applying /\ after.reserved = s.reserved
         /\ after.created = s.created \ es /\ after.removed = s.removed
         /\ after.locks = s.locks /\ after.deleting = s.deleting
         /\ after.cursor = s.cursor /\ after.raced = s.raced
         /\ \A e \in Entity \ es : after.stamp[e] = s.stamp[e]
         /\ StampedBy(after) = StampedBy(s) \ es
<1> DEFINE stamps == [e \in Entity |-> IF e \in es THEN Nothing ELSE s.stamp[e]]
           after == Forget(s, es)
<1>1. after = [s EXCEPT !.created = s.created \ es, !.stamp = stamps]
  BY DEF Forget, Transaction
<1>2. stamps \in [Entity -> Stamp \cup {Nothing}]
  BY DEF Transaction
<1>3. \A e \in Entity : stamps[e] = IF e \in es THEN Nothing ELSE s.stamp[e]
  OBVIOUS
<1> HIDE DEF stamps, after
<1>4. /\ after \in Transaction
      /\ after.applying = s.applying /\ after.reserved = s.reserved
      /\ after.created = s.created \ es /\ after.removed = s.removed
      /\ after.locks = s.locks /\ after.deleting = s.deleting
      /\ after.cursor = s.cursor /\ after.raced = s.raced
      /\ after.stamp = stamps
  BY <1>1, <1>2 DEF Transaction
<1>5. StampedBy(after) = StampedBy(s) \ es
  BY <1>3, <1>4 DEF StampedBy
<1> QED
  BY <1>3, <1>4, <1>5 DEF after

-----------------------------------------------------------------------------
(* The operations. *)

LEMMA NodeCreateStep ==
  ASSUME IInv, NEW t \in Thread, NEW n \in Node, NEW ver \in TxVersion \cup {Nothing},
         NodeCreate(t, n, ver)
  PROVE  IInv'
<1> DEFINE stamps == [tx[t].stamp EXCEPT ![n] = ver]
           after == [tx[t] EXCEPT !.reserved = @ \cup {n}, !.created = @ \cup {n}, !.stamp = stamps]
<1>1. /\ tx[t] \in Transaction /\ TxInv(tx[t]) /\ n \in Entity
      /\ ~tx[t].applying /\ tx[t].deleting = Nothing
      /\ ~InUse(n) /\ \A u \in Thread : n \notin tx[u].reserved \cup tx[u].removed
  BY DEF IInv, TypeOK, NodeCreate, CanOperate, Reservable, Entity
<1>2. tx' = [tx EXCEPT ![t] = after] /\ UNCHANGED <<record, scan>>
  BY <1>1 DEF NodeCreate, Transaction, IInv, TypeOK
<1>3. stamps \in [Entity -> Stamp \cup {Nothing}] /\ \A e \in Entity \ {n} : stamps[e] = tx[t].stamp[e]
  BY <1>1, StampsAssumption DEF Transaction
<1> HIDE DEF stamps
<1>4. /\ after \in Transaction
      /\ after.applying = tx[t].applying /\ after.reserved = tx[t].reserved \cup {n}
      /\ after.created = tx[t].created \cup {n} /\ after.removed = tx[t].removed
      /\ after.stamp = stamps /\ after.locks = tx[t].locks
      /\ after.deleting = tx[t].deleting /\ after.raced = tx[t].raced
  BY <1>1, <1>3 DEF Transaction
<1> HIDE DEF after
<1>5. StampedBy(after) \ after.created = StampedBy(tx[t]) \ after.created
  BY <1>3, <1>4 DEF StampedBy
<1>6. Own(after)
  BY <1>1, <1>4, <1>5 DEF TxInv, Own, TouchedBy
<1>7. Covered(after)
  BY <1>1, <1>4, <1>5 DEF TxInv, Covered, TouchedBy
<1>8. Attached(after) /\ Detached(after) /\ Waiting(after)
  BY <1>1, <1>4, DistinctEntities DEF TxInv, Attached, Detached, Waiting
<1>9. KeepsPast(after)
  BY <1>1, <1>3, <1>4, <1>5 DEF TxInv, KeepsPast, StampedBy
<1>10. \A u \in Thread \ {t} : Apart(after, tx[u])
  BY <1>1, <1>4 DEF IInv, Apart
<1> QED
  BY <1>1, <1>2, <1>4, <1>6, <1>7, <1>8, <1>9, <1>10, OperationStep DEF TxInv

LEMMA RelationshipCreateStep ==
  ASSUME IInv, NEW t \in Thread, NEW r \in Rel, NEW ver \in TxVersion,
         RelationshipCreate(t, r, ver)
  PROVE  IInv'
<1> DEFINE stamps == [tx[t].stamp EXCEPT ![r] = ver]
           wanted == Wanted(t, Ends[r])
           after == [tx[t] EXCEPT !.reserved = @ \cup {r}, !.created = @ \cup {r}, !.stamp = stamps,
                                  !.locks = @ \cup wanted]
<1>1. /\ tx[t] \in Transaction /\ TxInv(tx[t]) /\ r \in Entity /\ Ends[r] \subseteq Node
      /\ ~tx[t].applying /\ tx[t].deleting = Nothing
      /\ ~InUse(r) /\ \A u \in Thread : r \notin tx[u].reserved \cup tx[u].removed
  BY EndsAssumption DEF IInv, TypeOK, RelationshipCreate, CanOperate, Reservable, Entity
<1>2. /\ tx' = [tx EXCEPT ![t] = after] /\ UNCHANGED <<record, scan>>
      /\ \A u \in Thread \ {t} : tx[u].locks \cap wanted = {}
  BY <1>1 DEF RelationshipCreate, Lockable, Transaction, IInv, TypeOK
<1>3. /\ stamps \in [Entity -> Stamp \cup {Nothing}] /\ \A e \in Entity \ {r} : stamps[e] = tx[t].stamp[e]
      /\ wanted \subseteq Entity /\ Ends[r] \subseteq wanted \cup tx[t].created
  BY <1>1, StampsAssumption DEF Transaction, Wanted, Entity
<1> HIDE DEF stamps, wanted
<1>4. /\ after \in Transaction
      /\ after.applying = tx[t].applying /\ after.reserved = tx[t].reserved \cup {r}
      /\ after.created = tx[t].created \cup {r} /\ after.removed = tx[t].removed
      /\ after.stamp = stamps /\ after.locks = tx[t].locks \cup wanted
      /\ after.deleting = tx[t].deleting /\ after.raced = tx[t].raced
  BY <1>1, <1>3 DEF Transaction
<1> HIDE DEF after
<1>5. StampedBy(after) \ after.created = StampedBy(tx[t]) \ after.created
  BY <1>3, <1>4 DEF StampedBy
<1>6. Own(after)
  BY <1>1, <1>4, <1>5 DEF TxInv, Own, TouchedBy
<1>7. Covered(after)
  BY <1>1, <1>4, <1>5 DEF TxInv, Covered, TouchedBy
<1>8. Attached(after)
  <2> SUFFICES ASSUME NEW q \in after.created \cap Rel, NEW n \in Ends[q]
               PROVE  n \in after.locks \cup after.reserved
    BY <1>1, <1>4 DEF Attached
  <2>1. CASE q = r
    BY <2>1, <1>1, <1>3, <1>4 DEF TxInv, Own
  <2>2. CASE q # r
    BY <2>2, <1>1, <1>4 DEF TxInv, Attached
  <2> QED
    BY <2>1, <2>2
<1>8a. Detached(after) /\ Waiting(after)
  BY <1>1, <1>4 DEF TxInv, Detached, Waiting
<1>9. KeepsPast(after)
  BY <1>1, <1>3, <1>4, <1>5 DEF TxInv, KeepsPast, StampedBy
<1>10. \A u \in Thread \ {t} : Apart(after, tx[u])
  BY <1>1, <1>2, <1>4 DEF IInv, Apart
<1> QED
  BY <1>1, <1>2, <1>4, <1>6, <1>7, <1>8, <1>8a, <1>9, <1>10, OperationStep DEF TxInv

\* Of what it has created itself, a transaction can forget anything.
LEMMA ForgetInv ==
  ASSUME NEW s \in Transaction, TxInv(s), ~s.applying, s.deleting = Nothing,
         NEW es \in SUBSET Entity, es \subseteq s.created
  PROVE  TxInv(Forget(s, es))
<1> DEFINE after == Forget(s, es)
<1>1. /\ after.applying = s.applying /\ after.reserved = s.reserved
      /\ after.created = s.created \ es /\ after.removed = s.removed
      /\ after.locks = s.locks /\ after.deleting = s.deleting /\ after.raced = s.raced
      /\ \A e \in Entity \ es : after.stamp[e] = s.stamp[e]
      /\ StampedBy(after) = StampedBy(s) \ es
  BY Forgotten
<1> HIDE DEF after
<1>2. Own(after) /\ Covered(after)
  BY <1>1 DEF TxInv, Own, Covered, TouchedBy
<1>3. Attached(after) /\ Detached(after) /\ Waiting(after)
  BY <1>1 DEF TxInv, Attached, Detached, Waiting
<1>4. KeepsPast(after)
  BY <1>1 DEF TxInv, KeepsPast, StampedBy
<1> QED
  BY <1>2, <1>3, <1>4 DEF TxInv, after

\* A transaction takes more locks, for a deletion that waits for them or not.
LEMMA LocksInv ==
  ASSUME NEW s \in Transaction, TxInv(s), ~s.applying, NEW after \in Transaction,
         after.applying = s.applying, after.reserved = s.reserved,
         after.created = s.created, after.removed = s.removed,
         after.stamp = s.stamp, s.locks \subseteq after.locks, after.raced = s.raced,
         Waiting(after)
  PROVE  TxInv(after)
<1>1. StampedBy(after) = StampedBy(s)
  BY DEF StampedBy
<1>2. Own(after) /\ Covered(after)
  BY <1>1 DEF TxInv, Own, Covered, TouchedBy
<1>3. Attached(after) /\ Detached(after)
  BY DEF TxInv, Attached, Detached
<1>4. KeepsPast(after)
  BY <1>1 DEF TxInv, KeepsPast
<1> QED
  BY <1>2, <1>3, <1>4 DEF TxInv

\* A transaction gives another stamp to what it has the locks for.
LEMMA StampInv ==
  ASSUME NEW s \in Transaction, TxInv(s), ~s.applying, s.deleting = Nothing,
         NEW e \in Entity, e \notin s.created, InUse(e),
         e \in Node => e \in s.locks,
         e \in Rel => Ends[e] \subseteq s.locks /\ e \in s.locks,
         NEW after \in Transaction,
         after.applying = s.applying, after.reserved = s.reserved,
         after.created = s.created, after.removed = s.removed,
         after.locks = s.locks, after.deleting = s.deleting, s.raced \subseteq after.raced,
         \A d \in Entity \ {e} : after.stamp[d] = s.stamp[d],
         e \notin after.raced /\ after.stamp[e] # Nothing => SamePast(record[e], after.stamp[e])
  PROVE  TxInv(after)
<1>2. StampedBy(after) \subseteq StampedBy(s) \cup {e}
  BY DEF StampedBy
<1>3. Own(after) /\ Covered(after)
  BY <1>2 DEF TxInv, Own, Covered, TouchedBy
<1>4. Attached(after) /\ Detached(after) /\ Waiting(after)
  BY DEF TxInv, Attached, Detached, Waiting
<1>5. KeepsPast(after)
  <2> SUFFICES ASSUME NEW d \in StampedBy(after) \ (after.created \cup after.raced)
               PROVE  SamePast(record[d], after.stamp[d])
    BY DEF KeepsPast
  <2>1. CASE d = e
    BY <2>1 DEF StampedBy
  <2>2. CASE d # e
    BY <2>2 DEF TxInv, KeepsPast, StampedBy
  <2> QED
    BY <2>1, <2>2
<1> QED
  BY <1>3, <1>4, <1>5 DEF TxInv

LEMMA NodeDeleteStep ==
  ASSUME IInv, NEW t \in Thread, NEW n \in Node, NEW ver \in TxVersion,
         NodeDelete(t, n, ver)
  PROVE  IInv'
<1>1. /\ tx[t] \in Transaction /\ TxInv(tx[t]) /\ n \in Entity /\ n \notin Rel
      /\ tx \in [Thread -> Transaction]
      /\ ~tx[t].applying /\ tx[t].deleting = Nothing /\ Exists(t, n)
      /\ UNCHANGED <<record, scan>>
      /\ record \in [Entity -> Stamp \cup {NotInUse}]
      /\ \A u \in Thread \ {t} : Apart(tx[t], tx[u])
  BY DistinctEntities DEF IInv, TypeOK, NodeDelete, CanOperate, Entity
<1>2. CASE n \in tx[t].created
  <2> DEFINE after == Forget(tx[t], {n})
  <2>1. tx' = [tx EXCEPT ![t] = after]
    BY <1>2 DEF NodeDelete
  <2>2. after \in Transaction /\ after.locks = tx[t].locks /\ after.reserved = tx[t].reserved
    BY <1>1, Forgotten
  <2>3. TxInv(after)
    BY <1>1, <1>2, ForgetInv
  <2> HIDE DEF after
  <2>4. \A u \in Thread \ {t} : Apart(after, tx[u])
    BY <1>1, <2>2 DEF Apart
  <2> QED
    BY <1>1, <2>1, <2>2, <2>3, <2>4, OperationStep
<1>3. CASE n \notin tx[t].created
  <2> DEFINE new == Ended(record[n], ver, tx[t].stamp[n])
             stamps == [tx[t].stamp EXCEPT ![n] = new]
             locked == [tx[t] EXCEPT !.locks = @ \cup {n}]
             after == [tx[t] EXCEPT !.locks = @ \cup {n}, !.stamp = stamps]
  <2>1. tx' = [tx EXCEPT ![t] = after] /\ \A u \in Thread \ {t} : n \notin tx[u].locks
    BY <1>1, <1>3 DEF NodeDelete, Lockable, Transaction
  <2>2. InUse(n) /\ record[n] \in Stamp /\ tx[t].stamp[n] \in Stamp \cup {Nothing}
    BY <1>1, <1>3 DEF Exists, InUse, Transaction
  <2>3. tx[t].stamp[n] # Nothing => SamePast(record[n], tx[t].stamp[n])
    BY <1>1, <1>3 DEF TxInv, KeepsPast, StampedBy, Transaction
  <2>4. new \in Stamp \cup {Nothing} /\ (new # Nothing => SamePast(record[n], new))
    BY <2>2, <2>3, EndingStamp
  <2> HIDE DEF new
  <2>5. /\ stamps \in [Entity -> Stamp \cup {Nothing}] /\ stamps[n] = new
        /\ \A d \in Entity \ {n} : stamps[d] = tx[t].stamp[d]
    BY <1>1, <2>4 DEF Transaction
  <2> HIDE DEF stamps
  <2>6. /\ locked \in Transaction
        /\ locked.applying = tx[t].applying /\ locked.reserved = tx[t].reserved
        /\ locked.created = tx[t].created /\ locked.removed = tx[t].removed
        /\ locked.stamp = tx[t].stamp /\ locked.locks = tx[t].locks \cup {n}
        /\ locked.deleting = Nothing /\ locked.raced = tx[t].raced
    BY <1>1 DEF Transaction
  <2>7. /\ after \in Transaction
        /\ after.applying = tx[t].applying /\ after.reserved = tx[t].reserved
        /\ after.created = tx[t].created /\ after.removed = tx[t].removed
        /\ after.stamp = stamps /\ after.locks = tx[t].locks \cup {n}
        /\ after.deleting = Nothing /\ after.raced = tx[t].raced
    BY <1>1, <2>5 DEF Transaction
  <2> HIDE DEF locked, after
  <2>8. TxInv(locked) /\ ~locked.applying
    BY <1>1, <2>6, LocksInv DEF Waiting
  <2>8a. /\ n \notin locked.created /\ n \in locked.locks
         /\ after.applying = locked.applying /\ after.reserved = locked.reserved
         /\ after.created = locked.created /\ after.removed = locked.removed
         /\ after.locks = locked.locks /\ after.deleting = locked.deleting
         /\ locked.raced \subseteq after.raced
         /\ \A d \in Entity \ {n} : after.stamp[d] = locked.stamp[d]
         /\ after.stamp[n] # Nothing => SamePast(record[n], after.stamp[n])
    BY <1>3, <2>4, <2>5, <2>6, <2>7
  <2>8b. locked \in Transaction /\ locked.deleting = Nothing /\ after \in Transaction
    BY <2>6, <2>7
  <2>9. TxInv(after)
    BY <1>1, <2>2, <2>8, <2>8a, <2>8b, StampInv
  <2>10. \A u \in Thread \ {t} : Apart(after, tx[u])
    BY <1>1, <2>1, <2>7 DEF Apart
  <2> QED
    BY <1>1, <2>1, <2>7, <2>9, <2>10, OperationStep
<1> QED
  BY <1>2, <1>3

LEMMA RelationshipLoadStep ==
  ASSUME IInv, NEW t \in Thread, NEW r \in Rel, RelationshipLoad(t, r)
  PROVE  IInv'
<1> DEFINE after == [tx[t] EXCEPT !.deleting = r, !.cursor = record[r]]
<1>1. /\ tx[t] \in Transaction /\ TxInv(tx[t]) /\ ~tx[t].applying
      /\ record[r] \in Stamp \cup {NotInUse}
      /\ r \notin tx[t].created => record[r] # NotInUse
      /\ \A u \in Thread \ {t} : Apart(tx[t], tx[u])
      /\ UNCHANGED <<record, scan>>
  BY DEF IInv, TypeOK, RelationshipLoad, CanOperate, Entity, Exists, InUse
<1>2. tx' = [tx EXCEPT ![t] = after]
  BY <1>1 DEF RelationshipLoad, Transaction, IInv, TypeOK
<1>3. /\ after \in Transaction
      /\ after.applying = tx[t].applying /\ after.reserved = tx[t].reserved
      /\ after.created = tx[t].created /\ after.removed = tx[t].removed
      /\ after.stamp = tx[t].stamp /\ after.locks = tx[t].locks
      /\ after.deleting = r /\ after.cursor = record[r] /\ after.raced = tx[t].raced
  BY <1>1 DEF Transaction
<1> HIDE DEF after
<1>4. TxInv(after)
  BY <1>1, <1>3, LocksInv DEF Waiting
<1>5. \A u \in Thread \ {t} : Apart(after, tx[u])
  BY <1>1, <1>3 DEF Apart
<1> QED
  BY <1>1, <1>2, <1>3, <1>4, <1>5, OperationStep

\* A relationship in use does not end at what an open transaction created.
LEMMA EndsNotCreated ==
  ASSUME IInv, NEW t \in Thread, ~tx[t].applying, NEW r \in Rel, InUse(r)
  PROVE  Ends[r] \cap tx[t].created = {} /\ r \notin tx[t].created
<1>1. /\ \A u \in Thread : TxInv(tx[u])
      /\ \A u \in Thread \ {t} : Apart(tx[t], tx[u])
      /\ EndsInUse
  BY DEF IInv
<1>2. ASSUME NEW n \in Ends[r], n \in tx[t].created PROVE FALSE
  <2>1. ~InUse(n)
    BY <1>1, <1>2 DEF TxInv, Own
  <2>2. PICK u \in Thread : tx[u].applying /\ n \in tx[u].created
    BY <1>1, <2>1 DEF EndsInUse
  <2>3. u # t
    BY <2>2
  <2> QED
    BY <1>1, <1>2, <2>2, <2>3 DEF TxInv, Own, Apart
<1>3. r \notin tx[t].created
  BY <1>1 DEF TxInv, Own
<1> QED
  BY <1>2, <1>3

LEMMA RelationshipDeleteStep ==
  ASSUME IInv, NEW t \in Thread, NEW ver \in TxVersion, RelationshipDelete(t, ver)
  PROVE  IInv'
<1> DEFINE r == tx[t].deleting
           wanted == Wanted(t, Ends[r] \cup {r})
           done == [tx[t] EXCEPT !.locks = @ \cup wanted, !.deleting = Nothing, !.cursor = Nothing]
<1>1. /\ tx[t] \in Transaction /\ TxInv(tx[t]) /\ UNCHANGED <<record, scan>>
      /\ r \in Rel /\ r \in Entity /\ r \notin Node /\ Ends[r] \subseteq Entity
      /\ ~tx[t].applying /\ (r \notin tx[t].created => tx[t].cursor \in Stamp)
      /\ \A u \in Thread \ {t} : tx[u].locks \cap wanted = {}
      /\ \A u \in Thread \ {t} : Apart(tx[t], tx[u])
  <2>1. tx[t] \in Transaction /\ TxInv(tx[t]) /\ r # Nothing /\ UNCHANGED <<record, scan>>
        /\ \A u \in Thread \ {t} : tx[u].locks \cap wanted = {}
    BY DEF IInv, TypeOK, RelationshipDelete, Lockable
  <2>2. r \in Rel
    BY <2>1 DEF Transaction
  <2>3. ~tx[t].applying /\ (r \notin tx[t].created => tx[t].cursor \in Stamp)
    BY <2>1 DEF TxInv, Waiting
  <2>4. Ends[r] \subseteq Entity /\ r \in Entity /\ r \notin Node
    BY <2>2, EndsAssumption, DistinctEntities DEF Entity
  <2> QED
    BY <2>1, <2>2, <2>3, <2>4 DEF IInv
<1>2. /\ done \in Transaction
      /\ done.applying = tx[t].applying /\ done.reserved = tx[t].reserved
      /\ done.created = tx[t].created /\ done.removed = tx[t].removed
      /\ done.stamp = tx[t].stamp /\ done.locks = tx[t].locks \cup wanted
      /\ done.deleting = Nothing /\ done.raced = tx[t].raced
  BY <1>1 DEF Transaction, Wanted
<1>3. tx' = [tx EXCEPT ![t] =
         IF ~Exists(t, r) THEN done
         ELSE IF r \in tx[t].created THEN Forget(done, {r})
         ELSE [done EXCEPT !.stamp = [@ EXCEPT ![r] = Ended(tx[t].cursor, ver, done.stamp[r])],
                           !.raced = IF tx[t].cursor # record[r] THEN done.raced \cup {r} ELSE done.raced]]
  BY <1>2 DEF RelationshipDelete, Transaction
<1>4. wanted = (Ends[r] \cup {r}) \ tx[t].created
  BY DEF Wanted
<1> HIDE DEF done, wanted, r
<1>5. TxInv(done)
  BY <1>1, <1>2, LocksInv DEF Waiting
<1>6. CASE ~Exists(t, r)
  <2>1. tx' = [tx EXCEPT ![t] = done]
    BY <1>3, <1>6
  <2>2. \A u \in Thread \ {t} : Apart(done, tx[u])
    BY <1>1, <1>2 DEF Apart
  <2> QED
    BY <1>1, <1>2, <1>5, <2>1, <2>2, OperationStep
<1>7. CASE Exists(t, r) /\ r \in tx[t].created
  <2> DEFINE after == Forget(done, {r})
  <2>1. tx' = [tx EXCEPT ![t] = after]
    BY <1>3, <1>7
  <2>2. after \in Transaction /\ after.locks = done.locks /\ after.reserved = done.reserved
    BY <1>1, <1>2, Forgotten
  <2>3. TxInv(after)
    BY <1>1, <1>2, <1>5, <1>7, ForgetInv
  <2> HIDE DEF after
  <2>4. \A u \in Thread \ {t} : Apart(after, tx[u])
    BY <1>1, <1>2, <2>2 DEF Apart
  <2> QED
    BY <1>1, <2>1, <2>2, <2>3, <2>4, OperationStep
<1>8. CASE Exists(t, r) /\ r \notin tx[t].created
  <2> DEFINE new == Ended(tx[t].cursor, ver, done.stamp[r])
             stamps == [done.stamp EXCEPT ![r] = new]
             raced == IF tx[t].cursor # record[r] THEN done.raced \cup {r} ELSE done.raced
             after == [done EXCEPT !.stamp = stamps, !.raced = raced]
  <2>1. tx' = [tx EXCEPT ![t] = after]
    BY <1>2, <1>3, <1>8 DEF Transaction
  <2>2. InUse(r) /\ tx[t].cursor \in Stamp /\ done.stamp[r] \in Stamp \cup {Nothing}
    BY <1>1, <1>2, <1>8 DEF Exists, Transaction
  <2>3. done.stamp[r] # Nothing /\ r \notin done.raced => SamePast(record[r], done.stamp[r])
    BY <1>1, <1>2, <1>5, <1>8 DEF TxInv, KeepsPast, StampedBy
  <2>4. /\ new \in Stamp \cup {Nothing}
        /\ tx[t].cursor = record[r] /\ r \notin done.raced =>
             (new # Nothing => SamePast(record[r], new))
    <3>1. new \in Stamp \cup {Nothing}
      <4>1. CASE hasEndVersion(tx[t].cursor)
        BY <2>2, <4>1 DEF Ended
      <4>2. CASE ~hasEndVersion(tx[t].cursor)
        BY <2>2, <4>2, EndedBy, StampsAssumption DEF Ended
      <4> QED
        BY <4>1, <4>2
    <3>2. ASSUME tx[t].cursor = record[r], r \notin done.raced
          PROVE  new # Nothing => SamePast(record[r], new)
      BY <2>2, <2>3, <3>2, EndingStamp
    <3> QED
      BY <3>1, <3>2
  <2> HIDE DEF new
  <2>5. /\ stamps \in [Entity -> Stamp \cup {Nothing}] /\ stamps[r] = new
        /\ \A d \in Entity \ {r} : stamps[d] = done.stamp[d]
    BY <1>1, <1>2, <2>4 DEF Transaction
  <2>6. raced \in SUBSET Rel /\ done.raced \subseteq raced
        /\ (r \notin raced => tx[t].cursor = record[r] /\ r \notin done.raced)
    BY <1>1, <1>2 DEF Transaction
  <2> HIDE DEF stamps, raced
  <2>7. /\ after \in Transaction
        /\ after.applying = done.applying /\ after.reserved = done.reserved
        /\ after.created = done.created /\ after.removed = done.removed
        /\ after.stamp = stamps /\ after.locks = done.locks
        /\ after.deleting = done.deleting /\ after.raced = raced
    BY <1>2, <2>5, <2>6 DEF Transaction
  <2> HIDE DEF after
  <2>8. r \in done.locks /\ Ends[r] \subseteq done.locks
    <3>1. Ends[r] \cap tx[t].created = {}
      BY <1>1, <2>2, EndsNotCreated
    <3> QED
      BY <1>2, <1>4, <1>8, <3>1
  <2>8a. /\ r \notin done.created /\ ~done.applying
         /\ \A d \in Entity \ {r} : after.stamp[d] = done.stamp[d]
         /\ done.raced \subseteq after.raced
         /\ r \notin after.raced /\ after.stamp[r] # Nothing => SamePast(record[r], after.stamp[r])
    BY <1>1, <1>2, <1>8, <2>4, <2>5, <2>6, <2>7
  <2>8b. done \in Transaction /\ done.deleting = Nothing /\ r \in Entity /\ r \notin Node
    BY <1>1, <1>2
  <2>9. TxInv(after)
    BY <1>5, <2>2, <2>7, <2>8, <2>8a, <2>8b, StampInv
  <2>10. \A u \in Thread \ {t} : Apart(after, tx[u])
    BY <1>1, <1>2, <2>7 DEF Apart
  <2> QED
    BY <1>1, <2>1, <2>7, <2>9, <2>10, OperationStep
<1> QED
  BY <1>6, <1>7, <1>8

LEMMA NodeDetachDeleteStep ==
  ASSUME IInv, NEW t \in Thread, NEW n \in Node, NodeDetachDelete(t, n)
  PROVE  IInv'
<1> DEFINE rels == {r \in Rel : n \in Ends[r] /\ Exists(t, r)}
           gone == {n} \cup rels
           wanted == Wanted(t, {n} \cup UNION {Ends[r] : r \in rels})
           rest == Forget(tx[t], gone)
           after == [rest EXCEPT !.removed = @ \cup (gone \ tx[t].created),
                                 !.locks = @ \cup wanted]
<1>1. /\ tx[t] \in Transaction /\ TxInv(tx[t]) /\ UNCHANGED <<record, scan>>
      /\ n \in Entity /\ n \notin Rel /\ Exists(t, n)
      /\ ~tx[t].applying /\ tx[t].deleting = Nothing
      /\ \A u \in Thread \ {t} : tx[u].locks \cap wanted = {}
      /\ \A u \in Thread \ {t} : Apart(tx[t], tx[u])
  BY DistinctEntities DEF IInv, TypeOK, NodeDetachDelete, CanOperate, Lockable, Entity
<1>2. tx' = [tx EXCEPT ![t] = after]
  BY DEF NodeDetachDelete
<1>3. gone \subseteq Entity /\ wanted \subseteq Entity
  BY EndsAssumption DEF Entity, Wanted
<1>4. /\ rest \in Transaction
      /\ rest.applying = tx[t].applying /\ rest.reserved = tx[t].reserved
      /\ rest.created = tx[t].created \ gone /\ rest.removed = tx[t].removed
      /\ rest.locks = tx[t].locks /\ rest.deleting = tx[t].deleting /\ rest.raced = tx[t].raced
      /\ \A e \in Entity \ gone : rest.stamp[e] = tx[t].stamp[e]
      /\ StampedBy(rest) = StampedBy(tx[t]) \ gone
  BY <1>1, <1>3, Forgotten
<1>5. \A r \in rels \ tx[t].created :
        InUse(r) /\ Ends[r] \subseteq wanted /\ n \in Ends[r]
  <2> SUFFICES ASSUME NEW r \in rels \ tx[t].created
               PROVE  InUse(r) /\ Ends[r] \subseteq wanted /\ n \in Ends[r]
    OBVIOUS
  <2>1. InUse(r) /\ n \in Ends[r]
    BY DEF Exists
  <2>2. Ends[r] \cap tx[t].created = {}
    BY <1>1, <2>1, EndsNotCreated
  <2> QED
    BY <2>1, <2>2 DEF Wanted
<1>6. n \notin tx[t].created => InUse(n) /\ n \in wanted
  BY <1>1 DEF Exists, Wanted
<1>7. \A r \in Rel : n \in Ends[r] /\ InUse(r) => r \in (rels \ tx[t].created) \cup tx[t].removed
  BY <1>1, EndsNotCreated DEF Exists
<1>8. rels \subseteq Rel
  OBVIOUS
<1> HIDE DEF rels, wanted, rest
<1>9. /\ after \in Transaction
      /\ after.applying = rest.applying /\ after.reserved = rest.reserved
      /\ after.created = rest.created /\ after.removed = rest.removed \cup (gone \ tx[t].created)
      /\ after.stamp = rest.stamp /\ after.locks = rest.locks \cup wanted
      /\ after.deleting = rest.deleting /\ after.raced = rest.raced
  BY <1>3, <1>4 DEF Transaction
<1> HIDE DEF after
<1>10. StampedBy(after) = StampedBy(tx[t]) \ gone
  BY <1>4, <1>9 DEF StampedBy
<1>11. \A e \in gone \ tx[t].created : InUse(e)
  BY <1>5, <1>6
<1>12. TouchedBy(after) \ after.created
         \subseteq (TouchedBy(tx[t]) \ tx[t].created) \cup (gone \ tx[t].created)
  BY <1>1, <1>4, <1>9, <1>10 DEF TouchedBy, TxInv, Own
<1>13. Own(after)
  BY <1>1, <1>4, <1>9, <1>11, <1>12 DEF TxInv, Own
<1>14. Covered(after)
  <2> SUFFICES ASSUME NEW e \in TouchedBy(after) \ after.created
               PROVE  /\ e \in Node => e \in after.locks
                      /\ e \in Rel => Ends[e] \subseteq after.locks /\ (e \in after.locks \/ Ends[e] # {})
    BY DEF Covered
  <2>1. CASE e \in TouchedBy(tx[t]) \ tx[t].created
    BY <2>1, <1>1, <1>4, <1>9 DEF TxInv, Covered
  <2>2. CASE e \in gone \ tx[t].created
    BY <2>2, <1>1, <1>5, <1>6, <1>8, <1>9, DistinctEntities
  <2> QED
    BY <2>1, <2>2, <1>12
<1>15. Attached(after) /\ Waiting(after)
  BY <1>1, <1>4, <1>9 DEF TxInv, Attached, Waiting
<1>16. Detached(after)
  <2> SUFFICES ASSUME NEW m \in after.removed \cap Node, NEW r \in Rel, m \in Ends[r], InUse(r)
               PROVE  r \in after.removed
    BY DEF Detached
  <2>1. CASE m \in tx[t].removed
    BY <2>1, <1>1, <1>4, <1>9 DEF TxInv, Detached
  <2>2. CASE m = n
    BY <2>2, <1>4, <1>7, <1>9
  <2> QED
    BY <2>1, <2>2, <1>4, <1>8, <1>9, DistinctEntities
<1>17. KeepsPast(after)
  BY <1>1, <1>4, <1>9, <1>10 DEF TxInv, KeepsPast, StampedBy
<1>18. \A u \in Thread \ {t} : Apart(after, tx[u])
  BY <1>1, <1>4, <1>9 DEF Apart
<1>19. TxInv(after)
  BY <1>13, <1>14, <1>15, <1>16, <1>17 DEF TxInv
<1> QED
  BY <1>1, <1>2, <1>9, <1>18, <1>19, OperationStep

-----------------------------------------------------------------------------
(* Commit and rollback. *)

LEMMA CommitStep ==
  ASSUME IInv, NEW t \in Thread, Commit(t)
  PROVE  IInv'
<1> DEFINE after == [tx[t] EXCEPT !.applying = TRUE]
<1>1. /\ tx[t] \in Transaction /\ TxInv(tx[t]) /\ UNCHANGED <<record, scan>>
      /\ ~tx[t].applying /\ tx[t].deleting = Nothing
      /\ tx' = [tx EXCEPT ![t] = after]
      /\ \A r \in tx[t].created \cap Rel : \A n \in Ends[r] : Exists(t, n)
      /\ \A u \in Thread \ {t} : Apart(tx[t], tx[u])
  BY DEF IInv, TypeOK, Commit, CanOperate
<1>2. /\ after \in Transaction
      /\ after.applying /\ after.reserved = tx[t].reserved
      /\ after.created = tx[t].created /\ after.removed = tx[t].removed
      /\ after.stamp = tx[t].stamp /\ after.locks = tx[t].locks
      /\ after.deleting = tx[t].deleting /\ after.raced = tx[t].raced
  BY <1>1 DEF Transaction
<1> HIDE DEF after
<1>3. StampedBy(after) = StampedBy(tx[t])
  BY <1>2 DEF StampedBy
<1>4. Own(after) /\ Covered(after)
  BY <1>1, <1>2, <1>3 DEF TxInv, Own, Covered, TouchedBy
<1>5. Attached(after)
  <2> SUFFICES ASSUME NEW r \in tx[t].created \cap Rel, NEW n \in Ends[r]
               PROVE  /\ n \in tx[t].locks \cup tx[t].reserved
                      /\ n \notin tx[t].removed
                      /\ n \in tx[t].created \/ (n \in tx[t].locks /\ InUse(n))
    BY <1>2 DEF Attached
  <2>1. n \in tx[t].locks \cup tx[t].reserved
    BY <1>1 DEF TxInv, Attached
  <2>2. n \notin tx[t].removed /\ (InUse(n) \/ n \in tx[t].created)
    BY <1>1 DEF Exists
  <2>3. InUse(n) => n \notin tx[t].reserved
    BY <1>1 DEF TxInv, Own
  <2> QED
    BY <2>1, <2>2, <2>3
<1>6. Detached(after) /\ Waiting(after)
  BY <1>1, <1>2 DEF TxInv, Detached, Waiting
<1>7. KeepsPast(after)
  BY <1>1, <1>2, <1>3 DEF TxInv, KeepsPast
<1>8. \A u \in Thread \ {t} : Apart(after, tx[u])
  BY <1>1, <1>2 DEF Apart
<1>9. TxInv(after)
  BY <1>4, <1>5, <1>6, <1>7 DEF TxInv
<1> QED
  BY <1>1, <1>2, <1>8, <1>9, OperationStep

LEMMA EndStep ==
  ASSUME IInv, NEW t \in Thread, Applied(t) \/ Rollback(t)
  PROVE  IInv'
<1>1. /\ tx' = [tx EXCEPT ![t] = NewTransaction] /\ UNCHANGED <<record, scan>>
      /\ tx[t].applying => tx[t].created = {}
  BY DEF Applied, Rollback, Touched
<1>2. \A u \in Thread \ {t} : Apart(NewTransaction, tx[u])
  BY DEF Apart, NewTransaction
<1> QED
  BY <1>1, <1>2, NewInv, OperationStep

\* No two transactions have touched the same entity.
LEMMA Exclusive ==
  ASSUME IInv, NEW t \in Thread, NEW u \in Thread, t # u
  PROVE  TouchedBy(tx[t]) \cap TouchedBy(tx[u]) = {}
<1>1. TxInv(tx[t]) /\ TxInv(tx[u]) /\ Apart(tx[t], tx[u])
      /\ tx[t] \in Transaction /\ tx[u] \in Transaction
  BY DEF IInv, TypeOK
<1> SUFFICES ASSUME NEW e \in TouchedBy(tx[t]) \cap TouchedBy(tx[u]) PROVE FALSE
  OBVIOUS
<1>2. CASE e \in tx[t].created \/ e \in tx[u].created
  BY <1>1, <1>2 DEF TxInv, Own, Apart
<1>3. CASE e \notin tx[t].created /\ e \notin tx[u].created
  <2>1. e \in Node \/ e \in Rel
    BY <1>1 DEF TouchedBy, StampedBy, Transaction, Entity
  <2>2. e \notin Node
    BY <1>1, <1>3 DEF TxInv, Covered, Apart
  <2>3. /\ Ends[e] \subseteq tx[t].locks /\ (e \in tx[t].locks \/ Ends[e] # {})
        /\ Ends[e] \subseteq tx[u].locks /\ (e \in tx[u].locks \/ Ends[e] # {})
    BY <1>1, <1>3, <2>1, <2>2 DEF TxInv, Covered
  <2> QED
    BY <1>1, <2>3 DEF Apart
<1> QED
  BY <1>2, <1>3

-----------------------------------------------------------------------------
(* The application of a commit. *)

\* What the order of the commands makes of the rest.
LEMMA Ordered ==
  ASSUME NEW t \in Thread, NEW e \in Entity, Apply(t, e), TxInv(tx[t]), tx[t] \in Transaction
  PROVE  /\ tx[t].created # {} => e \in tx[t].created
         /\ tx[t].created \cap Rel # {} => e \in Rel
         /\ e \in tx[t].removed \cap Node => tx[t].removed \cap Rel = {}
<1>1. /\ \A d \in TouchedBy(tx[t]) : ~Before(t, d, e)
      /\ tx[t].created \cup tx[t].removed \subseteq TouchedBy(tx[t])
      /\ tx[t].removed \cap tx[t].created = {}
  BY DEF Apply, Touched, TouchedBy, StampedBy, Stamped, TxInv, Own
<1>2. ASSUME NEW d \in tx[t].created PROVE e \in tx[t].created
  BY <1>1, <1>2 DEF Before
<1>3. ASSUME NEW d \in tx[t].created \cap Rel PROVE e \in Rel
  BY <1>1, <1>2, <1>3 DEF Before, Entity
<1>4. ASSUME e \in tx[t].removed \cap Node, NEW d \in tx[t].removed \cap Rel PROVE FALSE
  BY <1>1, <1>4 DEF Before
<1> QED
  BY <1>2, <1>3, <1>4

\* What a command writes.
LEMMA Writes ==
  ASSUME IInv, NEW t \in Thread, NEW e \in Entity, Apply(t, e)
  PROVE  /\ record' \in [Entity -> Stamp \cup {NotInUse}]
         /\ \A d \in Entity \ {e} : record'[d] = record[d]
         /\ IF e \in tx[t].removed THEN record'[e] = NotInUse ELSE record'[e] \in Stamp
         /\ e \notin tx[t].removed /\ tx[t].stamp[e] # Nothing => record'[e] = tx[t].stamp[e]
         /\ e \notin tx[t].removed \cup tx[t].created =>
              /\ e \in StampedBy(tx[t]) /\ InUse(e)
              /\ e \notin tx[t].raced => SamePast(record[e], record'[e])
<1>1. /\ record \in [Entity -> Stamp \cup {NotInUse}] /\ tx[t] \in Transaction /\ TxInv(tx[t])
      /\ e \in TouchedBy(tx[t])
  BY DEF IInv, TypeOK, Apply, Touched, TouchedBy, StampedBy, Stamped
<1>2. PICK w \in Written(t, e) : record' = [record EXCEPT ![e] = w]
  BY DEF Apply
<1>3. tx[t].stamp[e] \in Stamp \cup {Nothing}
  BY <1>1 DEF Transaction
<1>4. IF e \in tx[t].removed THEN w = NotInUse ELSE w \in Stamp
  BY <1>3, StampsAssumption DEF Written
<1>5. e \notin tx[t].removed /\ tx[t].stamp[e] # Nothing => w = tx[t].stamp[e]
  BY DEF Written
<1>6. record'[e] = w /\ \A d \in Entity \ {e} : record'[d] = record[d]
  BY <1>1, <1>2
<1>7. record' \in [Entity -> Stamp \cup {NotInUse}]
  BY <1>1, <1>2, <1>4
<1>8. e \notin tx[t].removed \cup tx[t].created => e \in StampedBy(tx[t]) /\ InUse(e)
  BY <1>1 DEF TouchedBy, TxInv, Own
<1>9. e \notin tx[t].removed \cup tx[t].created /\ e \notin tx[t].raced => SamePast(record[e], w)
  BY <1>1, <1>5, <1>8 DEF TxInv, KeepsPast, StampedBy
<1> QED
  BY <1>4, <1>5, <1>6, <1>7, <1>8, <1>9

LEMMA ApplyStep ==
  ASSUME IInv, NEW t \in Thread, NEW e \in Entity, Apply(t, e)
  PROVE  IInv'
<1> DEFINE rest == Forget(tx[t], {e})
           after == [rest EXCEPT !.removed = @ \ {e}, !.raced = @ \ {e}]
<1>1. /\ tx \in [Thread -> Transaction] /\ tx[t] \in Transaction
      /\ \A u \in Thread : TxInv(tx[u])
      /\ \A u, w \in Thread : u # w => Apart(tx[u], tx[w])
      /\ tx[t].applying /\ e \in TouchedBy(tx[t]) /\ EndsInUse
  BY DEF IInv, TypeOK, Apply, Touched, TouchedBy, StampedBy, Stamped
<1>2. tx' = [tx EXCEPT ![t] = after]
  BY DEF Apply
<1>3. /\ rest \in Transaction
      /\ rest.applying = tx[t].applying /\ rest.reserved = tx[t].reserved
      /\ rest.created = tx[t].created \ {e} /\ rest.removed = tx[t].removed
      /\ rest.locks = tx[t].locks /\ rest.deleting = tx[t].deleting
      /\ rest.cursor = tx[t].cursor /\ rest.raced = tx[t].raced
      /\ \A d \in Entity \ {e} : rest.stamp[d] = tx[t].stamp[d]
      /\ StampedBy(rest) = StampedBy(tx[t]) \ {e}
  <2>1. tx[t] \in Transaction /\ {e} \in SUBSET Entity
    BY <1>1
  <2>2. Forget(tx[t], {e}) = rest
    OBVIOUS
  <2> HIDE DEF rest
  <2>3. \A d \in Entity : d \notin {e} => rest.stamp[d] = tx[t].stamp[d]
    BY <2>1, <2>2, Forgotten
  <2> QED
    BY <2>1, <2>2, <2>3, Forgotten
<1> HIDE DEF rest
<1>4. /\ after \in Transaction
      /\ after.applying = rest.applying /\ after.reserved = rest.reserved
      /\ after.created = rest.created /\ after.removed = rest.removed \ {e}
      /\ after.stamp = rest.stamp /\ after.locks = rest.locks
      /\ after.deleting = rest.deleting /\ after.raced = rest.raced \ {e}
  BY <1>3 DEF Transaction
<1> HIDE DEF after
<1>5. StampedBy(after) = StampedBy(tx[t]) \ {e} /\ TouchedBy(after) = TouchedBy(tx[t]) \ {e}
  BY <1>3, <1>4 DEF StampedBy, TouchedBy
<1>6. /\ record' \in [Entity -> Stamp \cup {NotInUse}]
      /\ \A d \in Entity \ {e} : record'[d] = record[d]
      /\ InUse(e)' <=> e \notin tx[t].removed
      /\ \A d \in Entity \ {e} : InUse(d)' <=> InUse(d)
      /\ e \notin tx[t].removed \cup tx[t].created => e \in StampedBy(tx[t]) /\ InUse(e)
  BY Writes, Sentinels DEF InUse
<1>7. /\ tx[t].created # {} => e \in tx[t].created
      /\ tx[t].created \cap Rel # {} => e \in Rel
      /\ e \in tx[t].removed \cap Node => tx[t].removed \cap Rel = {}
  BY <1>1, Ordered
<1>8. /\ tx' \in [Thread -> Transaction] /\ tx'[t] = after
      /\ \A u \in Thread \ {t} : tx'[u] = tx[u]
  BY <1>1, <1>2, <1>4
<1>9. /\ \A r \in Rel : Ends[r] \subseteq Node
      /\ Node \subseteq Entity /\ Rel \subseteq Entity /\ Node \cap Rel = {}
      /\ \A u \in Thread : /\ tx[u].created \subseteq Entity /\ tx[u].removed \subseteq Entity
                           /\ tx[u].reserved \subseteq Entity /\ StampedBy(tx[u]) \subseteq Entity
  BY <1>1, EndsAssumption, DistinctEntities DEF Entity, Transaction, StampedBy
<1>10. ASSUME NEW u \in Thread \ {t} PROVE TxInv(tx[u])'
  <2>0. TxInv(tx[u]) /\ TxInv(tx[t]) /\ Apart(tx[t], tx[u]) /\ tx'[u] = tx[u]
    BY <1>1, <1>8
  <2>1. e \notin TouchedBy(tx[u])
    BY <1>1, Exclusive
  <2>2. TouchedBy(tx[u]) \subseteq Entity /\ tx[u].created \subseteq TouchedBy(tx[u])
        /\ tx[u].removed \subseteq TouchedBy(tx[u]) /\ StampedBy(tx[u]) \subseteq TouchedBy(tx[u])
    BY <1>9 DEF TouchedBy
  <2>3. ~tx[u].applying /\ e \in tx[u].reserved => ~InUse(e)'
    <3>1. e \in tx[t].created => e \notin tx[u].reserved
      BY <2>0 DEF TxInv, Own, Apart
    <3> QED
      BY <2>0, <3>1, <1>6 DEF TxInv, Own
  <2>4. Own(tx[u])'
    <3>1. \A d \in tx[u].created : ~InUse(d)'
      BY <2>0, <2>1, <2>2, <1>6 DEF TxInv, Own
    <3>2. ~tx[u].applying => \A d \in tx[u].reserved : ~InUse(d)'
      BY <2>0, <2>3, <1>6, <1>9 DEF TxInv, Own
    <3>3. \A d \in TouchedBy(tx[u]) \ tx[u].created : InUse(d)'
      BY <2>0, <2>1, <2>2, <1>6 DEF TxInv, Own
    <3> QED
      BY <2>0, <3>1, <3>2, <3>3 DEF TxInv, Own, TouchedBy, StampedBy
  <2>5. Covered(tx[u])'
    BY <2>0 DEF TxInv, Covered, TouchedBy, StampedBy
  <2>6. Attached(tx[u])'
    <3> SUFFICES ASSUME NEW r \in tx[u].created \cap Rel, NEW n \in Ends[r],
                        tx[u].applying, n \in tx[u].locks, InUse(n)
                 PROVE  InUse(n)'
      BY <2>0 DEF TxInv, Attached
    <3>1. n \in Node /\ n \in Entity
      BY <1>9
    <3>2. n = e => n \notin tx[t].removed
      BY <2>0, <3>1, <1>1 DEF TxInv, Covered, Own, Apart, TouchedBy
    <3> QED
      BY <3>1, <3>2, <1>6
  <2>7. Detached(tx[u])'
    <3> SUFFICES ASSUME NEW n \in tx[u].removed \cap Node, NEW r \in Rel, n \in Ends[r], InUse(r)'
                 PROVE  r \in tx[u].removed
      BY <2>0 DEF Detached
    <3>1. CASE InUse(r)
      BY <3>1, <2>0 DEF TxInv, Detached
    <3>2. CASE ~InUse(r)
      <4>1. r = e /\ e \in tx[t].created
        BY <3>2, <1>6, <1>9
      <4>2. n \in tx[t].created \/ n \in tx[t].locks
        BY <4>1, <2>0, <1>1 DEF TxInv, Attached
      <4>3. n \in tx[u].locks /\ InUse(n)
        BY <2>0 DEF TxInv, Own, Covered, TouchedBy
      <4> QED
        BY <4>2, <4>3, <2>0 DEF TxInv, Own, Apart
    <3> QED
      BY <3>1, <3>2
  <2>8. KeepsPast(tx[u])'
    BY <2>0, <2>1, <2>2, <1>6 DEF TxInv, KeepsPast, StampedBy
  <2>9. Waiting(tx[u])'
    BY <2>0 DEF TxInv, Waiting
  <2> QED
    BY <2>4, <2>5, <2>6, <2>7, <2>8, <2>9 DEF TxInv
<1>11. TxInv(tx[t])'
  <2>0. TxInv(tx[t])
    BY <1>1
  <2>1. /\ tx'[t].applying /\ tx'[t].reserved = tx[t].reserved
        /\ tx'[t].created = tx[t].created \ {e} /\ tx'[t].removed = tx[t].removed \ {e}
        /\ tx'[t].locks = tx[t].locks /\ tx'[t].deleting = tx[t].deleting
        /\ tx'[t].raced = tx[t].raced \ {e}
        /\ \A d \in Entity \ {e} : tx'[t].stamp[d] = tx[t].stamp[d]
        /\ StampedBy(tx[t])' = StampedBy(tx[t]) \ {e} /\ TouchedBy(tx[t])' = TouchedBy(tx[t]) \ {e}
    <3>1. StampedBy(tx[t])' = StampedBy(after) /\ TouchedBy(tx[t])' = TouchedBy(after)
      BY <1>8 DEF StampedBy, TouchedBy
    <3> QED
      BY <3>1, <1>1, <1>3, <1>4, <1>5, <1>8
  <2>2. Own(tx[t])'
    <3>1. \A d \in tx[t].created \ {e} : ~InUse(d)'
      BY <2>0, <1>6, <1>9 DEF TxInv, Own
    <3>2. \A d \in TouchedBy(tx[t]) \ (tx[t].created \cup {e}) : InUse(d)'
      BY <2>0, <1>6, <1>9 DEF TxInv, Own, TouchedBy
    <3> QED
      BY <2>0, <2>1, <3>1, <3>2 DEF TxInv, Own
  <2>3. Covered(tx[t])'
    BY <2>0, <2>1 DEF TxInv, Covered
  <2>4. Attached(tx[t])'
    <3> SUFFICES ASSUME NEW r \in (tx[t].created \ {e}) \cap Rel, NEW n \in Ends[r]
                 PROVE  /\ n \in tx[t].locks \cup tx[t].reserved
                        /\ n \notin tx[t].removed
                        /\ n \in tx[t].created \ {e} \/ (n \in tx[t].locks /\ InUse(n)')
      BY <2>1 DEF Attached
    <3>1. n \in Node /\ n \in Entity /\ n # e
      BY <1>7, <1>9
    <3> QED
      BY <2>0, <3>1, <1>1, <1>6 DEF TxInv, Attached
  <2>5. Detached(tx[t])'
    <3> SUFFICES ASSUME NEW n \in (tx[t].removed \ {e}) \cap Node, NEW r \in Rel,
                        n \in Ends[r], InUse(r)'
                 PROVE  r \in tx[t].removed \ {e}
      BY <2>1 DEF Detached
    <3>1. CASE InUse(r)
      BY <3>1, <2>0, <1>6 DEF TxInv, Detached
    <3>2. CASE ~InUse(r)
      <4>1. r = e /\ e \in tx[t].created
        BY <3>2, <1>6, <1>9
      <4> QED
        BY <4>1, <2>0, <1>1 DEF TxInv, Attached
    <3> QED
      BY <3>1, <3>2
  <2>6. KeepsPast(tx[t])'
    BY <2>0, <2>1, <1>6, <1>9 DEF TxInv, KeepsPast
  <2>7. Waiting(tx[t])'
    BY <2>0, <2>1, <1>1 DEF TxInv, Waiting
  <2> QED
    BY <2>2, <2>3, <2>4, <2>5, <2>6, <2>7 DEF TxInv
<1>12. ASSUME NEW u \in Thread, NEW w \in Thread, u # w PROVE Apart(tx[u], tx[w])'
  BY <1>1, <1>3, <1>4, <1>8, <1>12 DEF Apart
<1>13. EndsInUse'
  <2> SUFFICES ASSUME NEW r \in Rel, InUse(r)', NEW n \in Ends[r]
               PROVE  InUse(n)' \/ \E u \in Thread : tx'[u].applying /\ n \in tx'[u].created
    BY DEF EndsInUse
  <2>0. n \in Node /\ n \in Entity /\ r \in Entity /\ r # n /\ TxInv(tx[t])
    BY <1>1, <1>9
  <2>1. CASE r = e /\ e \in tx[t].created
    <3>1. n \in tx[t].created \/ InUse(n)
      BY <2>0, <2>1, <1>1 DEF TxInv, Attached
    <3>2. n \in tx[t].created => tx'[t].applying /\ n \in tx'[t].created
      BY <2>0, <2>1, <1>1, <1>3, <1>4, <1>8
    <3> QED
      BY <2>0, <2>1, <3>1, <3>2, <1>6
  <2>2. CASE r # e \/ e \notin tx[t].created
    <3>1. InUse(r)
      BY <2>0, <2>2, <1>6
    <3>2. CASE InUse(n)
      <4>1. ~(n = e /\ e \in tx[t].removed)
        BY <2>0, <3>1, <1>7 DEF TxInv, Detached
      <4> QED
        BY <2>0, <3>2, <4>1, <1>6
    <3>3. CASE ~InUse(n)
      <4>1. PICK u \in Thread : tx[u].applying /\ n \in tx[u].created
        BY <1>1, <3>1, <3>3 DEF EndsInUse
      <4>2. CASE u # t
        BY <4>1, <4>2, <1>8
      <4>3. CASE u = t /\ n # e
        BY <4>1, <4>3, <1>1, <1>3, <1>4, <1>8
      <4>4. CASE u = t /\ n = e
        BY <2>0, <4>1, <4>4, <1>6 DEF TxInv, Own
      <4> QED
        BY <4>2, <4>3, <4>4
    <3> QED
      BY <3>2, <3>3
  <2> QED
    BY <2>1, <2>2
<1>14. /\ scan' \in Scan
       /\ scan'.version = scan.version /\ scan'.todo = scan.todo /\ scan'.seen = scan.seen
       /\ scan'.snapshot = scan.snapshot
       /\ ~scan'.disturbed => ~scan.disturbed /\ ~Disturbs(t, e, scan.version)
  <2> DEFINE disturbed == scan.disturbed \/ Disturbs(t, e, scan.version)
  <2>1. disturbed \in BOOLEAN
    BY Zenon
  <2>2. scan' = [scan EXCEPT !.disturbed = disturbed] /\ scan \in Scan
    BY DEF Apply, IInv, TypeOK
  <2> HIDE DEF disturbed
  <2>3. /\ scan' \in Scan
        /\ scan'.version = scan.version /\ scan'.todo = scan.todo /\ scan'.seen = scan.seen
        /\ scan'.snapshot = scan.snapshot
        /\ scan'.disturbed = disturbed
    BY <2>1, <2>2 DEF Scan
  <2> QED
    BY <2>3 DEF disturbed
<1>15. ScanInv'
  <2> SUFFICES ASSUME ~scan'.disturbed
               PROVE  scan.seen \cup (scan.todo \cap Snapshot(scan.version)') = scan.snapshot
    BY <1>14 DEF ScanInv
  <2>0. PICK v : v = scan.version
    OBVIOUS
  <2>1. v \in HalfVersion /\ v \in Nat /\ \A x \in 0 .. v : x \in Int
    BY <2>0, LimitAssumption DEF IInv, TypeOK, Scan, HalfVersion
  <2>2. ~Disturbs(t, e, v)
    BY <2>0, <1>14
  <2>3. e \in Snapshot(v)' <=> e \in Snapshot(v)
    <3>1. /\ e \notin tx[t].removed /\ e \notin tx[t].raced /\ record'[e] \in Stamp
          /\ tx[t].stamp[e] # Nothing => record'[e] = tx[t].stamp[e]
      BY <2>2, Writes DEF Disturbs
    <3>2. getStartVersion(record'[e]) \in Int /\ getEndVersion(record'[e]) \in Int
      BY <3>1, HalvesOfStamp, LimitAssumption DEF HalfVersion
    <3>3. CASE e \in tx[t].created
      <4>1. ~InUse(e)
        BY <3>3, <1>1 DEF TxInv, Own
      <4>2. record'[e] = tx[t].stamp[e] /\ ~(getStartVersion(tx[t].stamp[e]) < v)
        BY <3>1, <3>3, <2>2 DEF Disturbs
      <4> QED
        BY <4>1, <4>2 DEF Snapshot, InSingleVersion
    <3>4. CASE e \notin tx[t].created
      <4>1. InUse(e) /\ InUse(e)' /\ SamePast(record[e], record'[e]) /\ tx[t].stamp[e] # Nothing
        BY <3>1, <3>4, <1>6, Writes DEF StampedBy
      <4>2. ~(getEndVersion(record'[e]) < v)
        BY <3>1, <3>4, <4>1, <2>2 DEF Disturbs
      <4>3. v \in 0 .. getEndVersion(record'[e])
        BY <2>1, <3>2, <4>2
      <4> QED
        BY <4>1, <4>3 DEF SamePast, Snapshot
    <3> QED
      BY <3>3, <3>4
  <2>4. \A d \in Entity \ {e} : d \in Snapshot(v)' <=> d \in Snapshot(v)
    BY <1>6 DEF Snapshot, InUse
  <2>5. Snapshot(v)' = Snapshot(v)
    BY <2>3, <2>4 DEF Snapshot
  <2>6. Snapshot(scan.version)' = Snapshot(scan.version)
    BY <2>0, <2>5, <1>14
  <2> QED
    BY <2>6, <1>14 DEF IInv, ScanInv
<1>16. TypeOK'
  BY <1>6, <1>8, <1>14 DEF TypeOK
<1>17. \A u \in Thread : TxInv(tx[u])'
  BY <1>10, <1>11
<1> QED
  BY <1>12, <1>13, <1>15, <1>16, <1>17 DEF IInv

-----------------------------------------------------------------------------
(* Scans. *)

LEMMA ScanStep ==
  ASSUME IInv, \/ \E version \in ScanVersion, es \in {Node, Rel} : ScanStart(version, es)
               \/ \E e \in Entity : ScanNext(e)
  PROVE  IInv'
<1>1. UNCHANGED <<record, tx>>
  BY DEF ScanStart, ScanNext
<1>2. \A v : Snapshot(v)' = Snapshot(v)
  BY <1>1 DEF Snapshot, InUse
<1>3. ASSUME NEW u \in Thread PROVE TxInv(tx[u])'
  BY <1>1 DEF IInv, TxInv, Own, Covered, Attached, Detached, KeepsPast, Waiting, InUse
<1>4. EndsInUse' /\ \A t, u \in Thread : t # u => Apart(tx[t], tx[u])'
  BY <1>1 DEF IInv, EndsInUse, InUse, Apart
<1>5. ASSUME NEW version \in ScanVersion, NEW es \in {Node, Rel}, ScanStart(version, es)
      PROVE  scan' \in Scan /\ ScanInv'
  <2>1. Snapshot(version) \subseteq Entity /\ es \subseteq Entity
    BY DEF Snapshot, Entity
  <2>2. scan' \in Scan
    BY <1>5, <2>1, ScanAssumption DEF ScanStart, Scan
  <2> QED
    BY <1>1, <1>5, <2>1, <2>2 DEF ScanStart, ScanInv, Snapshot, InUse
<1>6. ASSUME NEW e \in Entity, ScanNext(e)
      PROVE  scan' \in Scan /\ ScanInv'
  <2> DEFINE seen == IF e \in Snapshot(scan.version) THEN scan.seen \cup {e} ELSE scan.seen
  <2>1. scan \in Scan /\ e \in scan.todo
    BY <1>6 DEF IInv, TypeOK, ScanNext
  <2>2. seen \subseteq Entity /\ scan' = [scan EXCEPT !.todo = @ \ {e}, !.seen = seen]
    BY <1>6, <2>1 DEF ScanNext, Scan
  <2>3. seen \cup ((scan.todo \ {e}) \cap Snapshot(scan.version))
          = scan.seen \cup (scan.todo \cap Snapshot(scan.version))
    BY <2>1
  <2> HIDE DEF seen
  <2>4. /\ scan' \in Scan /\ scan'.version = scan.version /\ scan'.todo = scan.todo \ {e}
        /\ scan'.seen = seen /\ scan'.snapshot = scan.snapshot
        /\ scan'.disturbed = scan.disturbed
    BY <2>1, <2>2 DEF Scan
  <2>5. Snapshot(scan.version)' = Snapshot(scan.version)
    BY <1>1, <2>4 DEF Snapshot, InUse
  <2> QED
    BY <2>3, <2>4, <2>5 DEF IInv, ScanInv
<1>7. TypeOK'
  BY <1>1, <1>5, <1>6 DEF IInv, TypeOK
<1> QED
  BY <1>3, <1>4, <1>5, <1>6, <1>7 DEF IInv

-----------------------------------------------------------------------------
(* The theorems. *)

LEMMA InitIInv == Init => IInv
<1> SUFFICES ASSUME Init PROVE IInv
  OBVIOUS
<1>1. TypeOK
  BY NewInv, LimitAssumption DEF Init, TypeOK, Scan, HalfVersion
<1>2. \A t \in Thread : TxInv(tx[t])
  BY NewInv DEF Init
<1>3. \A t, u \in Thread : t # u => Apart(tx[t], tx[u])
  BY DEF Init, Apart, NewTransaction
<1>4. EndsInUse
  BY DEF Init, EndsInUse, InUse, Entity
<1>5. ScanInv
  BY DEF Init, ScanInv
<1> QED
  BY <1>1, <1>2, <1>3, <1>4, <1>5 DEF IInv

LEMMA NextIInv == IInv /\ [Next]_vars => IInv'
<1> SUFFICES ASSUME IInv, [Next]_vars PROVE IInv'
  OBVIOUS
<1>1. ASSUME NEW t \in Thread, NEW n \in Node, NEW ver \in TxVersion \cup {Nothing}, NodeCreate(t, n, ver)
      PROVE  IInv'
  BY <1>1, NodeCreateStep
<1>2. ASSUME NEW t \in Thread, NEW r \in Rel, NEW ver \in TxVersion, RelationshipCreate(t, r, ver)
      PROVE  IInv'
  BY <1>2, RelationshipCreateStep
<1>3. ASSUME NEW t \in Thread, NEW n \in Node, NEW ver \in TxVersion, NodeDelete(t, n, ver)
      PROVE  IInv'
  BY <1>3, NodeDeleteStep
<1>4. ASSUME NEW t \in Thread, NEW r \in Rel, RelationshipLoad(t, r) PROVE IInv'
  BY <1>4, RelationshipLoadStep
<1>5. ASSUME NEW t \in Thread, NEW ver \in TxVersion, RelationshipDelete(t, ver) PROVE IInv'
  BY <1>5, RelationshipDeleteStep
<1>6. ASSUME NEW t \in Thread, NEW n \in Node, NodeDetachDelete(t, n) PROVE IInv'
  BY <1>6, NodeDetachDeleteStep
<1>7. ASSUME NEW t \in Thread, Commit(t) PROVE IInv'
  BY <1>7, CommitStep
<1>8. ASSUME NEW t \in Thread, Applied(t) \/ Rollback(t) PROVE IInv'
  BY <1>8, EndStep
<1>9. ASSUME NEW t \in Thread, NEW e \in Entity, Apply(t, e) PROVE IInv'
  BY <1>9, ApplyStep
<1>10. ASSUME \/ \E version \in ScanVersion, es \in {Node, Rel} : ScanStart(version, es)
              \/ \E e \in Entity : ScanNext(e)
       PROVE  IInv'
  BY <1>10, ScanStep
<1>11. CASE UNCHANGED vars
  BY <1>11 DEF vars, IInv, TypeOK, TxInv, Own, Covered, Attached, Detached, KeepsPast, Waiting,
    InUse, Apart, EndsInUse, ScanInv, Snapshot
<1> QED
  BY <1>1, <1>2, <1>3, <1>4, <1>5, <1>6, <1>7, <1>8, <1>9, <1>10, <1>11 DEF Next

LEMMA Invariance == Spec => []IInv
BY InitIInv, NextIInv, PTL DEF Spec

(* Records, transactions and the scan are of the types the module gives    *)
(* them: no command writes the mark of a record that is not in use, and no *)
(* deletion computes a stamp that is none.                                 *)
THEOREM TypeCorrect == Spec => []TypeOK
<1>1. IInv => TypeOK
  BY DEF IInv
<1> QED
  BY <1>1, Invariance, PTL

(* No two open transactions hold changes of the same entity, although      *)
(* DETACH DELETE takes no lock of a relationship.                          *)
THEOREM WritesApart == Spec => []WritesExclusive
<1>1. IInv => WritesExclusive
  BY Exclusive DEF WritesExclusive, Touched, TouchedBy, Stamped, StampedBy
<1> QED
  BY <1>1, Invariance, PTL

(* Every relationship in use has its nodes, for any graph, or the commit   *)
(* that has made it is about to write them.                                *)
THEOREM NoLooseEnds == Spec => []EndsInUse
<1>1. IInv => EndsInUse
  BY DEF IInv
<1> QED
  BY <1>1, Invariance, PTL

(* No commit changes what versions up to the end of an entity show of it,  *)
(* but for relationships deleted by a stale stamp.                         *)
THEOREM PastIsKept == Spec => PastKept
<1> DEFINE Past == \A e \in Entity : record[e] # NotInUse /\ record'[e] # NotInUse =>
                     \/ \E t \in Thread : e \in tx[t].raced
                     \/ \A v \in 0 .. getEndVersion(record'[e]) :
                          InSingleVersion(record[e], v) <=> InSingleVersion(record'[e], v)
<1>1. IInv /\ [Next]_vars => [Past]_vars
  <2> SUFFICES ASSUME IInv, [Next]_vars PROVE Past
    OBVIOUS
  <2>1. CASE record' = record
    BY <2>1
  <2>2. ASSUME NEW t \in Thread, NEW e \in Entity, Apply(t, e) PROVE Past
    <3> SUFFICES ASSUME NEW d \in Entity, record[d] # NotInUse, record'[d] # NotInUse,
                        ~\E u \in Thread : d \in tx[u].raced
                 PROVE  SamePast(record[d], record'[d])
      BY DEF SamePast
    <3>1. CASE d # e
      BY <2>2, <3>1, Writes DEF SamePast
    <3>2. CASE d = e
      <4>1. e \notin tx[t].removed /\ e \notin tx[t].raced
        BY <2>2, <3>2, Writes
      <4>2. e \notin tx[t].created
        BY <3>2 DEF IInv, TxInv, Own, InUse
      <4> QED
        BY <2>2, <3>2, <4>1, <4>2, Writes
    <3> QED
      BY <3>1, <3>2
  <2>3. ASSUME NEW t \in Thread,
               \/ \E n \in Node, ver \in TxVersion \cup {Nothing} : NodeCreate(t, n, ver)
               \/ \E r \in Rel, ver \in TxVersion : RelationshipCreate(t, r, ver)
               \/ \E n \in Node, ver \in TxVersion : NodeDelete(t, n, ver)
               \/ \E r \in Rel : RelationshipLoad(t, r)
        PROVE  record' = record
    BY <2>3 DEF NodeCreate, RelationshipCreate, NodeDelete, RelationshipLoad
  <2>4. ASSUME NEW t \in Thread,
               \/ \E ver \in TxVersion : RelationshipDelete(t, ver)
               \/ \E n \in Node : NodeDetachDelete(t, n)
               \/ Commit(t) \/ Applied(t) \/ Rollback(t)
        PROVE  record' = record
    BY <2>4 DEF RelationshipDelete, NodeDetachDelete, Commit, Applied, Rollback
  <2>5. ASSUME \/ \E version \in ScanVersion, es \in {Node, Rel} : ScanStart(version, es)
               \/ \E e \in Entity : ScanNext(e)
        PROVE  record' = record
    BY <2>5 DEF ScanStart, ScanNext
  <2>6. CASE UNCHANGED vars
    BY <2>6 DEF vars
  <2> QED
    BY <2>1, <2>2, <2>3, <2>4, <2>5, <2>6 DEF Next
<1> QED
  BY <1>1, Invariance, PTL DEF Spec, PastKept

(* A scan returns what its version held when it began, however many        *)
(* commits of that version or later ones it interleaves with.              *)
THEOREM ScansRepeat == Spec => []ScanRepeatable
<1>1. IInv => ScanRepeatable
  BY DEF IInv, ScanInv, ScanRepeatable
<1> QED
  BY <1>1, Invariance, PTL

-----------------------------------------------------------------------------
(* The versioned graph.  A deletion that did not race ends a stamp that    *)
(* has not ended and keeps its start: the second invariant says so of each *)
(* pending stamp, and makes its command a step of the versioned graph.     *)

EndsRecord(old, new) ==
  ~hasEndVersion(old) /\ getStartVersion(new) = getStartVersion(old)

EndsOwn ==
  \A t \in Thread : \A e \in StampedBy(tx[t]) \ (tx[t].created \cup tx[t].raced) :
    EndsRecord(record[e], tx[t].stamp[e])

\* A step that leaves the store alone has to show it of what it stamps.
LEMMA StampsEnd ==
  ASSUME IInv, EndsOwn, NEW t \in Thread, NEW after,
         tx' = [tx EXCEPT ![t] = after], record' = record,
         \A e \in Entity : after.stamp[e] # Nothing /\ e \notin after.created \cup after.raced =>
           \/ /\ after.stamp[e] = tx[t].stamp[e]
              /\ e \notin tx[t].created \cup tx[t].raced
           \/ EndsRecord(record[e], after.stamp[e])
  PROVE  EndsOwn'
<1>1. tx'[t] = after /\ \A u \in Thread \ {t} : tx'[u] = tx[u]
  BY DEF IInv, TypeOK
<1>2. ASSUME NEW u \in Thread, NEW e \in StampedBy(tx'[u]) \ (tx'[u].created \cup tx'[u].raced)
      PROVE  EndsRecord(record'[e], tx'[u].stamp[e])
  <2>1. CASE u = t
    BY <1>1, <1>2, <2>1 DEF EndsOwn, StampedBy
  <2>2. CASE u # t
    BY <1>1, <1>2, <2>2 DEF EndsOwn
  <2> QED
    BY <2>1, <2>2
<1> QED
  BY <1>2 DEF EndsOwn, StampedBy, EndsRecord

LEMMA EndedEnds ==
  ASSUME NEW old \in Stamp, NEW ver \in TxVersion, NEW pending \in Stamp \cup {Nothing},
         Ended(old, ver, pending) # Nothing
  PROVE  \/ Ended(old, ver, pending) = pending
         \/ EndsRecord(old, Ended(old, ver, pending))
<1>1. ver \in Stamp
  BY StampsAssumption
<1> QED
  BY <1>1, EndedBy DEF Ended, EndsRecord

\* No step but the application of a command changes a record.
LEMMA OperationEnds ==
  ASSUME IInv, EndsOwn, NEW t \in Thread,
         \/ \E n \in Node, ver \in TxVersion \cup {Nothing} : NodeCreate(t, n, ver)
         \/ \E r \in Rel, ver \in TxVersion : RelationshipCreate(t, r, ver)
         \/ \E n \in Node, ver \in TxVersion : NodeDelete(t, n, ver)
         \/ \E r \in Rel : RelationshipLoad(t, r)
         \/ \E ver \in TxVersion : RelationshipDelete(t, ver)
         \/ \E n \in Node : NodeDetachDelete(t, n)
         \/ Commit(t) \/ Applied(t) \/ Rollback(t)
  PROVE  EndsOwn' /\ record' = record
<1>0. /\ tx[t] \in Transaction /\ record \in [Entity -> Stamp \cup {NotInUse}]
      /\ tx[t].stamp \in [Entity -> Stamp \cup {Nothing}] /\ tx[t].raced \subseteq Rel
      /\ tx[t].created \subseteq Entity /\ tx[t].deleting \in Rel \cup {Nothing}
  BY DEF IInv, TypeOK, Transaction
<1>1. ASSUME NEW n \in Node, NEW ver \in TxVersion \cup {Nothing}, NodeCreate(t, n, ver)
      PROVE  EndsOwn' /\ record' = record
  <2> DEFINE after == [tx[t] EXCEPT !.reserved = @ \cup {n}, !.created = @ \cup {n},
                                    !.stamp = [tx[t].stamp EXCEPT ![n] = ver]]
  <2>1. tx' = [tx EXCEPT ![t] = after] /\ record' = record
    BY <1>0, <1>1 DEF NodeCreate, Transaction
  <2>2. /\ after.created = tx[t].created \cup {n} /\ after.raced = tx[t].raced
        /\ \A e \in Entity \ {n} : after.stamp[e] = tx[t].stamp[e]
    BY <1>0 DEF Transaction
  <2> HIDE DEF after
  <2> QED
    BY <2>1, <2>2, StampsEnd
<1>2. ASSUME NEW r \in Rel, NEW ver \in TxVersion, RelationshipCreate(t, r, ver)
      PROVE  EndsOwn' /\ record' = record
  <2> DEFINE after == [tx[t] EXCEPT !.reserved = @ \cup {r}, !.created = @ \cup {r},
                                    !.stamp = [tx[t].stamp EXCEPT ![r] = ver],
                                    !.locks = @ \cup Wanted(t, Ends[r])]
  <2>1. tx' = [tx EXCEPT ![t] = after] /\ record' = record
    BY <1>0, <1>2 DEF RelationshipCreate, Transaction
  <2>2. /\ after.created = tx[t].created \cup {r} /\ after.raced = tx[t].raced
        /\ \A e \in Entity \ {r} : after.stamp[e] = tx[t].stamp[e]
    BY <1>0 DEF Transaction
  <2> HIDE DEF after
  <2> QED
    BY <2>1, <2>2, StampsEnd
\* What Forget drops has no stamp afterwards, and the rest is as before.
<1>3. ASSUME NEW s \in Transaction, NEW es \in SUBSET Entity,
             s.stamp = tx[t].stamp, s.created = tx[t].created, s.raced = tx[t].raced
      PROVE  \A e \in Entity : Forget(s, es).stamp[e] # Nothing
                                 /\ e \notin Forget(s, es).created \cup Forget(s, es).raced =>
               /\ Forget(s, es).stamp[e] = tx[t].stamp[e]
               /\ e \notin tx[t].created \cup tx[t].raced
  BY <1>0, <1>3, Forgotten DEF StampedBy
<1>4. ASSUME NEW n \in Node, NEW ver \in TxVersion, NodeDelete(t, n, ver)
      PROVE  EndsOwn' /\ record' = record
  <2>0. record' = record
    BY <1>4 DEF NodeDelete
  <2>1. CASE n \in tx[t].created
    <3> DEFINE after == Forget(tx[t], {n})
    <3>1. tx' = [tx EXCEPT ![t] = after] /\ {n} \in SUBSET Entity
      BY <1>4, <2>1 DEF NodeDelete, Entity
    <3>2. \A e \in Entity : after.stamp[e] # Nothing /\ e \notin after.created \cup after.raced =>
            /\ after.stamp[e] = tx[t].stamp[e]
            /\ e \notin tx[t].created \cup tx[t].raced
      BY <1>0, <1>3, <3>1
    <3> HIDE DEF after
    <3> QED
      BY <2>0, <3>1, <3>2, StampsEnd
  <2>2. CASE n \notin tx[t].created
    <3> DEFINE new == Ended(record[n], ver, tx[t].stamp[n])
               after == [tx[t] EXCEPT !.locks = @ \cup {n}, !.stamp = [tx[t].stamp EXCEPT ![n] = new]]
    <3>1. tx' = [tx EXCEPT ![t] = after]
      BY <1>0, <1>4, <2>2 DEF NodeDelete, Transaction
    <3>2. n \in Entity /\ record[n] \in Stamp /\ n \notin tx[t].raced
      BY <1>0, <1>4, <2>2, DistinctEntities DEF NodeDelete, Exists, InUse, Entity
    <3>3. new # Nothing => new = tx[t].stamp[n] \/ EndsRecord(record[n], new)
      BY <1>0, <3>2, EndedEnds
    <3> HIDE DEF new
    <3>4. /\ after.created = tx[t].created /\ after.raced = tx[t].raced /\ after.stamp[n] = new
          /\ \A e \in Entity \ {n} : after.stamp[e] = tx[t].stamp[e]
      BY <1>0, <3>2 DEF Transaction
    <3> HIDE DEF after
    <3> QED
      BY <2>0, <2>2, <3>1, <3>2, <3>3, <3>4, StampsEnd
  <2> QED
    BY <2>1, <2>2
<1>5. ASSUME NEW r \in Rel, RelationshipLoad(t, r)
      PROVE  EndsOwn' /\ record' = record
  <2> DEFINE after == [tx[t] EXCEPT !.deleting = r, !.cursor = record[r]]
  <2>1. tx' = [tx EXCEPT ![t] = after] /\ record' = record
    BY <1>0, <1>5 DEF RelationshipLoad, Transaction
  <2>2. after.created = tx[t].created /\ after.raced = tx[t].raced /\ after.stamp = tx[t].stamp
    BY <1>0 DEF Transaction
  <2> HIDE DEF after
  <2> QED
    BY <2>1, <2>2, StampsEnd
<1>6. ASSUME NEW ver \in TxVersion, RelationshipDelete(t, ver)
      PROVE  EndsOwn' /\ record' = record
  <2> DEFINE r == tx[t].deleting
             wanted == Wanted(t, Ends[r] \cup {r})
             done == [tx[t] EXCEPT !.locks = @ \cup wanted, !.deleting = Nothing, !.cursor = Nothing]
             stale == tx[t].cursor # record[r]
             new == Ended(tx[t].cursor, ver, tx[t].stamp[r])
             after == IF ~Exists(t, r) THEN done
                      ELSE IF r \in tx[t].created THEN Forget(done, {r})
                      ELSE [done EXCEPT !.stamp = [tx[t].stamp EXCEPT ![r] = new],
                                        !.raced = IF stale THEN @ \cup {r} ELSE @]
  <2>1. record' = record /\ r \in Rel /\ r \in Entity
    BY <1>0, <1>6 DEF RelationshipDelete, Entity
  <2>2. done.stamp = tx[t].stamp /\ done.created = tx[t].created /\ done.raced = tx[t].raced
    BY <1>0 DEF Transaction
  <2>2a. wanted \subseteq Entity
    BY <1>0, <2>1, EndsAssumption DEF Wanted, Entity
  <2>2b. done \in Transaction
    BY <1>0, <2>2a DEF Transaction
  <2>3. tx' = [tx EXCEPT ![t] = after]
    <3>1. done.stamp = tx[t].stamp
      BY <2>2
    <3> HIDE DEF wanted, stale
    <3> QED
      BY <1>6, <3>1 DEF RelationshipDelete, wanted, stale
  <2>4. CASE ~Exists(t, r)
    <3>1. after = done
      BY <2>4
    <3> HIDE DEF after, done
    <3> QED
      BY <2>1, <2>2, <2>3, <3>1, StampsEnd
  <2>5. CASE Exists(t, r) /\ r \in tx[t].created
    <3>1. after = Forget(done, {r}) /\ {r} \in SUBSET Entity
      BY <2>1, <2>5
    <3> HIDE DEF after, done
    <3>2. \A e \in Entity : after.stamp[e] # Nothing /\ e \notin after.created \cup after.raced =>
            /\ after.stamp[e] = tx[t].stamp[e]
            /\ e \notin tx[t].created \cup tx[t].raced
      BY <1>3, <2>2, <2>2b, <3>1
    <3> QED
      BY <2>1, <2>3, <3>2, StampsEnd
  <2>6. CASE Exists(t, r) /\ r \notin tx[t].created
    <3> DEFINE changed == [done EXCEPT !.stamp = [tx[t].stamp EXCEPT ![r] = new],
                                       !.raced = IF stale THEN @ \cup {r} ELSE @]
    <3>1. after = changed
      BY <2>6
    <3>2. InUse(r) /\ record[r] \in Stamp
      BY <1>0, <2>1, <2>6 DEF Exists, InUse
    <3>3. ~stale /\ new # Nothing => new = tx[t].stamp[r] \/ EndsRecord(record[r], new)
      BY <1>0, <2>1, <3>2, EndedEnds
    <3>4. /\ changed.created = tx[t].created
          /\ changed.raced = IF stale THEN tx[t].raced \cup {r} ELSE tx[t].raced
          /\ changed.stamp = [tx[t].stamp EXCEPT ![r] = new]
      <4> HIDE DEF new, stale
      <4> QED
        BY <2>2, <2>2b DEF Transaction
    <3>5. changed.stamp[r] = new /\ \A e \in Entity \ {r} : changed.stamp[e] = tx[t].stamp[e]
      <4> HIDE DEF new, changed
      <4> QED
        BY <1>0, <2>1, <3>4
    <3> HIDE DEF new, stale, changed, after
    <3>6. \A e \in Entity : after.stamp[e] # Nothing /\ e \notin after.created \cup after.raced =>
            \/ /\ after.stamp[e] = tx[t].stamp[e]
               /\ e \notin tx[t].created \cup tx[t].raced
            \/ EndsRecord(record[e], after.stamp[e])
      BY <2>6, <3>1, <3>3, <3>4, <3>5
    <3> QED
      BY <2>1, <2>3, <3>6, StampsEnd
  <2> QED
    BY <2>4, <2>5, <2>6
<1>7. ASSUME NEW n \in Node, NodeDetachDelete(t, n)
      PROVE  EndsOwn' /\ record' = record
  <2> DEFINE rels == {r \in Rel : n \in Ends[r] /\ Exists(t, r)}
             gone == {n} \cup rels
             wanted == Wanted(t, {n} \cup UNION {Ends[r] : r \in rels})
             rest == Forget(tx[t], gone)
             after == [rest EXCEPT !.removed = @ \cup (gone \ tx[t].created), !.locks = @ \cup wanted]
  <2>1. gone \in SUBSET Entity
    BY DEF Entity
  <2>2. tx' = [tx EXCEPT ![t] = after] /\ record' = record
    BY <1>7 DEF NodeDetachDelete
  <2> HIDE DEF gone, wanted
  <2>3. rest \in Transaction
    BY <1>0, <2>1, Forgotten
  <2>4. \A e \in Entity : rest.stamp[e] # Nothing /\ e \notin rest.created \cup rest.raced =>
          /\ rest.stamp[e] = tx[t].stamp[e]
          /\ e \notin tx[t].created \cup tx[t].raced
    BY <1>0, <1>3, <2>1
  <2> HIDE DEF rest
  <2>5. after.created = rest.created /\ after.raced = rest.raced /\ after.stamp = rest.stamp
    BY <2>3 DEF Transaction
  <2> HIDE DEF after
  <2>6. \A e \in Entity : after.stamp[e] # Nothing /\ e \notin after.created \cup after.raced =>
          \/ /\ after.stamp[e] = tx[t].stamp[e]
             /\ e \notin tx[t].created \cup tx[t].raced
          \/ EndsRecord(record[e], after.stamp[e])
    BY <2>4, <2>5
  <2> QED
    BY <2>2, <2>6, StampsEnd
<1>8. ASSUME Commit(t)
      PROVE  EndsOwn' /\ record' = record
  <2> DEFINE after == [tx[t] EXCEPT !.applying = TRUE]
  <2>1. tx' = [tx EXCEPT ![t] = after] /\ record' = record
    BY <1>8 DEF Commit
  <2>2. after.created = tx[t].created /\ after.raced = tx[t].raced /\ after.stamp = tx[t].stamp
    BY <1>0 DEF Transaction
  <2> HIDE DEF after
  <2> QED
    BY <2>1, <2>2, StampsEnd
<1>9. ASSUME Applied(t) \/ Rollback(t)
      PROVE  EndsOwn' /\ record' = record
  <2> DEFINE after == NewTransaction
  <2>1. tx' = [tx EXCEPT ![t] = after] /\ record' = record
    BY <1>9 DEF Applied, Rollback
  <2>2. \A e \in Entity : after.stamp[e] = Nothing
    BY DEF NewTransaction
  <2> HIDE DEF after
  <2>3. \A e \in Entity : after.stamp[e] # Nothing /\ e \notin after.created \cup after.raced =>
          \/ /\ after.stamp[e] = tx[t].stamp[e]
             /\ e \notin tx[t].created \cup tx[t].raced
          \/ EndsRecord(record[e], after.stamp[e])
    BY <2>2
  <2> QED
    BY <2>1, <2>3, StampsEnd
<1> QED
  BY <1>1, <1>2, <1>4, <1>5, <1>6, <1>7, <1>8, <1>9

LEMMA ApplyEnds ==
  ASSUME IInv, EndsOwn, NEW t \in Thread, NEW e \in Entity, Apply(t, e)
  PROVE  EndsOwn'
<1> DEFINE rest == Forget(tx[t], {e})
           after == [rest EXCEPT !.removed = @ \ {e}, !.raced = @ \ {e}]
<1>1. tx[t] \in Transaction /\ {e} \in SUBSET Entity
  BY DEF IInv, TypeOK
<1>2. tx' = [tx EXCEPT ![t] = after]
  BY DEF Apply
<1>3. /\ rest \in Transaction /\ rest.created = tx[t].created \ {e} /\ rest.raced = tx[t].raced
      /\ StampedBy(rest) = StampedBy(tx[t]) \ {e}
      /\ \A d \in Entity \ {e} : rest.stamp[d] = tx[t].stamp[d]
  BY <1>1, Forgotten
<1> HIDE DEF rest
<1>4. after.created = rest.created /\ after.raced = rest.raced \ {e} /\ after.stamp = rest.stamp
  BY <1>3 DEF Transaction
<1> HIDE DEF after
<1>5. tx'[t] = after /\ \A u \in Thread \ {t} : tx'[u] = tx[u]
  BY <1>2 DEF IInv, TypeOK
<1>6. \A d \in Entity \ {e} : record'[d] = record[d]
  BY Writes
<1>7. ASSUME NEW u \in Thread, NEW d \in Entity, tx'[u].stamp[d] # Nothing,
             d \notin tx'[u].created \cup tx'[u].raced
      PROVE  d # e /\ tx'[u].stamp[d] = tx[u].stamp[d] /\ d \notin tx[u].created \cup tx[u].raced
  <2>1. CASE u = t
    <3>1. d \in StampedBy(rest)
      BY <1>4, <1>5, <1>7, <2>1 DEF StampedBy
    <3> QED
      BY <1>3, <1>4, <1>5, <1>7, <2>1, <3>1
  <2>2. CASE u # t
    <3>1. d \in TouchedBy(tx[u])
      BY <1>5, <1>7, <2>2 DEF TouchedBy, StampedBy
    <3>2. e \in TouchedBy(tx[t])
      BY DEF Apply, Touched, TouchedBy, Stamped, StampedBy
    <3> QED
      BY <1>5, <1>7, <2>2, <3>1, <3>2, Exclusive
  <2> QED
    BY <2>1, <2>2
<1>8. ASSUME NEW u \in Thread, NEW d \in Entity, tx'[u].stamp[d] # Nothing,
             d \notin tx'[u].created \cup tx'[u].raced
      PROVE  EndsRecord(record'[d], tx'[u].stamp[d])
  <2>1. d # e /\ tx'[u].stamp[d] = tx[u].stamp[d] /\ d \notin tx[u].created \cup tx[u].raced
    BY <1>7, <1>8
  <2>2. EndsRecord(record[d], tx[u].stamp[d])
    BY <1>8, <2>1 DEF EndsOwn, StampedBy
  <2> QED
    BY <1>6, <2>1, <2>2
<1> QED
  BY <1>8 DEF EndsOwn, StampedBy, EndsRecord

LEMMA NextEndsOwn == IInv /\ EndsOwn /\ [Next]_vars => EndsOwn'
<1> SUFFICES ASSUME IInv, EndsOwn, [Next]_vars PROVE EndsOwn'
  OBVIOUS
<1>1. ASSUME NEW t \in Thread,
             \/ \E n \in Node, ver \in TxVersion \cup {Nothing} : NodeCreate(t, n, ver)
             \/ \E r \in Rel, ver \in TxVersion : RelationshipCreate(t, r, ver)
             \/ \E n \in Node, ver \in TxVersion : NodeDelete(t, n, ver)
             \/ \E r \in Rel : RelationshipLoad(t, r)
             \/ \E ver \in TxVersion : RelationshipDelete(t, ver)
             \/ \E n \in Node : NodeDetachDelete(t, n)
             \/ Commit(t) \/ Applied(t) \/ Rollback(t)
      PROVE  EndsOwn'
  BY <1>1, OperationEnds
<1>2. ASSUME NEW t \in Thread, NEW e \in Entity, Apply(t, e)
      PROVE  EndsOwn'
  BY <1>2, ApplyEnds
<1>3. ASSUME \/ \E version \in ScanVersion, es \in {Node, Rel} : ScanStart(version, es)
             \/ \E e \in Entity : ScanNext(e)
             \/ UNCHANGED vars
      PROVE  EndsOwn'
  BY <1>3 DEF ScanStart, ScanNext, vars, EndsOwn, StampedBy
<1> QED
  BY <1>1, <1>2, <1>3 DEF Next

LEMMA Ending == Spec => [](IInv /\ EndsOwn)
<1>1. Init => EndsOwn
  BY DEF Init, NewTransaction, EndsOwn, StampedBy
<1> QED
  BY <1>1, InitIInv, NextIInv, NextEndsOwn, PTL DEF Spec

\* What the versions show of one entity is what its stamp says.
LEMMA Shown ==
  ASSUME NEW v \in HalfVersion, NEW e \in Entity
  PROVE  /\ e \in graph[v] <=> InUse(e) /\ InSingleVersion(record[e], v)
         /\ graph[v] \subseteq Entity
BY DEF graph, Snapshot

LEMMA ShownAfter ==
  ASSUME NEW v \in HalfVersion, NEW e \in Entity
  PROVE  /\ e \in graph'[v] <=> InUse(e)' /\ InSingleVersion(record'[e], v)
         /\ graph'[v] \subseteq Entity
BY DEF graph, Snapshot

\* A command that writes one record shows one entity in other versions.
LEMMA ShowsOne ==
  ASSUME NEW e \in Entity, \A d \in Entity \ {e} : record'[d] = record[d],
         NEW span,
         \A v \in HalfVersion : v \in span <=> InUse(e)' /\ InSingleVersion(record'[e], v)
  PROVE  VG!Show(e, span)
<1>1. VG!Version = HalfVersion
  BY DEF VG!Version, Alive, HalfVersion
<1>2. \A v \in HalfVersion :
        graph'[v] = IF v \in span THEN graph[v] \cup {e} ELSE graph[v] \ {e}
  <2> SUFFICES ASSUME NEW v \in HalfVersion
               PROVE  graph'[v] = IF v \in span THEN graph[v] \cup {e} ELSE graph[v] \ {e}
    OBVIOUS
  <2>1. \A d \in Entity : /\ d \in graph[v] <=> InUse(d) /\ InSingleVersion(record[d], v)
                          /\ d \in graph'[v] <=> InUse(d)' /\ InSingleVersion(record'[d], v)
    BY Shown, ShownAfter
  <2>2. graph[v] \subseteq Entity /\ graph'[v] \subseteq Entity
    BY Shown, ShownAfter
  <2>3. \A d \in Entity \ {e} : d \in graph[v] <=> d \in graph'[v]
    BY <2>1 DEF InUse
  <2>4. e \in graph'[v] <=> v \in span
    BY <2>1
  <2> QED
    BY <2>2, <2>3, <2>4
<1>3. graph' = [v \in HalfVersion |-> graph'[v]]
  BY DEF graph
<1>4. graph' = [v \in HalfVersion |-> IF v \in span THEN graph[v] \cup {e} ELSE graph[v] \ {e}]
  <2> HIDE DEF graph
  <2> QED
    BY <1>2, <1>3
<1> QED
  BY <1>1, <1>4 DEF VG!Show

\* The interval of a stamp is the span of its halves.
LEMMA SpanOfStamp ==
  ASSUME NEW stamp \in Stamp
  PROVE  \E s, x \in VG!Version : /\ s = getStartVersion(stamp) /\ x = getEndVersion(stamp)
           /\ \A v \in HalfVersion : v \in VG!Span(s, x) <=> InSingleVersion(stamp, v)
<1>1. VG!Version = HalfVersion
  BY DEF VG!Version, Alive, HalfVersion
<1>2. getStartVersion(stamp) \in HalfVersion /\ getEndVersion(stamp) \in HalfVersion
  BY HalvesOfStamp
<1>3. \A v \in HalfVersion : v \in VG!Span(getStartVersion(stamp), getEndVersion(stamp))
                               <=> InSingleVersion(stamp, v)
  BY <1>1 DEF VG!Span, InSingleVersion
<1> QED
  BY <1>1, <1>2, <1>3

\* The command of an entity that was created, erased, ended or raced.
LEMMA ApplyShows ==
  ASSUME IInv, EndsOwn, NEW t \in Thread, NEW e \in Entity, Apply(t, e)
  PROVE  VG!Next \/ UNCHANGED graph
<1>0. /\ \A d \in Entity \ {e} : record'[d] = record[d]
      /\ VG!Version = HalfVersion /\ Entity = Node \cup Rel
  BY Writes DEF VG!Version, Alive, HalfVersion, Entity
<1>1. CASE e \in tx[t].removed
  <2>1. ~InUse(e)'
    BY <1>1, Writes DEF InUse
  <2>2. VG!Show(e, {})
    BY <1>0, <2>1, ShowsOne
  <2> QED
    BY <1>0, <2>2 DEF VG!Next, VG!Erase
<1>2. CASE e \notin tx[t].removed
  <2>1. InUse(e)' /\ record'[e] \in Stamp
    BY <1>2, Writes, Sentinels DEF InUse
  <2>2. PICK s \in VG!Version, x \in VG!Version :
          /\ s = getStartVersion(record'[e]) /\ x = getEndVersion(record'[e])
          /\ \A v \in HalfVersion : v \in VG!Span(s, x) <=> InSingleVersion(record'[e], v)
    BY <2>1, SpanOfStamp
  <2>3. VG!Show(e, VG!Span(s, x))
    BY <1>0, <2>1, <2>2, ShowsOne
  <2>4. CASE e \in tx[t].created
    <3>1. ~InUse(e)
      BY <2>4 DEF IInv, TxInv, Own
    <3>2. \A v \in VG!Version : e \notin graph[v]
      BY <1>0, <3>1, Shown
    <3>3. VG!Appear(e)
      BY <2>3, <3>2 DEF VG!Appear
    <3> QED
      BY <1>0, <3>3 DEF VG!Next
  <2>5. CASE e \notin tx[t].created /\ e \in tx[t].raced
    <3>1. e \in Rel /\ e \in racing
      BY <2>5 DEF racing, IInv, TypeOK, Transaction
    <3>2. VG!Overwrite(e)
      BY <2>3, <3>1 DEF VG!Overwrite
    <3> QED
      BY <3>1, <3>2 DEF VG!Next
  <2>6. CASE e \notin tx[t].created /\ e \notin tx[t].raced
    <3>1. /\ e \in StampedBy(tx[t]) /\ InUse(e) /\ SamePast(record[e], record'[e])
          /\ record'[e] = tx[t].stamp[e] /\ record[e] \in Stamp
      BY <1>2, <2>6, Writes DEF StampedBy, InUse, IInv, TypeOK
    <3>2. ~hasEndVersion(record[e]) /\ getStartVersion(record'[e]) = getStartVersion(record[e])
      BY <2>6, <3>1 DEF EndsOwn, EndsRecord
    <3>3. getEndVersion(record[e]) = Alive /\ Alive \in HalfVersion
      BY <3>1, <3>2, HalvesOfStamp, LimitAssumption DEF hasEndVersion, Alive, HalfVersion
    \* The versions after its start up to the new end are left of the old interval.
    <3>4. \A v \in HalfVersion : InSingleVersion(record[e], v) <=> s < v
      BY <2>2, <3>2, <3>3, LimitAssumption DEF InSingleVersion, HalfVersion, Alive
    <3>5. \A v \in HalfVersion : InSingleVersion(record'[e], v) <=> v <= x /\ InSingleVersion(record[e], v)
      BY <2>2, <3>4 DEF InSingleVersion
    <3>6. \A v \in HalfVersion : e \in graph[v] <=> s < v
      BY <3>1, <3>4, Shown
    <3>7. CASE s < Alive
      <4> DEFINE kept == {v \in 0 .. x : e \in graph[v]}
      <4>1. e \in graph[Alive]
        BY <3>3, <3>6, <3>7
      <4>2. \A v \in HalfVersion : v \in 0 .. x <=> v <= x
        BY <1>0, <2>2, LimitAssumption DEF HalfVersion
      <4>3. \A v \in HalfVersion : v \in kept <=> InUse(e)' /\ InSingleVersion(record'[e], v)
        BY <2>1, <3>4, <3>5, <3>6, <4>2
      <4> HIDE DEF kept
      <4>4. VG!Show(e, kept)
        BY <1>0, <4>3, ShowsOne
      <4>5. VG!Vanish(e)
        BY <1>0, <2>2, <4>1, <4>4 DEF VG!Vanish, kept, VG!Version
      <4> QED
        BY <1>0, <4>5 DEF VG!Next
    \* One that no version shows yet, as it begins with the last, stays so.
    <3>8. CASE ~(s < Alive)
      <4>1. \A v \in HalfVersion : ~(s < v)
        BY <1>0, <2>2, <3>8, LimitAssumption DEF HalfVersion, Alive
      <4>2. \A v \in HalfVersion : graph'[v] = graph[v]
        <5> SUFFICES ASSUME NEW v \in HalfVersion PROVE graph'[v] = graph[v]
          OBVIOUS
        <5>1. e \notin graph[v] /\ e \notin graph'[v]
          BY <3>4, <3>5, <4>1, Shown, ShownAfter
        <5>2. \A d \in Entity \ {e} : d \in graph[v] <=> d \in graph'[v]
          BY <1>0, Shown, ShownAfter DEF InUse
        <5>3. graph[v] \subseteq Entity /\ graph'[v] \subseteq Entity
          BY Shown, ShownAfter
        <5> QED
          BY <5>1, <5>2, <5>3
      <4>3. graph = [v \in HalfVersion |-> graph[v]] /\ graph' = [v \in HalfVersion |-> graph'[v]]
        BY DEF graph
      <4>4. UNCHANGED graph
        <5> HIDE DEF graph
        <5> QED
          BY <4>2, <4>3
      <4> QED
        BY <4>4
    <3> QED
      BY <3>7, <3>8
  <2> QED
    BY <2>4, <2>5, <2>6
<1> QED
  BY <1>1, <1>2

(* The records implement the versioned graph: every command of a commit is  *)
(* one appearance, one ending, one erasure or one race of one entity, and   *)
(* nothing else changes what any version shows.                             *)
THEOREM GraphImplemented == Spec => ImplementsGraph
<1>1. Init => VG!Init
  <2> SUFFICES ASSUME Init PROVE VG!Init
    OBVIOUS
  <2>1. \A e \in Entity : ~InUse(e)
    BY DEF Init, InUse
  <2> QED
    BY <2>1 DEF VG!Init, VG!Version, graph, Snapshot, Alive, HalfVersion
<1>2. IInv /\ EndsOwn /\ [Next]_vars => [VG!Next]_graph
  <2> SUFFICES ASSUME IInv, EndsOwn, [Next]_vars PROVE VG!Next \/ UNCHANGED graph
    OBVIOUS
  <2>1. ASSUME record' = record PROVE UNCHANGED graph
    BY <2>1 DEF graph, Snapshot, InUse
  <2>2. ASSUME NEW t \in Thread, NEW e \in Entity, Apply(t, e)
        PROVE  VG!Next \/ UNCHANGED graph
    BY <2>2, ApplyShows
  <2>3. ASSUME NEW t \in Thread,
               \/ \E n \in Node, ver \in TxVersion \cup {Nothing} : NodeCreate(t, n, ver)
               \/ \E r \in Rel, ver \in TxVersion : RelationshipCreate(t, r, ver)
               \/ \E n \in Node, ver \in TxVersion : NodeDelete(t, n, ver)
               \/ \E r \in Rel : RelationshipLoad(t, r)
               \/ \E ver \in TxVersion : RelationshipDelete(t, ver)
               \/ \E n \in Node : NodeDetachDelete(t, n)
               \/ Commit(t) \/ Applied(t) \/ Rollback(t)
        PROVE  record' = record
    BY <2>3, OperationEnds
  <2>4. ASSUME \/ \E version \in ScanVersion, es \in {Node, Rel} : ScanStart(version, es)
               \/ \E e \in Entity : ScanNext(e)
               \/ UNCHANGED vars
        PROVE  record' = record
    BY <2>4 DEF ScanStart, ScanNext, vars
  <2> QED
    BY <2>1, <2>2, <2>3, <2>4 DEF Next
<1> QED
  BY <1>1, <1>2, Ending, PTL DEF Spec, VG!Spec, ImplementsGraph

===============================================================================
