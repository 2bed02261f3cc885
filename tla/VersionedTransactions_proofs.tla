---------------------- MODULE VersionedTransactions_proofs ----------------------
(***************************************************************************)
(* Proofs about pooled transactions and the version store, for any number  *)
(* of threads, transaction objects, incarnations and versions.             *)
(*                                                                         *)
(* A transaction object is at rest, in the pool or in a slot, or it serves *)
(* one transaction; the invariant says what its fields are in either case, *)
(* by how often it was initialised and released, and which versions it can *)
(* still be asked to mark.                                                 *)
(***************************************************************************)
EXTENDS VersionedTransactions, DGVersion_proofs, WellFoundedInduction

\* At rest, in the pool or in a slot.
Free(k) == k \in pooled \/ \E t \in Thread : slot[t] = k

(* Incarnation i expects the reuse count i - 1, which is that of the kti   *)
(* while it serves; what a handle terminated is the last one.              *)
Counted(x) ==
  /\ Len(x.expected) <= MaxIncarnation
  /\ \A i \in 1 .. Len(x.expected) : x.expected[i] = i - 1
  /\ x.reuseCount \in {Len(x.expected) - 1, Len(x.expected)}
  /\ x.reason \notin {None, Direct} => x.reason = Len(x.expected)

Resting(x) == x.closed /\ x.reuseCount = Len(x.expected)
Serving(x) == x.reuseCount = Len(x.expected) - 1

KtiInv(k) ==
  /\ Counted(ktx[k])
  /\ Free(k) => Resting(ktx[k])
  /\ k \in vetoed /\ ~ktx[k].closed /\ ~ktx[k].closing => ktx[k].failure

\* What transaction a can say of the kti x it uses, which was vetoed (failed).
Holds(a, x, failed) ==
  /\ a.phase \in {"open", "nested"} => ~x.closed /\ ~x.closing
  /\ a.phase \in {"committing", "rollingBack"} => ~x.closed /\ x.closing
  /\ a.phase \in {"open", "nested", "committing", "rollingBack"} => (x.success <=> a.successCalled)
  /\ a.phase = "committing" => x.success /\ ~failed
  /\ a.phase = "closed" => x.closed /\ (a.committed => ~failed)

ThreadInv(t) ==
  Using(t) =>
    /\ tx[t].kti \in Kti /\ ~Free(tx[t].kti) /\ Serving(ktx[tx[t].kti])
    /\ Holds(tx[t], ktx[tx[t].kti], tx[t].kti \in vetoed)

\* The version a close will mark has been handed out.
Marks(a) ==
  /\ a.phase = "released" => a.marking
  /\ a.nestedMarking => a.phase = "nested"
  /\ a.marking \/ a.nestedMarking =>
       a.kti \in Kti /\ getStartVersion(ktx[a.kti].version) \in Issued

(* What a transaction knows of its close: nothing before the commit or the *)
(* rollback has ended; a close that has not thrown by then did what the    *)
(* client asked for, and only such a one goes on to the mark.              *)
Honest(a) ==
  /\ a.phase \in {"open", "nested", "committing", "rollingBack"} => a.result = "none"
  /\ a.phase = "closed" => a.result # "none"
  /\ a.phase = "released" => a.result = "returned"
  /\ a.result = "none" => ~a.committed
  /\ a.result = "returned" => (a.successCalled <=> a.committed)

\* One place for each kti.
PoolInv ==
  /\ \A t \in Thread : slot[t] # None =>
       slot[t] \notin pooled /\ \A u \in Thread \ {t} : slot[u] # slot[t]
  /\ \A t, u \in Thread : t # u /\ Using(t) /\ Using(u) => tx[t].kti # tx[u].kti

IdsInv == (\A v \in freed : v < highId) /\ marked \subseteq Issued /\ flushed \subseteq marked

IInv ==
  /\ TypeOK
  /\ PoolInv
  /\ IdsInv
  /\ \A k \in Kti : KtiInv(k)
  /\ \A t \in Thread : ThreadInv(t) /\ Marks(tx[t])

-----------------------------------------------------------------------------
(* Versions. *)

LEMMA StartOf ==
  ASSUME NEW v \in HalfVersion
  PROVE  setStartVersion(v) \in Stamp /\ getStartVersion(setStartVersion(v)) = v
<1>1. v \in Int /\ Alive \in Int /\ v % Limit = v
  BY LimitAssumption DEF HalfVersion, Alive
<1> QED
  BY <1>1, Unpack DEF setStartVersion

\* The store stays sound while a version is handed out.
LEMMA StampedStep ==
  ASSUME IInv, NEW k \in Kti, NEW mark \in BOOLEAN, NEW stamp \in Stamp,
         Stamped(k, mark, stamp), UNCHANGED <<marked, flushed>>
  PROVE  /\ IdsInv' /\ highId' \in 0 .. MaxVersion /\ freed' \subseteq HalfVersion
         /\ Issued \subseteq Issued'
         /\ mark \/ getStartVersion(ktx[k].version) \in Issued =>
              getStartVersion(stamp) \in Issued'
<1>1. /\ highId \in 0 .. MaxVersion /\ highId \in Nat /\ MaxVersion \in Nat /\ MaxVersion < Limit
      /\ freed \subseteq HalfVersion /\ \A w \in freed : w \in Nat /\ w < highId
      /\ marked \subseteq Issued /\ flushed \subseteq marked /\ Limit \in Nat
  BY VersionBound, LimitAssumption DEF IInv, IdsInv, TypeOK, HalfVersion
<1>2. CASE UNCHANGED ids /\ \E v \in Issued : stamp = setStartVersion(v)
  <2>1. PICK v \in Issued : stamp = setStartVersion(v)
    BY <1>2
  <2>2. v \in HalfVersion
    BY <1>1 DEF Issued, HalfVersion
  <2>3. getStartVersion(stamp) \in Issued
    BY <2>1, <2>2, StartOf
  <2> QED
    BY <1>1, <1>2, <2>3 DEF ids, IdsInv, Issued
<1>3. CASE UNCHANGED ids /\ ~mark /\ stamp = ktx[k].version
  BY <1>1, <1>3 DEF ids, IdsInv, Issued
<1>4. CASE \E v \in NextIds : /\ stamp = setStartVersion(v)
                              /\ freed' = freed \ {v}
                              /\ highId' = IF v = highId THEN highId + 1 ELSE highId
  <2>1. PICK v \in NextIds : /\ stamp = setStartVersion(v)
                             /\ freed' = freed \ {v}
                             /\ highId' = IF v = highId THEN highId + 1 ELSE highId
    BY <1>4
  <2>2. v \in 0 .. highId /\ v < MaxVersion /\ (v = highId => freed = {})
    BY <1>1, <2>1 DEF NextIds
  <2>3. v \in HalfVersion
    BY <1>1, <2>2 DEF HalfVersion
  <2>4. getStartVersion(stamp) = v
    BY <2>1, <2>3, StartOf
  <2>5. highId' \in 0 .. MaxVersion /\ highId' \in Nat /\ highId <= highId' /\ v < highId'
    BY <1>1, <2>1, <2>2
  <2>6. Issued \subseteq Issued' /\ v \in Issued'
    BY <1>1, <2>1, <2>2, <2>5 DEF Issued
  <2>7. IdsInv'
    <3>1. marked' \subseteq Issued' /\ flushed' \subseteq marked'
      BY <1>1, <2>6
    <3>2. \A w \in freed' : w \in Int /\ w < highId'
      BY <1>1, <2>1, <2>5 DEF HalfVersion
    <3> QED
      BY <3>1, <3>2 DEF IdsInv
  <2>8. freed' \subseteq HalfVersion
    BY <1>1, <2>1
  <2> QED
    BY <2>4, <2>5, <2>6, <2>7, <2>8
<1> QED
  BY <1>2, <1>3, <1>4 DEF Stamped

\* The least number above a bounded set of numbers.
LEMMA HighId ==
  ASSUME NEW records \in SUBSET (0 .. MaxVersion - 1)
  PROVE  /\ ScanForHighId(records) \in 0 .. MaxVersion
         /\ records \subseteq 0 .. ScanForHighId(records) - 1
         /\ ScanForHighId(records) # 0 => ScanForHighId(records) - 1 \in records
<1> DEFINE above == {h \in 0 .. MaxVersion : \A v \in records : v < h}
           less == {pair \in Nat \X Nat : pair[1] < pair[2]}
<1>1. MaxVersion \in above /\ above \subseteq Nat
  BY VersionBound
<1>2. IsWellFoundedOn(less, Nat)
  BY NatLessThanWellFounded, Zenon DEF OpToRel
<1>3. PICK h \in above : \A g \in above : ~(g < h)
  <2>1. above # {} /\ above \subseteq Nat
    BY <1>1
  <2>2. \A g, i \in Nat : g < i => <<g, i>> \in less
    OBVIOUS
  <2> HIDE DEF above, less
  <2>3. PICK h \in above : \A g \in above : ~(<<g, h>> \in less)
    BY <1>2, <2>1, WFMin
  <2> QED
    BY <2>1, <2>2, <2>3
<1>4. h = 0 \/ h - 1 \in records
  <2> SUFFICES ASSUME h # 0, h - 1 \notin records PROVE FALSE
    OBVIOUS
  <2>1. h - 1 \in above
    BY VersionBound
  <2> QED
    BY <1>3, <2>1
<1>5. \E g \in 0 .. MaxVersion : (\A v \in records : v < g) /\ (g = 0 \/ g - 1 \in records)
  BY <1>4
<1>6. /\ ScanForHighId(records) \in 0 .. MaxVersion
      /\ \A v \in records : v < ScanForHighId(records)
      /\ ScanForHighId(records) # 0 => ScanForHighId(records) - 1 \in records
  BY <1>5 DEF ScanForHighId
<1> QED
  BY <1>6, VersionBound

-----------------------------------------------------------------------------
(* Steps of one kti and of one transaction. *)

\* A kti at rest begins its next incarnation.
LEMMA Initialized ==
  ASSUME NEW x \in KernelTransaction, Counted(x), Resting(x),
         Len(x.expected) < MaxIncarnation
  PROVE  LET y == initialize(x) IN
         /\ y \in KernelTransaction /\ Counted(y) /\ Serving(y)
         /\ y.reason = None /\ ~y.closed /\ ~y.closing /\ ~y.failure /\ ~y.success
         /\ y.version = x.version /\ y.reuseCount = x.reuseCount
         /\ Len(y.expected) = Len(x.expected) + 1
<1> DEFINE y == initialize(x)
<1>1. /\ x.expected \in Seq(0 .. MaxIncarnation) /\ x.reuseCount \in 0 .. MaxIncarnation
      /\ MaxIncarnation \in Nat /\ x.reuseCount = Len(x.expected)
      /\ \A i \in 1 .. Len(x.expected) : x.expected[i] = i - 1
  BY IncarnationBound DEF KernelTransaction, Counted, Resting
<1> DEFINE longer == Append(x.expected, x.reuseCount)
<1>2. /\ longer \in Seq(0 .. MaxIncarnation) /\ Len(longer) = Len(x.expected) + 1
      /\ \A i \in 1 .. Len(x.expected) : longer[i] = x.expected[i]
      /\ longer[Len(x.expected) + 1] = x.reuseCount
  BY <1>1
<1>3. \A i \in 1 .. Len(longer) : longer[i] = i - 1
  BY <1>1, <1>2
<1> HIDE DEF longer
<1>4. y = [x EXCEPT !.reason = None, !.closing = FALSE, !.closed = FALSE,
                    !.failure = FALSE, !.success = FALSE, !.expected = longer]
  BY DEF initialize, longer
<1> HIDE DEF y
<1>5. /\ y \in KernelTransaction
      /\ y.reason = None /\ ~y.closed /\ ~y.closing /\ ~y.failure /\ ~y.success
      /\ y.version = x.version /\ y.reuseCount = x.reuseCount /\ y.expected = longer
  BY <1>2, <1>4 DEF KernelTransaction
<1>6. Counted(y) /\ Serving(y)
  BY <1>1, <1>2, <1>3, <1>5 DEF Counted, Serving
<1> QED
  BY <1>2, <1>5, <1>6 DEF y

\* What a step on kti k leaves as it was.
LEMMA OtherKtis ==
  ASSUME NEW k \in Kti, ktx \in [Kti -> KernelTransaction], NEW x, ktx' = [ktx EXCEPT ![k] = x],
         NEW j \in Kti \ {k}, KtiInv(j), Free(j)' => Free(j),
         j \in vetoed' <=> j \in vetoed
  PROVE  KtiInv(j)'
<1>1. ktx'[j] = ktx[j]
  OBVIOUS
<1> QED
  BY <1>1 DEF KtiInv

LEMMA OtherThreads ==
  ASSUME NEW k \in Kti, ktx \in [Kti -> KernelTransaction], NEW x, ktx' = [ktx EXCEPT ![k] = x],
         NEW u \in Thread, tx'[u] = tx[u], ThreadInv(u), Marks(tx[u]), Using(u) => tx[u].kti # k,
         \A j \in Kti \ {k} : /\ Free(j)' => Free(j)
                              /\ j \in vetoed' <=> j \in vetoed,
         Issued \subseteq Issued',
         getStartVersion(ktx[k].version) \in Issued => getStartVersion(x.version) \in Issued'
  PROVE  ThreadInv(u)' /\ Marks(tx[u])'
<1>1. ThreadInv(u)'
  <2> SUFFICES ASSUME Using(u)
               PROVE  /\ tx'[u].kti \in Kti /\ ~Free(tx[u].kti)' /\ Serving(ktx'[tx'[u].kti])
                      /\ Holds(tx'[u], ktx'[tx'[u].kti], tx'[u].kti \in vetoed')
    BY DEF ThreadInv, Using
  <2> DEFINE j == tx[u].kti
  <2>1. /\ j \in Kti \ {k} /\ ~Free(j) /\ Serving(ktx[j])
        /\ Holds(tx[u], ktx[j], j \in vetoed)
    BY DEF ThreadInv
  <2>2. tx'[u].kti = j /\ ktx'[j] = ktx[j] /\ tx'[u] = tx[u]
    BY <2>1
  <2>3. Holds(tx[u], ktx[j], j \in vetoed')
    BY <2>1 DEF Holds
  <2>4. ~Free(tx[u].kti)'
    BY <2>1, <2>2
  <2> QED
    BY <2>1, <2>2, <2>3, <2>4
<1>2. Marks(tx[u])'
  <2>1. ASSUME NEW j \in Kti, getStartVersion(ktx[j].version) \in Issued
        PROVE  getStartVersion(ktx'[j].version) \in Issued'
    <3>1. CASE j = k
      BY <2>1, <3>1
    <3>2. CASE j # k
      BY <2>1, <3>2
    <3> QED
      BY <3>1, <3>2
  <2> QED
    BY <2>1 DEF Marks
<1> QED
  BY <1>1, <1>2

(* A step of a transaction on the kti it uses keeps the invariant, if what *)
(* it makes of both does, and no version is taken back.                    *)
LEMMA OwnStep ==
  ASSUME IInv, NEW t \in Thread, Using(t), UNCHANGED pool,
         NEW k \in Kti, k = tx[t].kti,
         NEW a \in Transaction, tx' = [tx EXCEPT ![t] = a],
         a.kti = k, a.phase \notin {"idle", "released"},
         NEW x \in KernelTransaction, ktx' = [ktx EXCEPT ![k] = x],
         x.expected = ktx[k].expected, x.reuseCount = ktx[k].reuseCount,
         x.reason = ktx[k].reason,
         k \in vetoed' /\ ~x.closed /\ ~x.closing => x.failure,
         Holds(a, x, k \in vetoed'),
         a.nestedMarking => a.phase = "nested",
         \A j \in Kti \ {k} : (j \in vetoed' <=> j \in vetoed),
         vetoed' \subseteq Kti, direct' \subseteq Kti,
         IdsInv', highId' \in 0 .. MaxVersion,
         freed' \cup marked' \cup flushed' \subseteq HalfVersion,
         Issued \subseteq Issued',
         a.marking \/ a.nestedMarking \/ getStartVersion(ktx[k].version) \in Issued =>
           getStartVersion(x.version) \in Issued'
  PROVE  IInv'
<1>1. /\ tx \in [Thread -> Transaction] /\ ktx \in [Kti -> KernelTransaction]
      /\ PoolInv /\ ThreadInv(t)
      /\ \A j \in Kti : KtiInv(j)
      /\ \A u \in Thread : ThreadInv(u) /\ Marks(tx[u])
  BY DEF IInv, TypeOK
<1>2. /\ tx' \in [Thread -> Transaction] /\ tx'[t] = a /\ \A u \in Thread \ {t} : tx'[u] = tx[u]
      /\ ktx' \in [Kti -> KernelTransaction] /\ ktx'[k] = x
      /\ \A j \in Kti \ {k} : ktx'[j] = ktx[j]
  BY <1>1
<1>3. Using(t)' /\ \A u \in Thread \ {t} : Using(u)' <=> Using(u)
  BY <1>2 DEF Using
<1>4. slot' = slot /\ pooled' = pooled /\ \A j : Free(j)' <=> Free(j)
  BY DEF pool, Free
<1>5. ~Free(k) /\ Serving(ktx[k]) /\ Counted(ktx[k])
  BY <1>1 DEF ThreadInv, KtiInv
<1>6. TypeOK'
  BY <1>2, <1>4 DEF IInv, TypeOK
<1>7. PoolInv'
  <2>1. \A u \in Thread : Using(u)' => Using(u) /\ tx'[u].kti = tx[u].kti
    BY <1>2, <1>3
  <2> QED
    BY <1>1, <1>4, <2>1 DEF PoolInv
<1>8. Counted(x) /\ Serving(x)
  BY <1>5 DEF Counted, Serving
<1>9. ASSUME NEW j \in Kti PROVE KtiInv(j)'
  <2>1. CASE j = k
    BY <1>2, <1>4, <1>5, <1>8, <2>1 DEF KtiInv
  <2>2. CASE j # k
    <3>1. KtiInv(j) /\ (Free(j)' => Free(j)) /\ j \in Kti \ {k}
      BY <1>1, <1>4, <2>2
    <3> QED
      BY <1>1, <3>1, OtherKtis
  <2> QED
    BY <2>1, <2>2
<1>10. ASSUME NEW u \in Thread \ {t} PROVE ThreadInv(u)' /\ Marks(tx[u])'
  <2>1. Using(u) => tx[u].kti # k
    BY <1>1 DEF PoolInv
  <2>2. ThreadInv(u) /\ Marks(tx[u]) /\ tx'[u] = tx[u]
    BY <1>1, <1>2
  <2>3. getStartVersion(ktx[k].version) \in Issued => getStartVersion(x.version) \in Issued'
    OBVIOUS
  <2> QED
    BY <1>1, <1>4, <2>1, <2>2, <2>3, OtherThreads
<1>11. ThreadInv(t)' /\ Marks(tx[t])'
  <2>1. ThreadInv(t)'
    BY <1>2, <1>4, <1>5, <1>8 DEF ThreadInv
  <2>2. Marks(tx[t])'
    BY <1>2 DEF Marks
  <2> QED
    BY <2>1, <2>2
<1> QED
  BY <1>6, <1>7, <1>9, <1>10, <1>11 DEF IInv

-----------------------------------------------------------------------------
(* The operations of a transaction on the kti it uses. *)

LEMMA Own ==
  ASSUME IInv, NEW t \in Thread, Using(t), NEW k, k = tx[t].kti
  PROVE  /\ k \in Kti /\ tx[t] \in Transaction /\ ktx[k] \in KernelTransaction
         /\ tx \in [Thread -> Transaction] /\ ktx \in [Kti -> KernelTransaction]
         /\ Holds(tx[t], ktx[k], k \in vetoed)
         /\ ~Free(k) /\ Serving(ktx[k]) /\ KtiInv(k) /\ Marks(tx[t])
BY DEF IInv, TypeOK, ThreadInv

LEMMA QuietStep ==
  ASSUME IInv, NEW t \in Thread, Using(t), UNCHANGED <<pool, direct, ids, marked, flushed>>,
         NEW k \in Kti, k = tx[t].kti,
         NEW a \in Transaction, tx' = [tx EXCEPT ![t] = a],
         a.kti = k, a.phase \notin {"idle", "released"}, a.marking = tx[t].marking,
         a.nestedMarking = tx[t].nestedMarking, a.nestedMarking => a.phase = "nested",
         NEW x \in KernelTransaction, ktx' = [ktx EXCEPT ![k] = x],
         x.expected = ktx[k].expected, x.reuseCount = ktx[k].reuseCount,
         x.reason = ktx[k].reason, x.version = ktx[k].version,
         k \in vetoed' /\ ~x.closed /\ ~x.closing => x.failure,
         Holds(a, x, k \in vetoed'),
         \A j \in Kti \ {k} : (j \in vetoed' <=> j \in vetoed),
         vetoed' \subseteq Kti
  PROVE  IInv'
<1>1. /\ highId' \in 0 .. MaxVersion /\ freed' \cup marked' \cup flushed' \subseteq HalfVersion
      /\ direct' \subseteq Kti
  BY DEF IInv, TypeOK, ids
<1>2. IdsInv' /\ Issued \subseteq Issued'
  BY DEF IInv, IdsInv, Issued, ids
<1>3. Marks(tx[t])
  BY DEF IInv
<1>4. a.marking \/ a.nestedMarking \/ getStartVersion(ktx[k].version) \in Issued =>
        getStartVersion(x.version) \in Issued'
  BY <1>2, <1>3 DEF Marks
<1>5. UNCHANGED pool
  OBVIOUS
<1> QED
  BY <1>1, <1>2, <1>4, <1>5, OwnStep

LEMMA SuccessStep ==
  ASSUME IInv, NEW t \in Thread, Success(t)
  PROVE  IInv'
<1>0. PICK k : k = tx[t].kti
  OBVIOUS
<1> DEFINE a == [tx[t] EXCEPT !.successCalled = TRUE]
           x == [ktx[k] EXCEPT !.success = TRUE]
<1>1. Using(t) /\ tx[t].phase = "open"
  BY DEF Success, Using
<1>2. /\ k \in Kti /\ tx[t] \in Transaction /\ ktx[k] \in KernelTransaction
      /\ Holds(tx[t], ktx[k], k \in vetoed) /\ KtiInv(k) /\ Marks(tx[t])
  BY <1>0, <1>1, Own
<1>3. /\ tx' = [tx EXCEPT ![t] = a] /\ ktx' = [ktx EXCEPT ![k] = x]
      /\ UNCHANGED <<pool, direct, ids, marked, flushed>> /\ UNCHANGED vetoed
  BY <1>0 DEF Success
<1>4. /\ a \in Transaction /\ a.phase = "open" /\ a.successCalled /\ a.kti = tx[t].kti
      /\ a.marking = tx[t].marking /\ a.nestedMarking = tx[t].nestedMarking
  BY <1>1, <1>2 DEF Transaction
<1>5. /\ x \in KernelTransaction /\ x.success /\ x.closed = ktx[k].closed
      /\ x.closing = ktx[k].closing /\ x.failure = ktx[k].failure
      /\ x.expected = ktx[k].expected /\ x.reuseCount = ktx[k].reuseCount
      /\ x.reason = ktx[k].reason /\ x.version = ktx[k].version
  BY <1>2 DEF KernelTransaction
<1> HIDE DEF a, x
<1>6. Holds(a, x, k \in vetoed')
  BY <1>1, <1>2, <1>4, <1>5 DEF Holds
<1>7. k \in vetoed' /\ ~x.closed /\ ~x.closing => x.failure
  BY <1>2, <1>3, <1>5 DEF KtiInv
<1>8. /\ \A j \in Kti \ {k} : (j \in vetoed' <=> j \in vetoed)
      /\ vetoed' \subseteq Kti
  BY <1>3 DEF IInv, TypeOK
<1>9. a.nestedMarking => a.phase = "nested"
  BY <1>1, <1>2, <1>4 DEF Marks
<1> QED
  BY <1>0, <1>1, <1>2, <1>3, <1>4, <1>5, <1>6, <1>7, <1>8, <1>9, QuietStep

LEMMA FailureStep ==
  ASSUME IInv, NEW t \in Thread, Failure(t)
  PROVE  IInv'
<1>0. PICK k : k = tx[t].kti
  OBVIOUS
<1> DEFINE a == tx[t]
           x == [ktx[k] EXCEPT !.failure = TRUE]
<1>1. Using(t) /\ tx[t].phase \in {"open", "nested"}
  BY DEF Failure, Using
<1>2. /\ k \in Kti /\ tx[t] \in Transaction /\ ktx[k] \in KernelTransaction
      /\ tx \in [Thread -> Transaction]
      /\ Holds(tx[t], ktx[k], k \in vetoed) /\ KtiInv(k) /\ Marks(tx[t])
  BY <1>0, <1>1, Own
<1>3. /\ tx' = [tx EXCEPT ![t] = a] /\ ktx' = [ktx EXCEPT ![k] = x]
      /\ UNCHANGED <<pool, direct, ids, marked, flushed>>
      /\ vetoed' = vetoed \cup {k}
  BY <1>0, <1>2 DEF Failure, failure
<1>5. /\ x \in KernelTransaction /\ x.success = ktx[k].success /\ x.closed = ktx[k].closed
      /\ x.closing = ktx[k].closing /\ x.failure
      /\ x.expected = ktx[k].expected /\ x.reuseCount = ktx[k].reuseCount
      /\ x.reason = ktx[k].reason /\ x.version = ktx[k].version
  BY <1>2 DEF KernelTransaction
<1> HIDE DEF x
<1>6. Holds(a, x, k \in vetoed')
  BY <1>1, <1>2, <1>5 DEF Holds
<1>7. k \in vetoed' /\ ~x.closed /\ ~x.closing => x.failure
  BY <1>1, <1>2, <1>3, <1>5 DEF Holds, KtiInv
<1>8. /\ \A j \in Kti \ {k} : (j \in vetoed' <=> j \in vetoed)
      /\ vetoed' \subseteq Kti
  BY <1>2, <1>3 DEF IInv, TypeOK
<1>9. a.nestedMarking => a.phase = "nested"
  BY <1>2 DEF Marks
<1> QED
  BY <1>0, <1>1, <1>2, <1>3, <1>5, <1>6, <1>7, <1>8, <1>9, QuietStep

LEMMA NestedSuccessStep ==
  ASSUME IInv, NEW t \in Thread, NestedSuccess(t)
  PROVE  IInv'
<1>0. PICK k : k = tx[t].kti
  OBVIOUS
<1> DEFINE a == [tx[t] EXCEPT !.nestedSuccess = TRUE]
           x == ktx[k]
<1>1. Using(t) /\ tx[t].phase = "nested"
  BY DEF NestedSuccess, Using
<1>2. /\ k \in Kti /\ tx[t] \in Transaction /\ ktx[k] \in KernelTransaction
      /\ ktx \in [Kti -> KernelTransaction]
      /\ Holds(tx[t], ktx[k], k \in vetoed) /\ KtiInv(k) /\ Marks(tx[t])
  BY <1>0, <1>1, Own
<1>3. /\ tx' = [tx EXCEPT ![t] = a] /\ ktx' = [ktx EXCEPT ![k] = x]
      /\ UNCHANGED <<pool, direct, ids, marked, flushed>> /\ UNCHANGED vetoed
  BY <1>2 DEF NestedSuccess
<1>4. /\ a \in Transaction /\ a.phase = "nested" /\ a.successCalled = tx[t].successCalled
      /\ a.kti = tx[t].kti
      /\ a.marking = tx[t].marking /\ a.nestedMarking = tx[t].nestedMarking
  BY <1>1, <1>2 DEF Transaction
<1> HIDE DEF a
<1>6. Holds(a, x, k \in vetoed')
  BY <1>1, <1>2, <1>4 DEF Holds
<1>7. k \in vetoed' /\ ~x.closed /\ ~x.closing => x.failure
  BY <1>2, <1>3 DEF KtiInv
<1>8. /\ \A j \in Kti \ {k} : (j \in vetoed' <=> j \in vetoed)
      /\ vetoed' \subseteq Kti
  BY <1>3 DEF IInv, TypeOK
<1> QED
  BY <1>0, <1>1, <1>2, <1>3, <1>4, <1>6, <1>7, <1>8, QuietStep

LEMMA CloseTransactionStep ==
  ASSUME IInv, NEW t \in Thread, CloseTransaction(t)
  PROVE  IInv'
<1>0. PICK k : k = tx[t].kti
  OBVIOUS
<1> DEFINE phase == IF ktx[k].failure \/ ~ktx[k].success \/ ktx[k].reason # None
                    THEN "rollingBack" ELSE "committing"
           a == [tx[t] EXCEPT !.phase = phase]
           x == [ktx[k] EXCEPT !.closing = TRUE]
<1>1. Using(t) /\ tx[t].phase = "open"
  BY DEF CloseTransaction, Using
<1>2. /\ k \in Kti /\ tx[t] \in Transaction /\ ktx[k] \in KernelTransaction
      /\ Holds(tx[t], ktx[k], k \in vetoed) /\ KtiInv(k) /\ Marks(tx[t])
  BY <1>0, <1>1, Own
<1>3. /\ tx' = [tx EXCEPT ![t] = a] /\ ktx' = [ktx EXCEPT ![k] = x]
      /\ UNCHANGED <<pool, direct, ids, marked, flushed>> /\ UNCHANGED vetoed
  BY <1>0 DEF CloseTransaction
<1>4. /\ a \in Transaction /\ a.phase = phase /\ a.successCalled = tx[t].successCalled
      /\ a.kti = tx[t].kti
      /\ a.marking = tx[t].marking /\ a.nestedMarking = tx[t].nestedMarking
  BY <1>1, <1>2 DEF Transaction
<1>5. /\ x \in KernelTransaction /\ x.success = ktx[k].success /\ x.closed = ktx[k].closed
      /\ x.closing /\ x.failure = ktx[k].failure
      /\ x.expected = ktx[k].expected /\ x.reuseCount = ktx[k].reuseCount
      /\ x.reason = ktx[k].reason /\ x.version = ktx[k].version
  BY <1>2 DEF KernelTransaction
<1>6. /\ phase \in {"rollingBack", "committing"}
      /\ phase = "committing" => ktx[k].success /\ ~ktx[k].failure
  OBVIOUS
<1> HIDE DEF a, x, phase
<1>7. ~ktx[k].closed /\ ~ktx[k].closing /\ (ktx[k].success <=> tx[t].successCalled)
  BY <1>1, <1>2 DEF Holds
<1>8. phase = "committing" => k \notin vetoed
  BY <1>2, <1>6, <1>7 DEF KtiInv
<1>9. Holds(a, x, k \in vetoed')
  BY <1>3, <1>4, <1>5, <1>6, <1>7, <1>8 DEF Holds
<1>10. k \in vetoed' /\ ~x.closed /\ ~x.closing => x.failure
  BY <1>2, <1>3, <1>5 DEF KtiInv
<1>11. /\ \A j \in Kti \ {k} : (j \in vetoed' <=> j \in vetoed)
       /\ vetoed' \subseteq Kti
  BY <1>3 DEF IInv, TypeOK
<1>12. (a.nestedMarking => a.phase = "nested") /\ a.phase \notin {"idle", "released"}
  BY <1>1, <1>2, <1>4, <1>6 DEF Marks
<1> QED
  BY <1>0, <1>1, <1>2, <1>3, <1>4, <1>5, <1>9, <1>10, <1>11, <1>12, QuietStep

\* The end of the commit or the rollback, however it ends for the client.
LEMMA CloseWithStep ==
  ASSUME IInv, NEW t \in Thread, NEW won \in BOOLEAN, NEW result \in {"returned", "threw"},
         CloseWith(t, won, result),
         tx[t].phase \in {"committing", "rollingBack"}, won => tx[t].phase = "committing"
  PROVE  IInv'
<1>0. PICK k : k = tx[t].kti
  OBVIOUS
<1> DEFINE a == [tx[t] EXCEPT !.phase = "closed", !.committed = won, !.result = result]
           x == [ktx[k] EXCEPT !.closed = TRUE, !.closing = FALSE]
<1>1. Using(t)
  BY DEF Using
<1>2. /\ k \in Kti /\ tx[t] \in Transaction /\ ktx[k] \in KernelTransaction
      /\ tx \in [Thread -> Transaction] /\ ktx \in [Kti -> KernelTransaction]
      /\ Holds(tx[t], ktx[k], k \in vetoed) /\ KtiInv(k) /\ Marks(tx[t])
  BY <1>0, <1>1, Own
<1>3. /\ tx' = [tx EXCEPT ![t] = a] /\ ktx' = [ktx EXCEPT ![k] = x]
      /\ UNCHANGED <<pool, direct, ids, marked, flushed>> /\ UNCHANGED vetoed
  BY <1>0, <1>2 DEF CloseWith
<1>4. /\ a \in Transaction /\ a.phase = "closed" /\ a.committed = won /\ a.kti = tx[t].kti
      /\ a.marking = tx[t].marking /\ a.nestedMarking = tx[t].nestedMarking
  BY <1>2 DEF Transaction
<1>5. /\ x \in KernelTransaction /\ x.closed
      /\ x.expected = ktx[k].expected /\ x.reuseCount = ktx[k].reuseCount
      /\ x.reason = ktx[k].reason /\ x.version = ktx[k].version
  BY <1>2 DEF KernelTransaction
<1> HIDE DEF a, x
<1>6. won => k \notin vetoed
  BY <1>2 DEF Holds
<1>7. Holds(a, x, k \in vetoed')
  BY <1>3, <1>4, <1>5, <1>6 DEF Holds
<1>8. /\ \A j \in Kti \ {k} : (j \in vetoed' <=> j \in vetoed)
      /\ vetoed' \subseteq Kti
  BY <1>3 DEF IInv, TypeOK
<1>9. ~a.nestedMarking
  BY <1>2, <1>4 DEF Marks
<1> QED
  BY <1>0, <1>1, <1>2, <1>3, <1>4, <1>5, <1>7, <1>8, <1>9, QuietStep

LEMMA CloseStep ==
  ASSUME IInv, NEW t \in Thread, Commit(t) \/ CommitFails(t) \/ Rollback(t)
  PROVE  IInv'
<1>1. CASE Commit(t)
  BY <1>1, CloseWithStep DEF Commit
<1>2. CASE CommitFails(t)
  BY <1>2, CloseWithStep DEF CommitFails
<1>3. CASE Rollback(t)
  BY <1>3, CloseWithStep DEF Rollback
<1> QED
  BY <1>1, <1>2, <1>3

LEMMA NestedCloseStep ==
  ASSUME IInv, NEW t \in Thread, NestedClose(t)
  PROVE  IInv'
<1>0. PICK k : k = tx[t].kti
  OBVIOUS
<1> DEFINE a == [tx[t] EXCEPT !.phase = "open", !.nestedMarking = FALSE, !.nestedSuccess = FALSE]
           failed == [ktx[k] EXCEPT !.failure = TRUE]
           x == IF tx[t].nestedSuccess THEN ktx[k] ELSE failed
<1>1. Using(t) /\ tx[t].phase = "nested"
  BY DEF NestedClose, Using
<1>2. /\ k \in Kti /\ tx[t] \in Transaction /\ ktx[k] \in KernelTransaction
      /\ tx \in [Thread -> Transaction] /\ ktx \in [Kti -> KernelTransaction]
      /\ Holds(tx[t], ktx[k], k \in vetoed) /\ KtiInv(k) /\ Marks(tx[t])
  BY <1>0, <1>1, Own
<1>3. /\ tx' = [tx EXCEPT ![t] = a] /\ ktx' = [ktx EXCEPT ![k] = x]
      /\ UNCHANGED <<pool, direct, ids, flushed>>
      /\ vetoed' = IF tx[t].nestedSuccess THEN vetoed ELSE vetoed \cup {k}
  BY <1>0, <1>2 DEF NestedClose, failure
<1>4. /\ a \in Transaction /\ a.phase = "open" /\ a.successCalled = tx[t].successCalled
      /\ a.kti = tx[t].kti /\ a.marking = tx[t].marking /\ ~a.nestedMarking
  BY <1>2 DEF Transaction
<1>5. /\ failed \in KernelTransaction /\ failed.success = ktx[k].success
      /\ failed.closed = ktx[k].closed /\ failed.closing = ktx[k].closing /\ failed.failure
      /\ failed.expected = ktx[k].expected /\ failed.reuseCount = ktx[k].reuseCount
      /\ failed.reason = ktx[k].reason /\ failed.version = ktx[k].version
  BY <1>2 DEF KernelTransaction
<1>6. /\ x \in KernelTransaction /\ x.success = ktx[k].success
      /\ x.closed = ktx[k].closed /\ x.closing = ktx[k].closing
      /\ x.failure = ktx[k].failure \/ x.failure
      /\ x.expected = ktx[k].expected /\ x.reuseCount = ktx[k].reuseCount
      /\ x.reason = ktx[k].reason /\ x.version = ktx[k].version
      /\ ~tx[t].nestedSuccess => x.failure
      /\ tx[t].nestedSuccess => x.failure = ktx[k].failure
  BY <1>2, <1>5
<1> HIDE DEF a, x, failed
<1>7. Holds(a, x, k \in vetoed')
  BY <1>1, <1>2, <1>4, <1>6 DEF Holds
<1>8. k \in vetoed' /\ ~x.closed /\ ~x.closing => x.failure
  BY <1>1, <1>2, <1>3, <1>6 DEF Holds, KtiInv
<1>9. /\ \A j \in Kti \ {k} : (j \in vetoed' <=> j \in vetoed)
      /\ vetoed' \subseteq Kti /\ direct' \subseteq Kti
      /\ highId' \in 0 .. MaxVersion /\ freed' \cup flushed' \subseteq HalfVersion
  BY <1>2, <1>3 DEF IInv, TypeOK, ids
<1>10. Issued' = Issued /\ freed' = freed /\ highId' = highId
  BY <1>3 DEF Issued, ids
<1>11. marked' \subseteq Issued /\ marked \subseteq marked'
  <2>1. CASE tx[t].nestedMarking
    BY <1>0, <1>2, <2>1 DEF NestedClose, MarkOrThrow, transactionCommit, Marks, IInv, IdsInv
  <2>2. CASE ~tx[t].nestedMarking
    BY <2>2 DEF NestedClose, IInv, IdsInv
  <2> QED
    BY <2>1, <2>2
<1>12. IdsInv' /\ marked' \subseteq HalfVersion
  <2>1. IdsInv'
    BY <1>3, <1>10, <1>11 DEF IInv, IdsInv
  <2>2. Issued \subseteq HalfVersion
    BY VersionBound, LimitAssumption DEF IInv, TypeOK, Issued, HalfVersion
  <2> QED
    BY <1>11, <2>1, <2>2
<1>13. a.marking \/ a.nestedMarking \/ getStartVersion(ktx[k].version) \in Issued =>
         getStartVersion(x.version) \in Issued'
  BY <1>0, <1>2, <1>4, <1>6, <1>10 DEF Marks
<1>14. /\ freed' \cup marked' \cup flushed' \subseteq HalfVersion /\ Issued \subseteq Issued'
       /\ UNCHANGED pool
       /\ a.phase \notin {"idle", "released"} /\ (a.nestedMarking => a.phase = "nested")
  BY <1>3, <1>4, <1>9, <1>10, <1>12
<1> QED
  BY <1>0, <1>1, <1>2, <1>3, <1>4, <1>6, <1>7, <1>8, <1>9, <1>12, <1>13, <1>14, OwnStep

LEMMA BeginNestedStep ==
  ASSUME IInv, NEW t \in Thread, NEW mark \in BOOLEAN, BeginNested(t, mark)
  PROVE  IInv'
<1>0. PICK k : k = tx[t].kti
  OBVIOUS
<1>1. Using(t) /\ tx[t].phase = "open"
  BY DEF BeginNested, Using
<1>2. /\ k \in Kti /\ tx[t] \in Transaction /\ ktx[k] \in KernelTransaction
      /\ tx \in [Thread -> Transaction] /\ ktx \in [Kti -> KernelTransaction]
      /\ Holds(tx[t], ktx[k], k \in vetoed) /\ KtiInv(k) /\ Marks(tx[t])
  BY <1>0, <1>1, Own
<1>3. PICK stamp \in Stamp : Stamped(k, mark, stamp) /\ ktx' = [ktx EXCEPT ![k].version = stamp]
  BY <1>0 DEF BeginNested
<1> DEFINE a == [tx[t] EXCEPT !.phase = "nested", !.nestedMarking = mark]
           x == [ktx[k] EXCEPT !.version = stamp]
<1>4. /\ tx' = [tx EXCEPT ![t] = a] /\ ktx' = [ktx EXCEPT ![k] = x]
      /\ UNCHANGED <<pool, direct, marked, flushed, vetoed>>
  BY <1>2, <1>3 DEF BeginNested
<1>5. /\ a \in Transaction /\ a.phase = "nested" /\ a.successCalled = tx[t].successCalled
      /\ a.kti = tx[t].kti /\ a.marking = tx[t].marking /\ a.nestedMarking = mark
  BY <1>2 DEF Transaction
<1>6. /\ x \in KernelTransaction /\ x.success = ktx[k].success /\ x.version = stamp
      /\ x.closed = ktx[k].closed /\ x.closing = ktx[k].closing /\ x.failure = ktx[k].failure
      /\ x.expected = ktx[k].expected /\ x.reuseCount = ktx[k].reuseCount
      /\ x.reason = ktx[k].reason
  BY <1>2, <1>3 DEF KernelTransaction
<1> HIDE DEF a, x
<1>7. Holds(a, x, k \in vetoed')
  BY <1>1, <1>2, <1>5, <1>6 DEF Holds
<1>8. k \in vetoed' /\ ~x.closed /\ ~x.closing => x.failure
  BY <1>2, <1>4, <1>6 DEF KtiInv
<1>9. UNCHANGED <<marked, flushed>> /\ UNCHANGED pool
  BY <1>4
<1>10. /\ IdsInv' /\ highId' \in 0 .. MaxVersion /\ freed' \subseteq HalfVersion
       /\ Issued \subseteq Issued'
       /\ mark \/ getStartVersion(ktx[k].version) \in Issued => getStartVersion(stamp) \in Issued'
  BY <1>2, <1>3, <1>9, StampedStep
<1>11. a.marking \/ a.nestedMarking \/ getStartVersion(ktx[k].version) \in Issued =>
         getStartVersion(x.version) \in Issued'
  <2>1. a.marking => getStartVersion(ktx[k].version) \in Issued
    BY <1>0, <1>2, <1>5 DEF Marks
  <2> QED
    BY <1>5, <1>6, <1>10, <2>1
<1>12. /\ \A j \in Kti \ {k} : (j \in vetoed' <=> j \in vetoed)
       /\ vetoed' \subseteq Kti /\ direct' \subseteq Kti
       /\ freed' \cup marked' \cup flushed' \subseteq HalfVersion
       /\ a.phase \notin {"idle", "released"} /\ (a.nestedMarking => a.phase = "nested")
  BY <1>4, <1>5, <1>10 DEF IInv, TypeOK
<1> QED
  BY <1>0, <1>1, <1>2, <1>4, <1>5, <1>6, <1>7, <1>8, <1>9, <1>10, <1>11, <1>12, OwnStep

-----------------------------------------------------------------------------
(* Begin, release and what has no transaction object of its own. *)

LEMMA BeginTopLevelStep ==
  ASSUME IInv, NEW t \in Thread, NEW k \in Kti, NEW mark \in BOOLEAN, BeginTopLevel(t, k, mark)
  PROVE  IInv'
<1>1. PICK stamp \in Stamp :
        /\ Stamped(k, mark, stamp)
        /\ ktx' = [ktx EXCEPT ![k] = [initialize(ktx[k]) EXCEPT !.version = stamp]]
  BY DEF BeginTopLevel
<1> DEFINE a == [NoTransaction EXCEPT !.phase = "open", !.kti = k, !.marking = mark]
           y == initialize(ktx[k])
           x == [y EXCEPT !.version = stamp]
<1>2. /\ tx \in [Thread -> Transaction] /\ ktx \in [Kti -> KernelTransaction]
      /\ slot \in [Thread -> Kti \cup {None}] /\ pooled \subseteq Kti
      /\ PoolInv /\ \A j \in Kti : KtiInv(j)
      /\ \A u \in Thread : ThreadInv(u) /\ Marks(tx[u])
  BY DEF IInv, TypeOK
<1>3. /\ tx' = [tx EXCEPT ![t] = a] /\ ktx' = [ktx EXCEPT ![k] = x]
      /\ slot' = [slot EXCEPT ![t] = None] /\ pooled' = pooled \ {k}
      /\ vetoed' = vetoed \ {k}
      /\ UNCHANGED <<direct, marked, flushed>>
  BY <1>1 DEF BeginTopLevel, acquire
<1>4. k = slot[t] \/ (slot[t] = None /\ k \in pooled)
  BY DEF BeginTopLevel, acquire, Acquirable
<1>5. Free(k) /\ Counted(ktx[k]) /\ Resting(ktx[k]) /\ Len(ktx[k].expected) < MaxIncarnation
  BY <1>2, <1>4 DEF Free, KtiInv, BeginTopLevel, CanInitialize, Current
<1>6. ktx[k] \in KernelTransaction
  BY <1>2
<1>7. /\ y \in KernelTransaction /\ Counted(y) /\ Serving(y)
      /\ y.reason = None /\ ~y.closed /\ ~y.closing /\ ~y.failure /\ ~y.success
  BY <1>5, <1>6, Initialized
<1> HIDE DEF y
<1>8. /\ x \in KernelTransaction /\ x.version = stamp /\ Counted(x) /\ Serving(x)
      /\ ~x.closed /\ ~x.closing /\ ~x.success
  <2>1. /\ x \in KernelTransaction /\ x.version = stamp
        /\ x.closed = y.closed /\ x.closing = y.closing /\ x.success = y.success
        /\ x.expected = y.expected /\ x.reuseCount = y.reuseCount /\ x.reason = y.reason
    BY <1>1, <1>7 DEF KernelTransaction
  <2> HIDE DEF x
  <2> QED
    BY <1>7, <2>1 DEF Counted, Serving
<1>9. /\ a \in Transaction /\ a.phase = "open" /\ a.kti = k /\ a.marking = mark
      /\ ~a.successCalled /\ ~a.nestedMarking
  BY DEF NoTransaction, Transaction
<1> HIDE DEF a, x
<1>10. /\ IdsInv' /\ highId' \in 0 .. MaxVersion /\ freed' \subseteq HalfVersion
       /\ Issued \subseteq Issued'
       /\ mark \/ getStartVersion(ktx[k].version) \in Issued => getStartVersion(stamp) \in Issued'
  <2>1. UNCHANGED <<marked, flushed>>
    BY <1>3
  <2> QED
    BY <1>1, <2>1, StampedStep
<1>11. /\ tx' \in [Thread -> Transaction] /\ tx'[t] = a /\ \A u \in Thread \ {t} : tx'[u] = tx[u]
       /\ ktx' \in [Kti -> KernelTransaction] /\ ktx'[k] = x
       /\ slot'[t] = None /\ \A u \in Thread \ {t} : slot'[u] = slot[u]
       /\ slot' \in [Thread -> Kti \cup {None}]
  BY <1>2, <1>3, <1>8, <1>9
<1>12. ~Free(k)' /\ \A j \in Kti \ {k} : Free(j)' => Free(j)
  <2>1. ~Free(k)'
    <3>1. \A u \in Thread \ {t} : slot[u] # k
      BY <1>2, <1>4, NoneAssumption DEF PoolInv
    <3> QED
      BY <1>3, <1>11, <3>1, NoneAssumption DEF Free
  <2>2. ASSUME NEW j \in Kti \ {k}, Free(j)' PROVE Free(j)
    BY <1>3, <1>11, <2>2, NoneAssumption DEF Free
  <2> QED
    BY <2>1, <2>2
<1>13. \A u \in Thread : Using(u) => tx[u].kti # k
  BY <1>2, <1>5 DEF ThreadInv
<1>14. TypeOK'
  BY <1>3, <1>10, <1>11 DEF IInv, TypeOK
<1>15. PoolInv'
  <2>1. \A u \in Thread \ {t} : Using(u)' <=> Using(u)
    BY <1>11 DEF Using
  <2>2. \A u, w \in Thread : u # w /\ Using(u)' /\ Using(w)' => tx'[u].kti # tx'[w].kti
    BY <1>2, <1>9, <1>11, <1>13, <2>1 DEF PoolInv
  <2>3. \A u \in Thread : slot'[u] # None => slot'[u] = slot[u]
    BY <1>11
  <2>4. \A u \in Thread : slot'[u] # None =>
          slot'[u] \notin pooled' /\ \A w \in Thread \ {u} : slot'[w] # slot'[u]
    BY <1>2, <1>3, <1>11, <2>3 DEF PoolInv
  <2> QED
    BY <2>2, <2>4 DEF PoolInv
<1>16. ASSUME NEW j \in Kti PROVE KtiInv(j)'
  <2>1. CASE j = k
    BY <1>3, <1>8, <1>11, <1>12, <2>1 DEF KtiInv
  <2>2. CASE j # k
    <3>1. /\ j \in Kti \ {k} /\ KtiInv(j) /\ (Free(j)' => Free(j))
          /\ (j \in vetoed' <=> j \in vetoed)
      BY <1>2, <1>3, <1>12, <2>2
    <3> QED
      BY <1>2, <1>3, <3>1, OtherKtis
  <2> QED
    BY <2>1, <2>2
<1>17. ASSUME NEW u \in Thread PROVE ThreadInv(u)' /\ Marks(tx[u])'
  <2>1. CASE u # t
    <3>1. tx'[u] = tx[u] /\ ThreadInv(u) /\ Marks(tx[u]) /\ (Using(u) => tx[u].kti # k)
      BY <1>2, <1>11, <1>13, <2>1
    <3>2. \A j \in Kti \ {k} : /\ Free(j)' => Free(j)
                               /\ j \in vetoed' <=> j \in vetoed
      BY <1>3, <1>12
    <3>3. getStartVersion(ktx[k].version) \in Issued => getStartVersion(x.version) \in Issued'
      BY <1>8, <1>10
    <3> QED
      BY <1>2, <1>3, <1>10, <3>1, <3>2, <3>3, OtherThreads
  <2>2. CASE u = t
    <3>1. Holds(a, x, k \in vetoed')
      BY <1>8, <1>9 DEF Holds
    <3>2. ThreadInv(t)'
      BY <1>8, <1>9, <1>11, <1>12, <3>1 DEF ThreadInv
    <3>3. Marks(tx[t])'
      BY <1>8, <1>9, <1>10, <1>11 DEF Marks
    <3> QED
      BY <2>2, <3>2, <3>3
  <2> QED
    BY <2>1, <2>2
<1> QED
  BY <1>10, <1>14, <1>15, <1>16, <1>17 DEF IInv

LEMMA CreateTokenStep ==
  ASSUME IInv, NEW t \in Thread, NEW k \in Kti, CreateToken(t, k)
  PROVE  IInv'
<1> DEFINE y == initialize(ktx[k])
           x == [y EXCEPT !.success = TRUE, !.closed = TRUE, !.reuseCount = ktx[k].reuseCount + 1]
<1>1. /\ tx \in [Thread -> Transaction] /\ ktx \in [Kti -> KernelTransaction]
      /\ slot \in [Thread -> Kti \cup {None}] /\ pooled \subseteq Kti
      /\ PoolInv /\ \A j \in Kti : KtiInv(j)
      /\ \A u \in Thread : ThreadInv(u) /\ Marks(tx[u])
  BY DEF IInv, TypeOK
<1>2. /\ k = slot[t] \/ (slot[t] = None /\ k \in pooled)
      /\ Len(ktx[k].expected) < MaxIncarnation
      /\ ktx' = [ktx EXCEPT ![k] = x]
      /\ slot' = [slot EXCEPT ![t] = k] /\ pooled' = pooled \ {k}
      /\ vetoed' = vetoed \ {k}
      /\ UNCHANGED <<tx, direct, ids, marked, flushed>>
  BY DEF CreateToken, Acquirable, CanInitialize, Current
<1>3. Free(k) /\ Counted(ktx[k]) /\ Resting(ktx[k]) /\ ktx[k] \in KernelTransaction
  BY <1>1, <1>2 DEF Free, KtiInv
<1>4. /\ y \in KernelTransaction /\ Counted(y) /\ Serving(y) /\ y.reason = None
      /\ y.version = ktx[k].version /\ y.reuseCount = ktx[k].reuseCount
  BY <1>2, <1>3, Initialized
<1>5. y.reuseCount + 1 \in 0 .. MaxIncarnation /\ y.reuseCount + 1 = Len(y.expected)
  <2>1. Len(y.expected) \in Nat /\ y.reuseCount \in Nat /\ Len(y.expected) <= MaxIncarnation
    BY <1>4, IncarnationBound DEF KernelTransaction, Counted
  <2> QED
    BY <1>4, <2>1, IncarnationBound DEF Serving
<1> HIDE DEF y
<1>6. /\ x \in KernelTransaction /\ x.version = ktx[k].version /\ x.closed
      /\ Counted(x) /\ Resting(x)
  <2>1. /\ x \in KernelTransaction /\ x.version = y.version /\ x.closed
        /\ x.expected = y.expected /\ x.reuseCount = y.reuseCount + 1 /\ x.reason = y.reason
    BY <1>4, <1>5 DEF KernelTransaction
  <2> HIDE DEF x
  <2> QED
    BY <1>4, <1>5, <2>1 DEF Counted, Resting
<1> HIDE DEF x
<1>7. /\ ktx' \in [Kti -> KernelTransaction] /\ ktx'[k] = x
      /\ slot'[t] = k /\ \A u \in Thread \ {t} : slot'[u] = slot[u]
      /\ slot' \in [Thread -> Kti \cup {None}]
  BY <1>1, <1>2, <1>6
<1>8. \A j \in Kti : Free(j)' => Free(j)
  BY <1>2, <1>3, <1>7 DEF Free
<1>9. IdsInv' /\ Issued' = Issued
  BY <1>2 DEF IInv, IdsInv, Issued, ids
<1>10. TypeOK'
  BY <1>1, <1>2, <1>7 DEF IInv, TypeOK, ids
<1>11. PoolInv'
  <2>1. \A u \in Thread \ {t} : slot[u] # k
    BY <1>1, <1>2, NoneAssumption DEF PoolInv
  <2>2. \A u \in Thread : slot'[u] # None =>
          slot'[u] \notin pooled' /\ \A w \in Thread \ {u} : slot'[w] # slot'[u]
    BY <1>1, <1>2, <1>7, <2>1, NoneAssumption DEF PoolInv
  <2>3. \A u, w \in Thread : u # w /\ Using(u)' /\ Using(w)' => tx'[u].kti # tx'[w].kti
    BY <1>1, <1>2 DEF PoolInv, Using
  <2> QED
    BY <2>2, <2>3 DEF PoolInv
<1>12. ASSUME NEW j \in Kti PROVE KtiInv(j)'
  <2>1. CASE j = k
    BY <1>2, <1>6, <1>7, <2>1 DEF KtiInv
  <2>2. CASE j # k
    <3>1. /\ j \in Kti \ {k} /\ KtiInv(j) /\ (Free(j)' => Free(j))
          /\ (j \in vetoed' <=> j \in vetoed)
      BY <1>1, <1>2, <1>8, <2>2
    <3> QED
      BY <1>1, <1>2, <3>1, OtherKtis
  <2> QED
    BY <2>1, <2>2
<1>13. ASSUME NEW u \in Thread PROVE ThreadInv(u)' /\ Marks(tx[u])'
  <2>1. tx'[u] = tx[u] /\ ThreadInv(u) /\ Marks(tx[u]) /\ (Using(u) => tx[u].kti # k)
    BY <1>1, <1>2, <1>3 DEF ThreadInv
  <2>2. \A j \in Kti \ {k} : /\ Free(j)' => Free(j)
                             /\ j \in vetoed' <=> j \in vetoed
    BY <1>2, <1>8
  <2>3. /\ getStartVersion(ktx[k].version) \in Issued => getStartVersion(x.version) \in Issued'
        /\ Issued \subseteq Issued'
    BY <1>6, <1>9
  <2> QED
    BY <1>1, <1>2, <2>1, <2>2, <2>3, OtherThreads
<1> QED
  BY <1>9, <1>10, <1>11, <1>12, <1>13 DEF IInv

\* A transaction whose close has ended has nothing left but its result.
LEMMA EndedRests ==
  ASSUME NEW a \in Transaction, NEW result \in {"none", "returned", "threw"}
  PROVE  /\ Ended(a, result) \in Transaction /\ Marks(Ended(a, result))
         /\ Ended(a, result).phase = "idle" /\ Ended(a, result).result = result
         /\ Ended(a, result).committed = a.committed
         /\ Ended(a, result).successCalled = a.successCalled
<1> DEFINE b == Ended(a, result)
<1>1. b \in Transaction /\ b.phase = "idle" /\ ~b.marking /\ ~b.nestedMarking
      /\ b.result = result /\ b.committed = a.committed /\ b.successCalled = a.successCalled
  BY DEF Ended, NoTransaction, Transaction
<1> HIDE DEF b
<1> QED
  BY <1>1 DEF Marks, b

LEMMA ReleaseStep ==
  ASSUME IInv, NEW t \in Thread, Release(t)
  PROVE  IInv'
<1>0. PICK k : k = tx[t].kti
  OBVIOUS
<1> DEFINE x == [ktx[k] EXCEPT !.reason = None, !.reuseCount = ktx[k].reuseCount + 1]
<1>1. Using(t) /\ tx[t].phase = "closed"
  BY DEF Release, Using
<1>a. PICK result \in {tx[t].result, "threw"} : tx' = [tx EXCEPT ![t] = Left(tx[t], result)]
  BY DEF Release, IInv, TypeOK
<1> DEFINE a == Left(tx[t], result)
<1>2. /\ k \in Kti /\ tx[t] \in Transaction /\ ktx[k] \in KernelTransaction
      /\ tx \in [Thread -> Transaction] /\ ktx \in [Kti -> KernelTransaction]
      /\ Holds(tx[t], ktx[k], k \in vetoed)
      /\ ~Free(k) /\ Serving(ktx[k]) /\ KtiInv(k) /\ Marks(tx[t])
  BY <1>0, <1>1, Own
<1>3. /\ slot \in [Thread -> Kti \cup {None}] /\ pooled \subseteq Kti
      /\ PoolInv /\ \A j \in Kti : KtiInv(j)
      /\ \A u \in Thread : ThreadInv(u) /\ Marks(tx[u])
  BY DEF IInv, TypeOK
<1>4. /\ tx' = [tx EXCEPT ![t] = a] /\ ktx' = [ktx EXCEPT ![k] = x] /\ poolRelease(t, k)
      /\ UNCHANGED <<direct, ids, marked, flushed>> /\ UNCHANGED vetoed
  BY <1>0, <1>2, <1>a DEF Release
<1>5. ktx[k].reuseCount + 1 \in 0 .. MaxIncarnation /\ ktx[k].reuseCount + 1 = Len(ktx[k].expected)
  <2>1. /\ Len(ktx[k].expected) \in Nat /\ ktx[k].reuseCount \in Nat
        /\ Len(ktx[k].expected) <= MaxIncarnation
    BY <1>2, IncarnationBound DEF KernelTransaction, KtiInv, Counted
  <2> QED
    BY <1>2, <2>1, IncarnationBound DEF Serving
<1>6. /\ x \in KernelTransaction /\ x.version = ktx[k].version /\ x.closed
      /\ Counted(x) /\ Resting(x)
  <2>1. /\ x \in KernelTransaction /\ x.version = ktx[k].version /\ x.closed = ktx[k].closed
        /\ x.expected = ktx[k].expected /\ x.reuseCount = ktx[k].reuseCount + 1 /\ x.reason = None
    BY <1>2, <1>5 DEF KernelTransaction
  <2>2. ktx[k].closed
    BY <1>1, <1>2 DEF Holds
  <2> HIDE DEF x
  <2> QED
    BY <1>2, <1>5, <2>1, <2>2 DEF KtiInv, Counted, Resting
<1> HIDE DEF x
<1>7. a \in Transaction /\ a.phase \in {"idle", "released"} /\ Marks(a)
  <2>1. CASE result = "returned" /\ tx[t].marking
    <3>1. a = [tx[t] EXCEPT !.phase = "released"]
      BY <2>1 DEF Left
    <3> HIDE DEF a
    <3>2. /\ a \in Transaction /\ a.phase = "released" /\ a.marking /\ a.kti = tx[t].kti
          /\ a.nestedMarking = tx[t].nestedMarking
      BY <1>2, <2>1, <3>1 DEF Transaction
    <3> QED
      BY <1>1, <1>2, <2>1, <3>2 DEF Marks
  <2>2. CASE ~(result = "returned" /\ tx[t].marking)
    <3>1. a = Ended(tx[t], result)
      BY <2>2 DEF Left
    <3>2. result \in {"none", "returned", "threw"}
      BY <1>2, <1>a DEF Transaction
    <3> HIDE DEF a
    <3> QED
      BY <1>2, <3>1, <3>2, EndedRests
  <2> QED
    BY <2>1, <2>2
<1> HIDE DEF a
<1>8. /\ tx' \in [Thread -> Transaction] /\ tx'[t] = a /\ \A u \in Thread \ {t} : tx'[u] = tx[u]
      /\ ktx' \in [Kti -> KernelTransaction] /\ ktx'[k] = x
  BY <1>2, <1>4, <1>6, <1>7
<1>9. /\ slot' \in [Thread -> Kti \cup {None}] /\ pooled' \subseteq Kti
      /\ \A j \in Kti \ {k} : Free(j)' => Free(j)
      /\ \A u \in Thread : slot'[u] # None =>
           slot'[u] \notin pooled' /\ \A w \in Thread \ {u} : slot'[w] # slot'[u]
  <2>1. k \notin pooled /\ \A u \in Thread : slot[u] # k
    BY <1>2 DEF Free
  <2>2. CASE slot[t] = None
    <3>1. slot' = [slot EXCEPT ![t] = k] /\ pooled' = pooled
      BY <1>4, <2>2 DEF poolRelease
    <3>2. slot'[t] = k /\ \A u \in Thread \ {t} : slot'[u] = slot[u]
      BY <1>3, <3>1
    <3>3. \A j \in Kti \ {k} : Free(j)' => Free(j)
      BY <3>1, <3>2 DEF Free
    <3>4. slot' \in [Thread -> Kti \cup {None}] /\ pooled' \subseteq Kti
      BY <1>2, <1>3, <3>1
    <3> QED
      BY <1>3, <2>1, <3>1, <3>2, <3>3, <3>4 DEF PoolInv
  <2>3. CASE slot[t] # None
    <3>1. slot' = slot /\ pooled' = pooled \cup {k}
      BY <1>4, <2>3 DEF poolRelease
    <3> QED
      BY <1>2, <1>3, <2>1, <3>1 DEF PoolInv, Free
  <2> QED
    BY <2>2, <2>3
<1>10. IdsInv' /\ Issued' = Issued
  BY <1>4 DEF IInv, IdsInv, Issued, ids
<1>11. TypeOK'
  BY <1>4, <1>8, <1>9 DEF IInv, TypeOK, ids
<1>12. PoolInv'
  <2>1. \A u \in Thread : Using(u)' => Using(u) /\ tx'[u] = tx[u]
    BY <1>7, <1>8 DEF Using
  <2> QED
    BY <1>3, <1>9, <2>1 DEF PoolInv
<1>13. ASSUME NEW j \in Kti PROVE KtiInv(j)'
  <2>1. CASE j = k
    BY <1>2, <1>4, <1>6, <1>8, <2>1 DEF KtiInv
  <2>2. CASE j # k
    <3>1. /\ j \in Kti \ {k} /\ KtiInv(j) /\ (Free(j)' => Free(j))
          /\ (j \in vetoed' <=> j \in vetoed)
      BY <1>3, <1>4, <1>9, <2>2
    <3> QED
      BY <1>2, <1>4, <3>1, OtherKtis
  <2> QED
    BY <2>1, <2>2
<1>14. ASSUME NEW u \in Thread PROVE ThreadInv(u)' /\ Marks(tx[u])'
  <2>1. \A j \in Kti \ {k} : /\ Free(j)' => Free(j)
                             /\ j \in vetoed' <=> j \in vetoed
    BY <1>4, <1>9
  <2>2. /\ getStartVersion(ktx[k].version) \in Issued => getStartVersion(x.version) \in Issued'
        /\ Issued \subseteq Issued'
    BY <1>6, <1>10
  <2>3. CASE u # t
    <3>1. tx'[u] = tx[u] /\ ThreadInv(u) /\ Marks(tx[u]) /\ (Using(u) => tx[u].kti # k)
      BY <1>0, <1>1, <1>3, <1>8, <2>3 DEF PoolInv
    <3> QED
      BY <1>2, <1>4, <2>1, <2>2, <3>1, OtherThreads
  <2>4. CASE u = t
    <3>1. ThreadInv(t)'
      BY <1>7, <1>8 DEF ThreadInv, Using
    <3>2. \A j \in Kti : getStartVersion(ktx[j].version) \in Issued =>
                           getStartVersion(ktx'[j].version) \in Issued'
      BY <1>2, <1>4, <1>6, <1>8, <1>10
    <3>3. Marks(tx[t])'
      BY <1>7, <1>8, <3>2 DEF Marks
    <3> QED
      BY <2>4, <3>1, <3>3
  <2> QED
    BY <2>3, <2>4
<1> QED
  BY <1>10, <1>11, <1>12, <1>13, <1>14 DEF IInv

LEMMA MarkVersionStep ==
  ASSUME IInv, NEW t \in Thread, MarkVersion(t)
  PROVE  IInv'
<1>0. PICK result \in {"returned", "threw"} : tx' = [tx EXCEPT ![t] = Ended(tx[t], result)]
  BY DEF MarkVersion, IInv, TypeOK
<1> DEFINE a == Ended(tx[t], result)
<1>1. /\ tx \in [Thread -> Transaction] /\ tx[t].phase = "released" /\ Marks(tx[t])
      /\ tx' = [tx EXCEPT ![t] = a]
      /\ marked' = marked \cup {getStartVersion(ktx[tx[t].kti].version)} \/ marked' = marked
      /\ UNCHANGED <<ktx, pool, direct, ids, flushed, vetoed>>
  BY <1>0 DEF MarkVersion, transactionCommit, IInv, TypeOK
<1>2. getStartVersion(ktx[tx[t].kti].version) \in Issued
  BY <1>1 DEF Marks
<1>3. marked' \subseteq Issued /\ marked \subseteq marked'
  BY <1>1, <1>2 DEF IInv, IdsInv
<1>4. Issued \subseteq HalfVersion
  BY VersionBound, LimitAssumption DEF IInv, TypeOK, Issued, HalfVersion
<1>5. a \in Transaction /\ Marks(a) /\ a.phase = "idle"
  BY <1>1, EndedRests
<1> HIDE DEF a
<1>6. /\ tx' \in [Thread -> Transaction] /\ tx'[t] = a
      /\ \A u \in Thread \ {t} : tx'[u] = tx[u]
  BY <1>1, <1>5
<1>7. /\ slot' = slot /\ pooled' = pooled /\ ktx' = ktx
      /\ vetoed' = vetoed /\ Issued' = Issued /\ highId' = highId /\ freed' = freed
  BY <1>1 DEF pool, ids, Issued
<1>8. IdsInv'
  BY <1>1, <1>3, <1>7 DEF IInv, IdsInv
<1>9. TypeOK'
  <2>1. freed' \cup marked' \cup flushed' \subseteq HalfVersion
    BY <1>1, <1>3, <1>4, <1>7 DEF IInv, TypeOK
  <2> QED
    BY <1>1, <1>6, <1>7, <2>1 DEF IInv, TypeOK
<1>10. \A u \in Thread : Using(u)' => Using(u) /\ tx'[u] = tx[u]
  BY <1>5, <1>6 DEF Using
<1>11. PoolInv'
  BY <1>7, <1>10 DEF IInv, PoolInv
<1>12. ASSUME NEW j \in Kti PROVE KtiInv(j)'
  BY <1>7 DEF IInv, KtiInv, Free
<1>13. ASSUME NEW u \in Thread PROVE ThreadInv(u)' /\ Marks(tx[u])'
  <2>1. ThreadInv(u)'
    <3>1. Using(u)' => Using(u) /\ tx'[u] = tx[u] /\ ThreadInv(u)
      BY <1>10 DEF IInv
    <3> QED
      BY <1>7, <3>1 DEF ThreadInv, Free
  <2>2. Marks(tx[u])'
    <3>1. Marks(tx'[u])
      BY <1>5, <1>6 DEF IInv
    <3> QED
      BY <1>7, <3>1 DEF Marks
  <2> QED
    BY <2>1, <2>2
<1> QED
  BY <1>8, <1>9, <1>11, <1>12, <1>13 DEF IInv

-----------------------------------------------------------------------------
(* Terminations, checkpoints, crashes. *)

LEMMA TerminateStep ==
  ASSUME IInv, NEW k \in Kti, NEW who, markForTerminationIfPossible(k, who), direct' \subseteq Kti,
         \/ who = Direct
         \/ who \in 1 .. MaxIncarnation /\ who <= Current(k) /\ ktx[k].expected[who] = ktx[k].reuseCount
  PROVE  IInv'
<1> DEFINE x == [ktx[k] EXCEPT !.failure = TRUE, !.reason = who]
<1>1. /\ tx \in [Thread -> Transaction] /\ ktx \in [Kti -> KernelTransaction]
      /\ ktx[k] \in KernelTransaction /\ KtiInv(k) /\ \A j \in Kti : KtiInv(j)
      /\ \A u \in Thread : ThreadInv(u) /\ Marks(tx[u])
  BY DEF IInv, TypeOK
<1>2. /\ ~ktx[k].closed
      /\ ktx' = [ktx EXCEPT ![k] = x]
      /\ vetoed' = IF ktx[k].closing THEN vetoed ELSE vetoed \cup {k}
      /\ slot' = slot /\ pooled' = pooled /\ tx' = tx
      /\ UNCHANGED <<ids, marked, flushed>>
  BY DEF markForTerminationIfPossible, canBeTerminated, pool
<1>3. /\ x \in KernelTransaction /\ x.failure /\ x.reason = who
      /\ x.success = ktx[k].success /\ x.closed = ktx[k].closed /\ x.closing = ktx[k].closing
      /\ x.expected = ktx[k].expected /\ x.reuseCount = ktx[k].reuseCount
      /\ x.version = ktx[k].version
  BY <1>1 DEF KernelTransaction
<1> HIDE DEF x
<1>4. Counted(x)
  <2>1. who # Direct => who = Len(ktx[k].expected)
    <3> SUFFICES ASSUME who # Direct PROVE who = Len(ktx[k].expected)
      OBVIOUS
    <3>1. /\ who \in 1 .. MaxIncarnation /\ who <= Len(ktx[k].expected)
          /\ ktx[k].expected[who] = ktx[k].reuseCount
      BY DEF Current
    <3>2. Len(ktx[k].expected) \in Nat /\ who \in 1 .. Len(ktx[k].expected)
      BY <1>1, <3>1 DEF KernelTransaction
    <3>3. ktx[k].reuseCount = who - 1
      BY <1>1, <3>1, <3>2 DEF KtiInv, Counted
    <3>4. ktx[k].reuseCount \in {Len(ktx[k].expected) - 1, Len(ktx[k].expected)}
      BY <1>1 DEF KtiInv, Counted
    <3> QED
      BY <3>2, <3>3, <3>4
  <2> QED
    BY <1>1, <1>3, <2>1 DEF KtiInv, Counted
<1>5. /\ ktx' \in [Kti -> KernelTransaction] /\ ktx'[k] = x
      /\ \A j \in Kti \ {k} : ktx'[j] = ktx[j]
  BY <1>1, <1>2, <1>3
<1>6. \A j : Free(j)' <=> Free(j)
  BY <1>2 DEF Free
<1>7. IdsInv' /\ Issued' = Issued
  BY <1>2 DEF IInv, IdsInv, Issued, ids
<1>8. TypeOK'
  BY <1>2, <1>5 DEF IInv, TypeOK, ids
<1>9. PoolInv'
  BY <1>2 DEF IInv, PoolInv, Using
<1>10. ASSUME NEW j \in Kti PROVE KtiInv(j)'
  <2>1. CASE j = k
    BY <1>1, <1>2, <1>3, <1>4, <1>5, <1>6, <2>1 DEF KtiInv, Resting
  <2>2. CASE j # k
    <3>1. /\ j \in Kti \ {k} /\ KtiInv(j) /\ (Free(j)' => Free(j))
          /\ (j \in vetoed' <=> j \in vetoed)
      BY <1>1, <1>2, <1>6, <2>2
    <3> QED
      BY <1>1, <1>2, <3>1, OtherKtis
  <2> QED
    BY <2>1, <2>2
<1>11. ASSUME NEW u \in Thread PROVE ThreadInv(u)' /\ Marks(tx[u])'
  <2>1. /\ tx'[u] = tx[u] /\ ThreadInv(u) /\ Marks(tx[u])
        /\ \A j \in Kti \ {k} : /\ Free(j)' => Free(j)
                                /\ j \in vetoed' <=> j \in vetoed
        /\ getStartVersion(ktx[k].version) \in Issued => getStartVersion(x.version) \in Issued'
        /\ Issued \subseteq Issued'
    BY <1>1, <1>2, <1>3, <1>6, <1>7
  <2>2. CASE ~(Using(u) /\ tx[u].kti = k)
    <3>1. Using(u) => tx[u].kti # k
      BY <2>2
    <3> QED
      BY <1>1, <1>2, <2>1, <3>1, OtherThreads
  <2>3. CASE Using(u) /\ tx[u].kti = k
    <3>1. /\ ~Free(k) /\ Serving(ktx[k])
          /\ Holds(tx[u], ktx[k], k \in vetoed)
      BY <2>1, <2>3 DEF ThreadInv
    <3>2. tx[u].phase = "committing" => k \notin vetoed'
      BY <1>2, <3>1 DEF Holds
    <3>3. Holds(tx[u], x, k \in vetoed')
      BY <1>2, <1>3, <3>1, <3>2 DEF Holds
    <3>4. ThreadInv(u)'
      BY <1>3, <1>5, <1>6, <2>1, <2>3, <3>1, <3>3 DEF ThreadInv, Serving
    <3>5. \A j \in Kti : ktx'[j].version = ktx[j].version
      BY <1>3, <1>5
    <3>6. Marks(tx[u])'
      BY <1>7, <2>1, <3>5 DEF Marks
    <3> QED
      BY <3>4, <3>6
  <2> QED
    BY <2>2, <2>3
<1> QED
  BY <1>7, <1>8, <1>9, <1>10, <1>11 DEF IInv

\* Terminations that reach nothing, calls of terminate(), checkpoints.
LEMMA OutsideStep ==
  ASSUME IInv, direct' \subseteq Kti, flushed' \in {flushed, marked},
         UNCHANGED <<ktx, pool, tx, ids, marked, vetoed>>
  PROVE  IInv'
<1>1. /\ ktx' = ktx /\ slot' = slot /\ pooled' = pooled /\ tx' = tx /\ highId' = highId
      /\ freed' = freed /\ marked' = marked /\ vetoed' = vetoed
  BY DEF pool, ids
<1>2. TypeOK' /\ PoolInv' /\ Issued' = Issued
  BY <1>1 DEF IInv, TypeOK, PoolInv, Using, Issued
<1>3. IdsInv'
  BY <1>1, <1>2 DEF IInv, IdsInv
<1>4. ASSUME NEW j \in Kti PROVE KtiInv(j)'
  BY <1>1 DEF IInv, KtiInv, Free
<1>5. ASSUME NEW u \in Thread PROVE ThreadInv(u)' /\ Marks(tx[u])'
  BY <1>1, <1>2 DEF IInv, ThreadInv, Using, Free, Marks
<1> QED
  BY <1>2, <1>3, <1>4, <1>5 DEF IInv

\* What a start finds: nothing runs, and all objects are in the pool.
Fresh ==
  /\ ktx = [k \in Kti |-> NewKti] /\ slot = [t \in Thread |-> None] /\ pooled = Kti
  /\ tx = [t \in Thread |-> NoTransaction]
  /\ direct = {} /\ vetoed = {}

LEMMA FreshInv ==
  ASSUME Fresh, IdsInv, highId \in 0 .. MaxVersion, freed \cup marked \cup flushed \subseteq HalfVersion
  PROVE  IInv
<1>1. NoTransaction \in Transaction /\ Marks(NoTransaction) /\ NoTransaction.phase = "idle"
  BY DEF NoTransaction, Transaction, Marks
<1>2. NewKti \in KernelTransaction /\ Counted(NewKti) /\ Resting(NewKti)
  <2>1. 0 \in Stamp /\ 0 \in 0 .. MaxIncarnation /\ <<>> \in Seq(0 .. MaxIncarnation)
    <3>1. 0 \in HalfVersion /\ 0 * Limit + 0 = 0
      BY LimitAssumption DEF HalfVersion
    <3> QED
      BY <3>1, StampOfHalves, IncarnationBound
  <2> QED
    BY <2>1, IncarnationBound DEF NewKti, KernelTransaction, Counted, Resting
<1>3. TypeOK
  BY <1>1, <1>2 DEF Fresh, TypeOK
<1>4. PoolInv
  BY <1>1 DEF Fresh, PoolInv, Using
<1>5. ASSUME NEW k \in Kti PROVE KtiInv(k)
  BY <1>2 DEF Fresh, KtiInv
<1>6. ASSUME NEW t \in Thread PROVE ThreadInv(t) /\ Marks(tx[t])
  BY <1>1 DEF Fresh, ThreadInv, Using
<1> QED
  BY <1>3, <1>4, <1>5, <1>6 DEF IInv

LEMMA CrashStep ==
  ASSUME IInv, NEW fast \in BOOLEAN, Crash(fast)
  PROVE  IInv'
<1>1. flushed \subseteq 0 .. MaxVersion - 1
  BY VersionBound DEF IInv, IdsInv, TypeOK, Issued
<1>2. highId' \in 0 .. MaxVersion /\ flushed \subseteq 0 .. ScanForHighId(flushed) - 1
  BY <1>1, HighId DEF Crash
<1>3. /\ highId' = ScanForHighId(flushed) /\ marked' = flushed /\ flushed' = flushed
      /\ freed' = IF fast THEN {} ELSE (0 .. highId' - 1) \ flushed
  BY DEF Crash
<1>4. marked' \subseteq Issued' /\ flushed' \subseteq marked'
  BY <1>2, <1>3 DEF Issued
<1>5. \A v \in freed' : v \in Nat /\ v < highId'
  BY <1>2, <1>3, VersionBound
<1>6. IdsInv' /\ freed' \cup marked' \cup flushed' \subseteq HalfVersion
  <2>1. freed' \subseteq HalfVersion
    BY <1>2, <1>5, VersionBound, LimitAssumption DEF HalfVersion
  <2>2. marked' \cup flushed' \subseteq HalfVersion
    BY <1>3 DEF IInv, TypeOK
  <2> QED
    BY <1>4, <1>5, <2>1, <2>2 DEF IdsInv
<1>7. Fresh'
  BY DEF Crash, Fresh
<1>8. (Fresh /\ IdsInv /\ highId \in 0 .. MaxVersion
         /\ freed \cup marked \cup flushed \subseteq HalfVersion)' => IInv'
  BY FreshInv, PTL
<1> QED
  BY <1>2, <1>6, <1>7, <1>8

-----------------------------------------------------------------------------
(* The theorems. *)

LEMMA InitIInv == Init => IInv
<1> SUFFICES ASSUME Init PROVE IInv
  OBVIOUS
<1>1. Fresh
  BY DEF Init, Fresh
<1>2. IdsInv /\ highId \in 0 .. MaxVersion /\ freed \cup marked \cup flushed \subseteq HalfVersion
  BY VersionBound DEF Init, IdsInv
<1> QED
  BY <1>1, <1>2, FreshInv

LEMMA NextIInv == IInv /\ [Next]_vars => IInv'
<1> SUFFICES ASSUME IInv, [Next]_vars PROVE IInv'
  OBVIOUS
<1>1. ASSUME NEW t \in Thread, NEW k \in Kti, NEW mark \in BOOLEAN, BeginTopLevel(t, k, mark)
      PROVE  IInv'
  BY <1>1, BeginTopLevelStep
<1>2. ASSUME NEW t \in Thread, NEW mark \in BOOLEAN, BeginNested(t, mark) PROVE IInv'
  BY <1>2, BeginNestedStep
<1>3. ASSUME NEW t \in Thread, Success(t) \/ Failure(t) \/ NestedSuccess(t) \/ NestedClose(t)
      PROVE  IInv'
  BY <1>3, SuccessStep, FailureStep, NestedSuccessStep, NestedCloseStep
<1>4. ASSUME NEW t \in Thread, NEW k \in Kti, CreateToken(t, k) PROVE IInv'
  BY <1>4, CreateTokenStep
<1>5. ASSUME NEW t \in Thread, CloseTransaction(t) \/ Commit(t) \/ CommitFails(t) \/ Rollback(t)
      PROVE  IInv'
  BY <1>5, CloseTransactionStep, CloseStep
<1>6. ASSUME NEW t \in Thread, Release(t) \/ MarkVersion(t) PROVE IInv'
  BY <1>6, ReleaseStep, MarkVersionStep
<1>7. ASSUME NEW t \in Thread, CallTerminate(t) PROVE IInv'
  <2>1. Using(t)
    BY <1>7 DEF CallTerminate, Using
  <2>2. tx[t].kti \in Kti
    BY <2>1, Own
  <2>3. direct' \subseteq Kti /\ flushed' = flushed /\ UNCHANGED <<ktx, pool, tx, ids, marked, vetoed>>
    BY <1>7, <2>2 DEF CallTerminate, IInv, TypeOK
  <2> QED
    BY <2>3, OutsideStep
<1>8. ASSUME NEW k \in Kti, NEW i \in 1 .. MaxIncarnation, TerminateByHandle(k, i) PROVE IInv'
  <2>1. direct' \subseteq Kti
    BY <1>8 DEF TerminateByHandle, IInv, TypeOK
  <2> QED
    BY <1>8, <2>1, TerminateStep DEF TerminateByHandle
<1>9. ASSUME NEW k \in Kti, TerminateDirectly(k) PROVE IInv'
  <2>1. direct' \subseteq Kti
    BY <1>9 DEF TerminateDirectly, IInv, TypeOK
  <2>2. CASE markForTerminationIfPossible(k, Direct)
    BY <2>1, <2>2, TerminateStep
  <2>3. CASE UNCHANGED <<ktx, pool, tx, ids, marked, flushed, vetoed>>
    BY <2>1, <2>3, OutsideStep
  <2> QED
    BY <1>9, <2>2, <2>3 DEF TerminateDirectly
<1>10. ASSUME Flush PROVE IInv'
  BY <1>10, OutsideStep DEF Flush, IInv, TypeOK
<1>11. ASSUME NEW fast \in BOOLEAN, Crash(fast) PROVE IInv'
  BY <1>11, CrashStep
<1>12. CASE UNCHANGED vars
  BY <1>12, OutsideStep DEF vars, IInv, TypeOK
<1> QED
  BY <1>1, <1>2, <1>3, <1>4, <1>5, <1>6, <1>7, <1>8, <1>9, <1>10, <1>11, <1>12 DEF Next

LEMMA Invariance == Spec => []IInv
BY InitIInv, NextIInv, PTL DEF Spec

HonestInv == \A t \in Thread : Honest(tx[t])

LEMMA HonestStep == IInv /\ HonestInv /\ [Next]_vars => HonestInv'
<1> SUFFICES ASSUME IInv, HonestInv, [Next]_vars PROVE HonestInv'
  OBVIOUS
<1>1. /\ tx \in [Thread -> Transaction] /\ \A u \in Thread : tx[u] \in Transaction
      /\ \A u \in Thread : Honest(tx[u])
  BY DEF IInv, TypeOK, HonestInv
<1>2. ASSUME NEW t \in Thread, \A u \in Thread \ {t} : tx'[u] = tx[u], Honest(tx'[t])
      PROVE  HonestInv'
  BY <1>1, <1>2 DEF HonestInv
<1>3. ASSUME NEW t \in Thread, NEW k \in Kti, NEW mark \in BOOLEAN, BeginTopLevel(t, k, mark)
      PROVE  HonestInv'
  <2>1. /\ tx'[t] = [NoTransaction EXCEPT !.phase = "open", !.kti = k, !.marking = mark]
        /\ \A u \in Thread \ {t} : tx'[u] = tx[u]
    BY <1>1, <1>3 DEF BeginTopLevel
  <2>2. tx'[t].phase = "open" /\ tx'[t].result = "none" /\ ~tx'[t].committed
    BY <2>1 DEF NoTransaction
  <2>3. Honest(tx'[t])
    BY <2>2 DEF Honest
  <2> QED
    BY <1>2, <2>1, <2>3
<1>4. ASSUME NEW t \in Thread,
             \/ \E mark \in BOOLEAN : BeginNested(t, mark)
             \/ Success(t) \/ NestedSuccess(t) \/ NestedClose(t) \/ CloseTransaction(t)
      PROVE  HonestInv'
  <2>1. /\ tx[t].phase \in {"open", "nested"}
        /\ tx'[t].phase \in {"open", "nested", "committing", "rollingBack"}
        /\ tx'[t].result = tx[t].result /\ tx'[t].committed = tx[t].committed
        /\ \A u \in Thread \ {t} : tx'[u] = tx[u]
    BY <1>1, <1>4 DEF BeginNested, Success, NestedSuccess, NestedClose, CloseTransaction, Transaction
  <2>2. Honest(tx'[t])
    BY <1>1, <2>1 DEF Honest
  <2> QED
    BY <1>2, <2>1, <2>2
<1>5. ASSUME NEW t \in Thread, Commit(t) \/ CommitFails(t) \/ Rollback(t)
      PROVE  HonestInv'
  <2>1. PICK won \in BOOLEAN, result \in {"returned", "threw"} :
          /\ CloseWith(t, won, result)
          /\ result = "returned" => (ktx[tx[t].kti].success <=> won)
    <3>1. tx[t].phase = "committing" => ktx[tx[t].kti].success
      BY DEF IInv, ThreadInv, Holds, Using
    <3> QED
      BY <1>5, <3>1 DEF Commit, CommitFails, Rollback
  <2>2. ktx[tx[t].kti].success <=> tx[t].successCalled
    BY <1>5 DEF Commit, CommitFails, Rollback, IInv, ThreadInv, Holds, Using
  <2>3. /\ tx'[t] = [tx[t] EXCEPT !.phase = "closed", !.committed = won, !.result = result]
        /\ \A u \in Thread \ {t} : tx'[u] = tx[u]
    BY <1>1, <2>1 DEF CloseWith
  <2>4. /\ tx'[t].phase = "closed" /\ tx'[t].committed = won /\ tx'[t].result = result
        /\ tx'[t].successCalled = tx[t].successCalled
    BY <1>1, <2>3 DEF Transaction
  <2>5. Honest(tx'[t])
    BY <2>1, <2>2, <2>4 DEF Honest
  <2> QED
    BY <1>2, <2>3, <2>5
<1>6. ASSUME NEW t \in Thread, Release(t) \/ MarkVersion(t)
      PROVE  HonestInv'
  <2>1. tx[t].result \in {"returned", "threw"}
    BY <1>1, <1>6 DEF Release, MarkVersion, Honest, Transaction
  <2>2. PICK result \in {tx[t].result, "threw"} :
          /\ tx'[t] = Ended(tx[t], result) \/ (tx'[t] = Left(tx[t], result) /\ tx[t].phase = "closed")
          /\ \A u \in Thread \ {t} : tx'[u] = tx[u]
    BY <1>1, <1>6 DEF Release, MarkVersion, Honest
  <2>3. CASE tx'[t] = Ended(tx[t], result)
    <3>1. /\ tx'[t].phase = "idle" /\ tx'[t].result = result
          /\ tx'[t].committed = tx[t].committed /\ tx'[t].successCalled = tx[t].successCalled
      BY <1>1, <2>1, <2>3, EndedRests
    <3>2. Honest(tx'[t])
      BY <1>1, <2>1, <2>2, <3>1 DEF Honest
    <3> QED
      BY <1>2, <2>2, <3>2
  <2>4. CASE tx'[t] = [tx[t] EXCEPT !.phase = "released"] /\ result = "returned"
    <3>1. /\ tx'[t].phase = "released" /\ tx'[t].result = tx[t].result
          /\ tx'[t].committed = tx[t].committed /\ tx'[t].successCalled = tx[t].successCalled
      BY <1>1, <2>4 DEF Transaction
    <3>2. Honest(tx'[t])
      BY <1>1, <2>1, <2>2, <2>4, <3>1 DEF Honest
    <3> QED
      BY <1>2, <2>2, <3>2
  <2> QED
    BY <2>2, <2>3, <2>4 DEF Left
<1>7. ASSUME NEW fast \in BOOLEAN, Crash(fast) PROVE HonestInv'
  <2>1. Honest(NoTransaction)
    BY DEF NoTransaction, Honest
  <2> QED
    BY <1>7, <2>1 DEF Crash, HonestInv
<1>8. ASSUME tx' = tx PROVE HonestInv'
  BY <1>1, <1>8 DEF HonestInv
<1>9. ASSUME NEW t \in Thread, Failure(t) \/ CallTerminate(t) \/ \E k \in Kti : CreateToken(t, k)
      PROVE  HonestInv'
  BY <1>8, <1>9 DEF Failure, CallTerminate, CreateToken
<1>10. ASSUME NEW k \in Kti,
              (\E i \in 1 .. MaxIncarnation : TerminateByHandle(k, i)) \/ TerminateDirectly(k)
       PROVE  HonestInv'
  BY <1>8, <1>10 DEF TerminateByHandle, TerminateDirectly, markForTerminationIfPossible
<1>11. CASE Flush \/ UNCHANGED vars
  BY <1>8, <1>11 DEF Flush, vars
<1> QED
  BY <1>3, <1>4, <1>5, <1>6, <1>7, <1>9, <1>10, <1>11 DEF Next

LEMMA Honesty == Spec => []HonestInv
<1>1. Init => HonestInv
  BY DEF Init, NoTransaction, HonestInv, Honest
<1> QED
  BY <1>1, HonestStep, Invariance, PTL DEF Spec

(* Objects, transactions, pool and version store keep their types: a       *)
(* rebuild after a crash finds a highest id, and stamps stay stamps.       *)
THEOREM TypeCorrect == Spec => []TypeOK
<1>1. IInv => TypeOK
  BY DEF IInv
<1> QED
  BY <1>1, Invariance, PTL

(* A kti serves one thread at a time and is nowhere else meanwhile, and it *)
(* is open until its client closes it.                                     *)
THEOREM Owned == Spec => []OneOwner
<1>1. IInv => OneOwner
  <2> SUFFICES ASSUME IInv, NEW t \in Thread
               PROVE  /\ Using(t) =>
                           /\ tx[t].kti \notin pooled
                           /\ \A u \in Thread : /\ slot[u] # tx[t].kti
                                                /\ u # t /\ Using(u) => tx[u].kti # tx[t].kti
                      /\ tx[t].phase \in {"open", "nested"} => isOpen(tx[t].kti)
                      /\ slot[t] # None =>
                           slot[t] \notin pooled /\ \A u \in Thread \ {t} : slot[u] # slot[t]
    BY DEF OneOwner
  <2>1. Using(t) => ~Free(tx[t].kti) /\ Holds(tx[t], ktx[tx[t].kti], tx[t].kti \in vetoed)
    BY DEF IInv, ThreadInv
  <2>2. tx[t].phase \in {"open", "nested"} => isOpen(tx[t].kti)
    BY <2>1 DEF Using, Holds, isOpen
  <2> QED
    BY <2>1, <2>2 DEF Free, IInv, PoolInv
<1> QED
  BY <1>1, Invariance, PTL

(* When close() returns, the transaction was committed if and only if the  *)
(* client had called success(), whatever has happened to it meanwhile.     *)
THEOREM CloseTellsTheTruth == Spec => []CloseIsHonest
<1>1. HonestInv => CloseIsHonest
  BY DEF HonestInv, Honest, CloseIsHonest
<1> QED
  BY <1>1, Honesty, PTL

(* What failed, or was terminated before its close began, is not committed,*)
(* in whatever order terminations, nested closes and the close come.       *)
THEOREM NoVetoOverruled == Spec => []VetoIsFinal
<1>1. IInv /\ HonestInv => VetoIsFinal
  <2> SUFFICES ASSUME IInv, HonestInv, NEW t \in Thread, Using(t), tx[t].committed
               PROVE  tx[t].kti \notin vetoed
    BY DEF VetoIsFinal
  <2>1. tx[t].phase = "closed"
    BY DEF HonestInv, Honest, IInv, TypeOK, Transaction, Using
  <2> QED
    BY <2>1 DEF IInv, ThreadInv, Holds
<1> QED
  BY <1>1, Invariance, Honesty, PTL

(* A termination asked of a handle marks the incarnation it was taken from *)
(* or none.                                                                *)
THEOREM OwnTerminated == Spec => []HandleTerminatesItsOwn
<1>1. IInv => HandleTerminatesItsOwn
  BY DEF IInv, KtiInv, Counted, Current, HandleTerminatesItsOwn
<1> QED
  BY <1>1, Invariance, PTL

(* A marked version is never handed out again, for any number of crashes   *)
(* and rebuilds.                                                           *)
THEOREM NeverReissued == Spec => []MarkedNeverReissued
<1>1. IInv => MarkedNeverReissued
  <2> SUFFICES ASSUME IInv PROVE MarkedNeverReissued
    OBVIOUS
  <2>1. /\ highId \in 0 .. MaxVersion /\ MaxVersion \in Nat
        /\ marked \subseteq Issued
    BY VersionBound DEF IInv, TypeOK, IdsInv
  <2>2. marked \subseteq 0 .. highId - 1 /\ marked \cap freed = {}
    BY <2>1 DEF Issued
  <2>3. highId \notin marked
    BY <2>1, <2>2
  <2>4. marked \cap NextIds = {}
    BY <2>2, <2>3 DEF NextIds
  <2> QED
    BY <2>2, <2>4 DEF MarkedNeverReissued
<1> QED
  BY <1>1, Invariance, PTL

-------------------------------------------------------------------------------
(* The abstract specifications: atomic transactions, and the ledger of versions. *)

(* What the client of a thread knows is in the record of its transaction,  *)
(* and a transaction whose outcome is open uses its kti.                   *)
LEMMA Knows ==
  ASSUME IInv, HonestInv, NEW t \in Thread
  PROVE  /\ outcome[t] = Outcome(t) /\ told[t] = Told(t)
         /\ t \in asked <=> tx[t].successCalled
         /\ t \in doomed <=> Outcome(t) = "pending" /\ tx[t].kti \in vetoed
         /\ Outcome(t) = "pending" <=> tx[t].phase \in {"open", "nested", "committing", "rollingBack"}
         /\ tx[t].phase = "idle" => Outcome(t) = "none" \/ Told(t) # "none"
         /\ tx[t].phase # "idle" => Told(t) = "none"
<1>1. tx[t] \in Transaction /\ Honest(tx[t])
  BY DEF IInv, TypeOK, HonestInv
<1>2. /\ outcome[t] = Outcome(t) /\ told[t] = Told(t)
      /\ t \in asked <=> tx[t].successCalled
      /\ t \in doomed <=> Outcome(t) = "pending" /\ tx[t].kti \in vetoed
  BY DEF outcome, told, asked, doomed
<1>3. Outcome(t) = "pending" <=> tx[t].phase \in {"open", "nested", "committing", "rollingBack"}
  BY <1>1 DEF Outcome, Honest, Transaction
<1>4. /\ tx[t].phase = "idle" => Outcome(t) = "none" \/ Told(t) # "none"
      /\ tx[t].phase # "idle" => Told(t) = "none"
  BY DEF Outcome, Told
<1> QED
  BY <1>2, <1>3, <1>4

\* The same of the state after a step.
LEMMA KnowsAfter ==
  ASSUME NEW t \in Thread
  PROVE  /\ outcome'[t] = Outcome(t)' /\ told'[t] = Told(t)'
         /\ t \in asked' <=> tx'[t].successCalled
         /\ t \in doomed' <=> Outcome(t)' = "pending" /\ tx'[t].kti \in vetoed'
         /\ Outcome(t)' = IF tx'[t].result # "none"
                          THEN IF tx'[t].committed THEN "committed" ELSE "aborted"
                          ELSE IF tx'[t].phase = "idle" THEN "none" ELSE "pending"
         /\ Told(t)' = IF tx'[t].phase = "idle" THEN tx'[t].result ELSE "none"
BY DEF outcome, told, asked, doomed, Outcome, Told

\* A step of one thread, on a kti that no other uses, is not seen by the
\* clients of the others.
LEMMA OthersKnow ==
  ASSUME IInv, HonestInv, NEW t \in Thread, NEW k,
         \A u \in Thread \ {t} : tx'[u] = tx[u] /\ (Using(u) => tx[u].kti # k),
         \A h \in Kti \ {k} : (h \in vetoed' <=> h \in vetoed)
  PROVE  \A u \in Thread \ {t} :
           /\ outcome'[u] = outcome[u] /\ told'[u] = told[u]
           /\ u \in asked' <=> u \in asked
           /\ u \in doomed' <=> u \in doomed
<1> SUFFICES ASSUME NEW u \in Thread \ {t}
             PROVE  /\ outcome'[u] = outcome[u] /\ told'[u] = told[u]
                    /\ u \in asked' <=> u \in asked
                    /\ u \in doomed' <=> u \in doomed
  OBVIOUS
<1>1. tx'[u] = tx[u] /\ Outcome(u)' = Outcome(u) /\ Told(u)' = Told(u)
  BY DEF Outcome, Told
<1>2. Outcome(u) = "pending" => (tx[u].kti \in vetoed' <=> tx[u].kti \in vetoed)
  <2> SUFFICES ASSUME Outcome(u) = "pending" PROVE tx[u].kti \in vetoed' <=> tx[u].kti \in vetoed
    OBVIOUS
  <2>1. Using(u)
    BY Knows DEF Using
  <2>2. tx[u].kti \in Kti \ {k}
    BY <2>1 DEF IInv, ThreadInv
  <2> QED
    BY <2>2
<1> QED
  BY <1>1, <1>2 DEF outcome, told, asked, doomed

\* The clients after the step, from what the one of thread t knows then.
LEMMA Mapping ==
  ASSUME NEW t \in Thread, NEW o, NEW a, NEW want \in BOOLEAN, NEW doom \in BOOLEAN,
         \A u \in Thread \ {t} :
           /\ outcome'[u] = outcome[u] /\ told'[u] = told[u]
           /\ u \in asked' <=> u \in asked
           /\ u \in doomed' <=> u \in doomed,
         outcome'[t] = o, told'[t] = a, t \in asked' <=> want, t \in doomed' <=> doom
  PROVE  /\ outcome' = [outcome EXCEPT ![t] = o] /\ told' = [told EXCEPT ![t] = a]
         /\ outcome[t] = o => outcome' = outcome
         /\ told[t] = a => told' = told
         /\ asked' = IF want THEN asked \cup {t} ELSE asked \ {t}
         /\ (t \in asked <=> want) => asked' = asked
         /\ doomed' = IF doom THEN doomed \cup {t} ELSE doomed \ {t}
         /\ (t \in doomed <=> doom) => doomed' = doomed
<1>1. /\ outcome = [u \in Thread |-> outcome[u]] /\ outcome' = [u \in Thread |-> outcome'[u]]
      /\ told = [u \in Thread |-> told[u]] /\ told' = [u \in Thread |-> told'[u]]
      /\ asked \subseteq Thread /\ asked' \subseteq Thread
      /\ doomed \subseteq Thread /\ doomed' \subseteq Thread
  BY DEF outcome, told, asked, doomed
<1> HIDE DEF outcome, told, asked, doomed
<1>2. /\ outcome' = [outcome EXCEPT ![t] = o] /\ told' = [told EXCEPT ![t] = a]
      /\ outcome[t] = o => outcome' = outcome
      /\ told[t] = a => told' = told
  BY <1>1
<1>3. \A u : u \in asked' <=> u \in IF want THEN asked \cup {t} ELSE asked \ {t}
  BY <1>1
<1>4. \A u : u \in doomed' <=> u \in IF doom THEN doomed \cup {t} ELSE doomed \ {t}
  BY <1>1
<1> QED
  BY <1>2, <1>3, <1>4

\* What the transactions of other threads use is not what this one uses.
LEMMA OtherUses ==
  ASSUME IInv, NEW t \in Thread, Using(t)
  PROVE  \A u \in Thread \ {t} : Using(u) => tx[u].kti # tx[t].kti
BY DEF IInv, PoolInv

\* While nothing that the mapping reads changes, it stays.
LEMMA Unseen ==
  ASSUME IInv, HonestInv, NEW t \in Thread,
         \A u \in Thread \ {t} : tx'[u] = tx[u],
         Outcome(t)' = Outcome(t), Told(t)' = Told(t),
         tx'[t].successCalled <=> tx[t].successCalled,
         Using(t) => tx'[t].kti = tx[t].kti,
         \A h \in Kti : \A u \in Thread : Using(u) /\ tx[u].kti = h => (h \in vetoed' <=> h \in vetoed)
  PROVE  UNCHANGED AT!client
<1>1. ASSUME NEW u \in Thread
      PROVE  /\ Outcome(u)' = Outcome(u) /\ Told(u)' = Told(u)
             /\ u \in asked' <=> u \in asked
             /\ u \in doomed' <=> u \in doomed
  <2>1. /\ Outcome(u)' = Outcome(u) /\ Told(u)' = Told(u)
        /\ tx'[u].successCalled <=> tx[u].successCalled
        /\ Using(u) => tx'[u].kti = tx[u].kti
    BY DEF Outcome, Told
  <2>2. Outcome(u) = "pending" => Using(u)
    BY Knows DEF Using
  <2>3. Using(u) => (tx[u].kti \in vetoed' <=> tx[u].kti \in vetoed)
    BY DEF IInv, ThreadInv
  <2>4. (u \in asked' <=> u \in asked) /\ (u \in doomed' <=> u \in doomed)
    BY <2>1, <2>2, <2>3 DEF asked, doomed
  <2> QED
    BY <2>1, <2>4
<1>2. outcome' = outcome /\ told' = told
  BY <1>1 DEF outcome, told
<1>3. asked' = asked /\ doomed' = doomed
  <2>1. \A u : (u \in asked => u \in Thread) /\ (u \in asked' => u \in Thread)
               /\ (u \in doomed => u \in Thread) /\ (u \in doomed' => u \in Thread)
    BY DEF asked, doomed
  <2>2. \A u : (u \in asked' <=> u \in asked) /\ (u \in doomed' <=> u \in doomed)
    BY <1>1, <2>1
  <2> HIDE DEF asked, doomed
  <2> QED
    BY <2>2
<1> QED
  BY <1>2, <1>3 DEF AT!client

\* Whoever vetoes the transaction of a thread dooms it, unless it is doomed.
LEMMA VetoShown ==
  ASSUME IInv, HonestInv, NEW t \in Thread,
         tx[t].phase \in {"open", "nested", "committing", "rollingBack"},
         \A u \in Thread \ {t} : tx'[u] = tx[u],
         Outcome(t)' = "pending", Told(t)' = "none", tx'[t].kti = tx[t].kti,
         tx'[t].successCalled <=> tx[t].successCalled,
         vetoed' = vetoed \cup {tx[t].kti}
  PROVE  AT!Doom(t)
<1>1. Using(t)
  BY DEF Using
<1>2. \A u \in Thread \ {t} :
        /\ outcome'[u] = outcome[u] /\ told'[u] = told[u]
        /\ u \in asked' <=> u \in asked
        /\ u \in doomed' <=> u \in doomed
  <2>1. \A u \in Thread \ {t} : tx'[u] = tx[u] /\ (Using(u) => tx[u].kti # tx[t].kti)
    BY <1>1, OtherUses
  <2>2. \A h \in Kti \ {tx[t].kti} : (h \in vetoed' <=> h \in vetoed)
    OBVIOUS
  <2> QED
    BY <2>1, <2>2, OthersKnow
<1>3. /\ outcome[t] = "pending" /\ outcome'[t] = "pending"
      /\ told[t] = "none" /\ told'[t] = "none"
  BY Knows, KnowsAfter
<1>4. PICK want \in BOOLEAN : want <=> tx[t].successCalled
  OBVIOUS
<1>5. (t \in asked <=> want) /\ (t \in asked' <=> want) /\ (t \in doomed' <=> TRUE)
  BY <1>4, Knows, KnowsAfter
<1>6. outcome' = outcome /\ told' = told /\ asked' = asked /\ doomed' = doomed \cup {t}
  BY <1>2, <1>3, <1>5, Mapping
<1> QED
  BY <1>3, <1>6 DEF AT!Doom

LEMMA BeginShown ==
  ASSUME IInv, HonestInv, NEW t \in Thread, NEW k \in Kti, NEW mark \in BOOLEAN,
         BeginTopLevel(t, k, mark)
  PROVE  AT!Begin(t)
<1> DEFINE new == [NoTransaction EXCEPT !.phase = "open", !.kti = k, !.marking = mark]
<1>1. Free(k)
  BY DEF BeginTopLevel, acquire, Acquirable, Free
<1>2. tx \in [Thread -> Transaction]
  BY DEF IInv, TypeOK
<1>3. tx' = [tx EXCEPT ![t] = new] /\ tx[t].phase = "idle"
  BY DEF BeginTopLevel
<1>4. new.phase = "open" /\ new.kti = k /\ new.successCalled = FALSE /\ new.result = "none"
  BY DEF NoTransaction
<1> HIDE DEF new
<1>5. tx'[t] = new /\ \A u \in Thread \ {t} : tx'[u] = tx[u]
  BY <1>2, <1>3
<1>6. \A u \in Thread \ {t} : tx'[u] = tx[u] /\ (Using(u) => tx[u].kti # k)
  BY <1>1, <1>5 DEF IInv, ThreadInv
<1>7. vetoed' = vetoed \ {k}
  BY DEF BeginTopLevel
<1>8. \A h \in Kti \ {k} : (h \in vetoed' <=> h \in vetoed)
  BY <1>7
<1>9. (outcome[t] = "none" \/ told[t] # "none") /\ t \notin doomed
  BY <1>3, Knows
<1>10. outcome'[t] = "pending" /\ told'[t] = "none" /\ t \notin asked' /\ t \notin doomed'
  BY <1>4, <1>5, <1>7, KnowsAfter
<1>11. \A u \in Thread \ {t} :
         /\ outcome'[u] = outcome[u] /\ told'[u] = told[u]
         /\ u \in asked' <=> u \in asked
         /\ u \in doomed' <=> u \in doomed
  BY <1>6, <1>8, OthersKnow
<1>12. (t \in asked' <=> FALSE) /\ (t \in doomed' <=> FALSE) /\ (t \in doomed <=> FALSE)
  BY <1>9, <1>10
<1>13. /\ outcome' = [outcome EXCEPT ![t] = "pending"] /\ told' = [told EXCEPT ![t] = "none"]
       /\ asked' = asked \ {t} /\ doomed' = doomed
  BY <1>10, <1>11, <1>12, Mapping
<1> QED
  BY <1>9, <1>13 DEF AT!Begin

LEMMA SuccessShown ==
  ASSUME IInv, HonestInv, NEW t \in Thread, Success(t)
  PROVE  AT!Ask(t)
<1>1. tx \in [Thread -> Transaction] /\ tx[t] \in Transaction /\ tx[t].phase = "open"
  BY DEF IInv, TypeOK, Success
<1>2. /\ tx'[t] = [tx[t] EXCEPT !.successCalled = TRUE]
      /\ \A u \in Thread \ {t} : tx'[u] = tx[u]
  BY <1>1 DEF Success
<1>3. /\ tx'[t].phase = "open" /\ tx'[t].kti = tx[t].kti /\ tx'[t].successCalled
      /\ tx'[t].result = "none" /\ vetoed' = vetoed
  BY <1>1, <1>2 DEF Transaction, Success, HonestInv, Honest
<1>4. \A u \in Thread \ {t} :
        /\ outcome'[u] = outcome[u] /\ told'[u] = told[u]
        /\ u \in asked' <=> u \in asked
        /\ u \in doomed' <=> u \in doomed
  <2>1. \A u \in Thread \ {t} : tx'[u] = tx[u] /\ (Using(u) => tx[u].kti # tx[t].kti)
    BY <1>1, <1>2, OtherUses DEF Using
  <2> QED
    BY <1>3, <2>1, OthersKnow
<1>5. outcome[t] = "pending" /\ told[t] = "none" /\ (t \in doomed <=> tx[t].kti \in vetoed)
  BY <1>1, Knows
<1>6. /\ outcome'[t] = "pending" /\ told'[t] = "none" /\ (t \in asked' <=> TRUE)
      /\ t \in doomed' <=> tx[t].kti \in vetoed
  BY <1>3, KnowsAfter
<1>7. PICK doom \in BOOLEAN : doom <=> tx[t].kti \in vetoed
  OBVIOUS
<1>8. (t \in doomed <=> doom) /\ (t \in doomed' <=> doom)
  BY <1>5, <1>6, <1>7
<1>9. outcome' = outcome /\ told' = told /\ asked' = asked \cup {t} /\ doomed' = doomed
  BY <1>4, <1>5, <1>6, <1>8, Mapping
<1> QED
  BY <1>5, <1>9 DEF AT!Ask

\* The outcome is decided when the commit or the rollback has ended.
LEMMA CloseShown ==
  ASSUME IInv, HonestInv, NEW t \in Thread, Commit(t) \/ CommitFails(t) \/ Rollback(t)
  PROVE  AT!Commit(t) \/ AT!Abort(t)
<1> DEFINE k == tx[t].kti
<1>1. /\ tx \in [Thread -> Transaction] /\ tx[t] \in Transaction
      /\ tx[t].phase \in {"committing", "rollingBack"}
  BY DEF IInv, TypeOK, Commit, CommitFails, Rollback
<1>2. PICK won \in BOOLEAN, result \in {"returned", "threw"} :
        CloseWith(t, won, result) /\ (won => tx[t].phase = "committing")
  BY DEF Commit, CommitFails, Rollback
<1>3. /\ tx'[t] = [tx[t] EXCEPT !.phase = "closed", !.committed = won, !.result = result]
      /\ \A u \in Thread \ {t} : tx'[u] = tx[u]
      /\ vetoed' = vetoed
  BY <1>1, <1>2 DEF CloseWith
<1>4. /\ tx'[t].phase = "closed" /\ tx'[t].committed = won /\ tx'[t].result = result
      /\ tx'[t].successCalled = tx[t].successCalled
  BY <1>1, <1>3 DEF Transaction
<1>5. won => tx[t].successCalled /\ k \notin vetoed
  BY <1>1, <1>2 DEF IInv, ThreadInv, Holds, Using
<1>6. \A u \in Thread \ {t} :
        /\ outcome'[u] = outcome[u] /\ told'[u] = told[u]
        /\ u \in asked' <=> u \in asked
        /\ u \in doomed' <=> u \in doomed
  <2>1. \A u \in Thread \ {t} : tx'[u] = tx[u] /\ (Using(u) => tx[u].kti # k)
    BY <1>1, <1>3, OtherUses DEF Using
  <2>2. \A h \in Kti \ {k} : (h \in vetoed' <=> h \in vetoed)
    BY <1>3
  <2> HIDE DEF k
  <2> QED
    BY <2>1, <2>2, OthersKnow
<1>7. /\ outcome[t] = "pending" /\ told[t] = "none"
      /\ t \in asked <=> tx[t].successCalled
      /\ t \in doomed <=> k \in vetoed
  BY <1>1, Knows
<1>8. /\ outcome'[t] = IF won THEN "committed" ELSE "aborted"
      /\ told'[t] = "none" /\ (t \in doomed' <=> FALSE)
      /\ t \in asked' <=> tx[t].successCalled
  BY <1>4, KnowsAfter
<1> HIDE DEF k
<1>9. PICK want \in BOOLEAN : want <=> tx[t].successCalled
  OBVIOUS
<1>10. (t \in asked <=> want) /\ (t \in asked' <=> want)
  BY <1>7, <1>8, <1>9
<1>11. PICK o : o = IF won THEN "committed" ELSE "aborted"
  OBVIOUS
<1>12. outcome'[t] = o
  BY <1>8, <1>11
<1>13. /\ outcome' = [outcome EXCEPT ![t] = o] /\ told' = told /\ asked' = asked
       /\ doomed' = doomed \ {t} /\ (t \notin doomed => doomed' = doomed)
  <2>1. told'[t] = "none" /\ (t \in asked' <=> want) /\ (t \in doomed' <=> FALSE)
    BY <1>8, <1>10
  <2>2. /\ outcome' = [outcome EXCEPT ![t] = o]
        /\ told[t] = "none" => told' = told
        /\ (t \in asked <=> want) => asked' = asked
        /\ doomed' = doomed \ {t}
        /\ (t \in doomed <=> FALSE) => doomed' = doomed
    BY <1>6, <1>12, <2>1, Mapping
  <2> QED
    BY <1>7, <1>10, <2>2
<1>14. CASE won
  <2>1. t \in asked \ doomed /\ doomed' = doomed
    BY <1>5, <1>7, <1>13, <1>14
  <2> QED
    BY <1>7, <1>11, <1>13, <1>14, <2>1 DEF AT!Commit
<1>15. CASE ~won
  BY <1>7, <1>11, <1>13, <1>15 DEF AT!Abort
<1> QED
  BY <1>14, <1>15

\* The end of the close tells the client, and decides nothing any more.
LEMMA EndShown ==
  ASSUME IInv, HonestInv, NEW t \in Thread, tx[t].phase \in {"closed", "released"},
         NEW result \in {"returned", "threw"}, result = "returned" => tx[t].result = "returned",
         tx' = [tx EXCEPT ![t] = Ended(tx[t], result)], vetoed' = vetoed
  PROVE  AT!Return(t) \/ AT!Throw(t)
<1>1. tx \in [Thread -> Transaction] /\ tx[t] \in Transaction /\ Honest(tx[t])
  BY DEF IInv, TypeOK, HonestInv
<1>2. /\ tx'[t].phase = "idle" /\ tx'[t].result = result
      /\ tx'[t].committed = tx[t].committed /\ tx'[t].successCalled = tx[t].successCalled
      /\ \A u \in Thread \ {t} : tx'[u] = tx[u]
  <2>1. tx'[t] = Ended(tx[t], result) /\ \A u \in Thread \ {t} : tx'[u] = tx[u]
    BY <1>1
  <2> QED
    BY <1>1, <2>1, EndedRests
<1>3. tx[t].result # "none"
  BY <1>1 DEF Honest
<1>4. PICK o : o = IF tx[t].committed THEN "committed" ELSE "aborted"
  OBVIOUS
<1>5. /\ outcome[t] = o /\ told[t] = "none"
      /\ t \in asked <=> tx[t].successCalled
      /\ t \in doomed <=> FALSE
  <2>1. Outcome(t) = o
    BY <1>3, <1>4 DEF Outcome
  <2> QED
    BY <1>4, <2>1, Knows
<1>6. /\ outcome'[t] = o /\ told'[t] = result
      /\ t \in asked' <=> tx[t].successCalled
      /\ t \in doomed' <=> FALSE
  BY <1>2, <1>4, KnowsAfter
<1>7. \A u \in Thread \ {t} :
        /\ outcome'[u] = outcome[u] /\ told'[u] = told[u]
        /\ u \in asked' <=> u \in asked
        /\ u \in doomed' <=> u \in doomed
  <2>1. \A u \in Thread \ {t} : tx'[u] = tx[u] /\ (Using(u) => tx[u].kti # None)
    BY <1>2, NoneAssumption DEF IInv, ThreadInv
  <2> QED
    BY <2>1, OthersKnow
<1>8. PICK want \in BOOLEAN : want <=> tx[t].successCalled
  OBVIOUS
<1>9. (t \in asked <=> want) /\ (t \in asked' <=> want)
  BY <1>5, <1>6, <1>8
<1>10. /\ outcome' = outcome /\ told' = [told EXCEPT ![t] = result]
       /\ asked' = asked /\ doomed' = doomed
  <2>1. PICK doom \in BOOLEAN : doom = FALSE
    OBVIOUS
  <2>2. outcome'[t] = o /\ told'[t] = result /\ (t \in asked' <=> want) /\ (t \in doomed' <=> doom)
    BY <1>6, <1>9, <2>1
  <2>3. /\ outcome[t] = o => outcome' = outcome
        /\ told' = [told EXCEPT ![t] = result]
        /\ (t \in asked <=> want) => asked' = asked
        /\ (t \in doomed <=> doom) => doomed' = doomed
    BY <1>7, <2>2, Mapping
  <2> QED
    BY <1>5, <1>9, <2>1, <2>3
<1>11. CASE result = "returned"
  <2>1. tx[t].committed <=> tx[t].successCalled
    BY <1>1, <1>11 DEF Honest
  <2>2. outcome[t] = IF t \in asked THEN "committed" ELSE "aborted"
    BY <1>4, <1>5, <2>1
  <2> QED
    BY <1>5, <1>10, <1>11, <2>2 DEF AT!Return
<1>12. CASE result = "threw"
  BY <1>4, <1>5, <1>10, <1>12 DEF AT!Throw
<1> QED
  BY <1>11, <1>12

LEMMA ReleaseShown ==
  ASSUME IInv, HonestInv, NEW t \in Thread, Release(t)
  PROVE  AT!Return(t) \/ AT!Throw(t) \/ UNCHANGED AT!client
<1>1. /\ tx \in [Thread -> Transaction] /\ tx[t] \in Transaction /\ tx[t].phase = "closed"
      /\ tx[t].result \in {"returned", "threw"} /\ vetoed' = vetoed
  BY DEF IInv, TypeOK, Release, HonestInv, Honest, Transaction
<1>2. PICK result \in {tx[t].result, "threw"} : tx' = [tx EXCEPT ![t] = Left(tx[t], result)]
  BY <1>1 DEF Release
<1>3. CASE result = "returned" /\ tx[t].marking
  <2>1. /\ tx'[t] = [tx[t] EXCEPT !.phase = "released"]
        /\ \A u \in Thread \ {t} : tx'[u] = tx[u]
    BY <1>1, <1>2, <1>3 DEF Left
  <2>2. /\ tx'[t].phase = "released" /\ tx'[t].result = tx[t].result
        /\ tx'[t].kti = tx[t].kti /\ tx'[t].committed = tx[t].committed
        /\ tx'[t].successCalled = tx[t].successCalled
    BY <1>1, <2>1 DEF Transaction
  <2>3. Outcome(t)' = Outcome(t) /\ Told(t)' = Told(t)
    BY <1>1, <2>2 DEF Outcome, Told
  <2> QED
    BY <1>1, <2>1, <2>2, <2>3, Unseen
<1>4. CASE ~(result = "returned" /\ tx[t].marking)
  <2>1. tx' = [tx EXCEPT ![t] = Ended(tx[t], result)]
    BY <1>2, <1>4 DEF Left
  <2>2. result \in {"returned", "threw"} /\ (result = "returned" => tx[t].result = "returned")
    BY <1>1, <1>2
  <2> QED
    BY <1>1, <2>1, <2>2, EndShown
<1> QED
  BY <1>3, <1>4

LEMMA MarkVersionShown ==
  ASSUME IInv, HonestInv, NEW t \in Thread, MarkVersion(t)
  PROVE  AT!Return(t) \/ AT!Throw(t)
<1>1. /\ tx[t].phase = "released" /\ tx[t].result = "returned" /\ vetoed' = vetoed
  BY DEF MarkVersion, HonestInv, Honest
<1>2. PICK result \in {"returned", "threw"} : tx' = [tx EXCEPT ![t] = Ended(tx[t], result)]
  BY DEF MarkVersion, IInv, TypeOK
<1> QED
  BY <1>1, <1>2, EndShown

\* Steps that no client sees.
LEMMA QuietShown ==
  ASSUME IInv, HonestInv, NEW t \in Thread,
         \/ \E mark \in BOOLEAN : BeginNested(t, mark)
         \/ NestedSuccess(t) \/ CloseTransaction(t) \/ CallTerminate(t)
  PROVE  UNCHANGED AT!client
<1>1. tx \in [Thread -> Transaction] /\ tx[t] \in Transaction /\ Honest(tx[t])
  BY DEF IInv, TypeOK, HonestInv
<1>2. vetoed' = vetoed
  BY DEF BeginNested, NestedSuccess, CloseTransaction, CallTerminate
<1>3. /\ tx[t].phase \in {"open", "nested"}
      /\ tx'[t].phase \in {"open", "nested", "committing", "rollingBack"}
      /\ tx'[t].kti = tx[t].kti /\ tx'[t].successCalled = tx[t].successCalled
      /\ tx'[t].result = tx[t].result
      /\ \A u \in Thread \ {t} : tx'[u] = tx[u]
  BY <1>1 DEF BeginNested, NestedSuccess, CloseTransaction, CallTerminate, Transaction
<1>4. Outcome(t)' = Outcome(t) /\ Told(t)' = Told(t)
  BY <1>1, <1>3 DEF Outcome, Told, Honest
<1> QED
  BY <1>2, <1>3, <1>4, Unseen

LEMMA CreateTokenShown ==
  ASSUME IInv, HonestInv, NEW t \in Thread, NEW k \in Kti, CreateToken(t, k)
  PROVE  UNCHANGED AT!client
<1>1. Free(k) /\ tx' = tx /\ vetoed' = vetoed \ {k}
  BY DEF CreateToken, Acquirable, Free
<1>2. \A u \in Thread : Using(u) => tx[u].kti # k
  BY <1>1 DEF IInv, ThreadInv
<1>3. Outcome(t)' = Outcome(t) /\ Told(t)' = Told(t)
  BY <1>1 DEF Outcome, Told
<1>4. \A h \in Kti : \A u \in Thread : Using(u) /\ tx[u].kti = h => (h \in vetoed' <=> h \in vetoed)
  BY <1>1, <1>2
<1> QED
  BY <1>1, <1>3, <1>4, Unseen

\* failure(), by the client or by a nested transaction that did not succeed.
LEMMA FailureShown ==
  ASSUME IInv, HonestInv, NEW t \in Thread, Failure(t)
  PROVE  AT!Doom(t)
<1>1. /\ tx[t].phase \in {"open", "nested"} /\ tx' = tx
      /\ vetoed' = vetoed \cup {tx[t].kti}
  BY DEF Failure, failure
<1>2. Outcome(t)' = "pending" /\ Told(t)' = "none"
  BY <1>1 DEF Outcome, Told, HonestInv, Honest
<1> QED
  BY <1>1, <1>2, VetoShown

LEMMA NestedCloseShown ==
  ASSUME IInv, HonestInv, NEW t \in Thread, NestedClose(t)
  PROVE  AT!Doom(t) \/ UNCHANGED AT!client
<1>1. tx \in [Thread -> Transaction] /\ tx[t] \in Transaction
  BY DEF IInv, TypeOK
<1>2. /\ tx[t].phase = "nested" /\ tx'[t].phase = "open"
      /\ tx'[t].kti = tx[t].kti /\ tx'[t].successCalled = tx[t].successCalled
      /\ tx'[t].result = "none" /\ tx[t].result = "none"
      /\ \A u \in Thread \ {t} : tx'[u] = tx[u]
  BY <1>1 DEF NestedClose, Transaction, HonestInv, Honest
<1>3. /\ Outcome(t)' = "pending" /\ Told(t)' = "none"
      /\ Outcome(t) = "pending" /\ Told(t) = "none"
  BY <1>2 DEF Outcome, Told
<1>4. CASE tx[t].nestedSuccess
  <2>1. vetoed' = vetoed
    BY <1>4 DEF NestedClose
  <2> QED
    BY <1>2, <1>3, <2>1, Unseen
<1>5. CASE ~tx[t].nestedSuccess
  <2>1. vetoed' = vetoed \cup {tx[t].kti}
    BY <1>5 DEF NestedClose, failure
  <2> QED
    BY <1>2, <1>3, <2>1, VetoShown
<1> QED
  BY <1>4, <1>5

\* A termination dooms the transaction that runs in the kti, if there is one
\* and its close has not begun.
LEMMA TerminationShown ==
  ASSUME IInv, HonestInv, NEW k \in Kti,
         \/ \E i \in 1 .. MaxIncarnation : TerminateByHandle(k, i)
         \/ TerminateDirectly(k)
  PROVE  (\E t \in Thread : AT!Doom(t)) \/ UNCHANGED AT!client
<1>1. /\ tx' = tx
      /\ \/ vetoed' = vetoed
         \/ vetoed' = vetoed \cup {k} /\ ~ktx[k].closed /\ ~ktx[k].closing
  BY DEF TerminateByHandle, TerminateDirectly, markForTerminationIfPossible, canBeTerminated
<1>2. CASE vetoed' = vetoed
  BY <1>1, <1>2 DEF AT!client, outcome, told, asked, doomed, Outcome, Told
<1>3. CASE vetoed' # vetoed
  <2>1. vetoed' = vetoed \cup {k} /\ ~ktx[k].closed
    BY <1>1, <1>3
  <2>2. CASE \E t \in Thread : Using(t) /\ tx[t].kti = k
    <3>1. PICK t \in Thread : Using(t) /\ tx[t].kti = k
      BY <2>2
    <3>2. tx[t].phase \in {"open", "nested", "committing", "rollingBack"}
      BY <2>1, <3>1 DEF IInv, TypeOK, Transaction, ThreadInv, Holds, Using
    <3>3. Outcome(t)' = "pending" /\ Told(t)' = "none"
      BY <1>1, <3>2 DEF Outcome, Told, HonestInv, Honest
    <3> QED
      BY <1>1, <2>1, <3>1, <3>2, <3>3, VetoShown
  <2>3. CASE ~\E t \in Thread : Using(t) /\ tx[t].kti = k
    <3>1. outcome' = outcome /\ told' = told /\ asked' = asked
      BY <1>1 DEF outcome, told, asked, Outcome, Told
    <3>2. \A t \in Thread : Outcome(t) = "pending" => Using(t)
      BY Knows DEF Using
    <3>3. doomed' = doomed
      BY <1>1, <2>1, <2>3, <3>2 DEF doomed, Outcome
    <3> QED
      BY <3>1, <3>3 DEF AT!client
  <2> QED
    BY <2>2, <2>3
<1> QED
  BY <1>2, <1>3

LEMMA CrashShown ==
  ASSUME NEW fast, Crash(fast)
  PROVE  AT!Crash
<1>1. tx' = [t \in Thread |-> NoTransaction]
  BY DEF Crash
<1>2. \A t \in Thread : tx'[t].phase = "idle" /\ tx'[t].result = "none" /\ ~tx'[t].successCalled
  BY <1>1 DEF NoTransaction
<1> QED
  BY <1>2 DEF AT!Crash, outcome, told, asked, doomed, Outcome, Told

(* Whatever pooled objects serve which threads, however they are nested,   *)
(* closed and terminated, and whichever step of a close throws, each       *)
(* client sees transactions that are atomic, and closes that return only   *)
(* if they have done what it asked for.                                    *)
THEOREM AtomicImplemented == Spec => ImplementsAtomic
<1>1. Init => AT!Init
  BY DEF Init, NoTransaction, AT!Init, outcome, told, asked, doomed, Outcome, Told
<1>2. IInv /\ HonestInv /\ [Next]_vars => [AT!Next]_(AT!client)
  <2> SUFFICES ASSUME IInv, HonestInv, [Next]_vars PROVE AT!Next \/ UNCHANGED AT!client
    OBVIOUS
  <2>1. ASSUME NEW t \in Thread, NEW k \in Kti, NEW mark \in BOOLEAN, BeginTopLevel(t, k, mark)
        PROVE  AT!Next
    BY <2>1, BeginShown DEF AT!Next
  <2>2. ASSUME NEW t \in Thread, Success(t) PROVE AT!Next
    BY <2>2, SuccessShown DEF AT!Next
  <2>3. ASSUME NEW t \in Thread, Failure(t) PROVE AT!Next
    BY <2>3, FailureShown DEF AT!Next
  <2>4. ASSUME NEW t \in Thread, NestedClose(t) PROVE AT!Next \/ UNCHANGED AT!client
    BY <2>4, NestedCloseShown DEF AT!Next
  <2>5. ASSUME NEW t \in Thread, Commit(t) \/ CommitFails(t) \/ Rollback(t) PROVE AT!Next
    BY <2>5, CloseShown DEF AT!Next
  <2>6. ASSUME NEW t \in Thread, Release(t) \/ MarkVersion(t)
        PROVE  AT!Next \/ UNCHANGED AT!client
    BY <2>6, ReleaseShown, MarkVersionShown DEF AT!Next
  <2>7. ASSUME NEW t \in Thread,
               \/ \E mark \in BOOLEAN : BeginNested(t, mark)
               \/ NestedSuccess(t) \/ CloseTransaction(t) \/ CallTerminate(t)
        PROVE  UNCHANGED AT!client
    BY <2>7, QuietShown
  <2>8. ASSUME NEW t \in Thread, NEW k \in Kti, CreateToken(t, k) PROVE UNCHANGED AT!client
    BY <2>8, CreateTokenShown
  <2>9. ASSUME NEW k \in Kti,
               \/ \E i \in 1 .. MaxIncarnation : TerminateByHandle(k, i)
               \/ TerminateDirectly(k)
        PROVE  AT!Next \/ UNCHANGED AT!client
    BY <2>9, TerminationShown DEF AT!Next
  <2>10. ASSUME NEW fast \in BOOLEAN, Crash(fast) PROVE AT!Next
    BY <2>10, CrashShown DEF AT!Next
  <2>11. CASE Flush \/ UNCHANGED vars
    BY <2>11 DEF Flush, vars, AT!client, outcome, told, asked, doomed, Outcome, Told
  <2> QED
    BY <2>1, <2>2, <2>3, <2>4, <2>5, <2>6, <2>7, <2>8, <2>9, <2>10, <2>11 DEF Next
<1> QED
  BY <1>1, <1>2, Invariance, Honesty, PTL DEF Spec, AT!Spec, ImplementsAtomic

\* Every form of a begin gives a version that nobody had, or none.
LEMMA StampShown ==
  ASSUME IInv, NEW k \in Kti, NEW mark \in BOOLEAN, NEW stamp \in Stamp,
         Stamped(k, mark, stamp), UNCHANGED <<marked, flushed>>
  PROVE  (\E v \in 0 .. MaxVersion : VL!Issue(v)) \/ UNCHANGED VL!ledger
<1>1. CASE UNCHANGED ids
  BY <1>1 DEF VL!ledger, ids, Issued
<1>2. CASE \E v \in NextIds : /\ freed' = freed \ {v}
                              /\ highId' = IF v = highId THEN highId + 1 ELSE highId
  <2>1. PICK v \in NextIds : /\ freed' = freed \ {v}
                             /\ highId' = IF v = highId THEN highId + 1 ELSE highId
    BY <1>2
  <2>2. highId \in Nat /\ MaxVersion \in Nat /\ freed \subseteq Nat /\ highId <= MaxVersion
    BY VersionBound DEF IInv, TypeOK, HalfVersion
  <2>3. \A w \in freed : w < highId
    BY DEF IInv, IdsInv
  <2>4. CASE freed # {}
    <3>1. v \in freed /\ v < highId /\ v \in Nat
      BY <2>1, <2>2, <2>3, <2>4 DEF NextIds
    <3>2. highId' = highId /\ freed' = freed \ {v}
      BY <2>1, <2>2, <3>1
    <3>3. v \notin Issued /\ Issued' = Issued \cup {v}
      BY <2>2, <3>1, <3>2 DEF Issued
    <3> QED
      BY <2>2, <3>1, <3>3 DEF VL!Issue
  <2>5. CASE freed = {}
    <3>1. v = highId /\ v < MaxVersion
      BY <2>1, <2>2, <2>5 DEF NextIds
    <3>2. highId' = highId + 1 /\ freed' = {}
      BY <2>1, <2>5, <3>1
    <3>3. v \notin Issued /\ Issued' = Issued \cup {v}
      BY <2>2, <2>5, <3>1, <3>2 DEF Issued
    <3> QED
      BY <2>2, <3>1, <3>3 DEF VL!Issue
  <2> QED
    BY <2>4, <2>5
<1> QED
  BY <1>1, <1>2 DEF Stamped

\* What a close marks was issued, whoever has the kti by then.
LEMMA MarkShown ==
  ASSUME IInv, NEW t \in Thread, tx[t].marking \/ tx[t].nestedMarking,
         marked' = marked \cup {getStartVersion(ktx[tx[t].kti].version)}, UNCHANGED <<ids, flushed>>
  PROVE  \E v \in 0 .. MaxVersion : VL!Mark(v)
<1> DEFINE v == getStartVersion(ktx[tx[t].kti].version)
<1>1. v \in Issued
  BY DEF IInv, Marks
<1>2. v \in 0 .. MaxVersion
  BY <1>1, VersionBound DEF Issued, IInv, TypeOK
<1>3. Issued' = Issued
  BY DEF ids, Issued
<1> HIDE DEF v
<1>4. VL!Mark(v)
  BY <1>1, <1>3 DEF VL!Mark, v
<1> QED
  BY <1>2, <1>4

LEMMA RestartShown ==
  ASSUME IInv, NEW fast \in BOOLEAN, Crash(fast)
  PROVE  VL!Restart
<1>1. flushed \subseteq 0 .. MaxVersion - 1
  BY VersionBound DEF IInv, IdsInv, TypeOK, Issued
<1>2. /\ highId' \in 0 .. MaxVersion /\ flushed \subseteq 0 .. highId' - 1
      /\ highId' # 0 => highId' - 1 \in flushed
  BY <1>1, HighId DEF Crash
<1>3. /\ marked' = flushed /\ flushed' = flushed
      /\ freed' = IF fast THEN {} ELSE (0 .. highId' - 1) \ flushed
  BY DEF Crash
<1>4. flushed \subseteq Issued'
  BY <1>2, <1>3 DEF Issued
<1>5. \A v \in Issued' : \E d \in flushed : v <= d
  <2>1. PICK h \in Nat : h = highId'
    BY <1>2, VersionBound
  <2>2. \A v \in 0 .. h - 1 : h # 0 /\ v <= h - 1
    OBVIOUS
  <2>3. h # 0 => h - 1 \in flushed
    BY <1>2, <2>1
  <2>4. Issued' \subseteq 0 .. h - 1
    BY <2>1 DEF Issued
  <2> QED
    BY <2>2, <2>3, <2>4
<1> QED
  BY <1>3, <1>4, <1>5 DEF VL!Restart

(* The version store implements the ledger, through every crash and rebuild.*)
THEOREM LedgerImplemented == Spec => ImplementsLedger
<1>1. Init => VL!Init
  BY DEF Init, VL!Init, Issued
<1>2. IInv /\ [Next]_vars => [VL!Next]_(VL!ledger)
  <2> SUFFICES ASSUME IInv, [Next]_vars PROVE VL!Next \/ UNCHANGED VL!ledger
    OBVIOUS
  <2>1. ASSUME NEW t \in Thread, NEW k \in Kti, NEW mark \in BOOLEAN, BeginTopLevel(t, k, mark)
        PROVE  VL!Next \/ UNCHANGED VL!ledger
    <3>1. PICK stamp \in Stamp : Stamped(k, mark, stamp)
      BY <2>1 DEF BeginTopLevel
    <3>2. UNCHANGED <<marked, flushed>>
      BY <2>1 DEF BeginTopLevel
    <3> QED
      BY <3>1, <3>2, StampShown DEF VL!Next
  <2>2. ASSUME NEW t \in Thread, NEW mark \in BOOLEAN, BeginNested(t, mark)
        PROVE  VL!Next \/ UNCHANGED VL!ledger
    <3>1. PICK stamp \in Stamp : Stamped(tx[t].kti, mark, stamp)
      BY <2>2 DEF BeginNested
    <3>2. UNCHANGED <<marked, flushed>> /\ tx[t].kti \in Kti
      BY <2>2 DEF BeginNested, IInv, ThreadInv, Using
    <3> QED
      BY <3>1, <3>2, StampShown DEF VL!Next
  <2>3. ASSUME NEW t \in Thread, NestedClose(t)
        PROVE  VL!Next \/ UNCHANGED VL!ledger
    <3>1. UNCHANGED <<ids, flushed>>
      BY <2>3 DEF NestedClose
    <3>2. CASE tx[t].nestedMarking /\ transactionCommit(getStartVersion(ktx[tx[t].kti].version))
      BY <3>1, <3>2, MarkShown DEF transactionCommit, VL!Next
    <3>3. CASE UNCHANGED marked
      BY <3>1, <3>3 DEF VL!ledger, ids, Issued
    <3> QED
      BY <2>3, <3>2, <3>3 DEF NestedClose, MarkOrThrow
  <2>4. ASSUME NEW t \in Thread, MarkVersion(t)
        PROVE  VL!Next \/ UNCHANGED VL!ledger
    <3>1. UNCHANGED <<ids, flushed>> /\ tx[t].marking
      BY <2>4 DEF MarkVersion, IInv, Marks
    <3>2. CASE transactionCommit(getStartVersion(ktx[tx[t].kti].version))
      BY <3>1, <3>2, MarkShown DEF transactionCommit, VL!Next
    <3>3. CASE UNCHANGED marked
      BY <3>1, <3>3 DEF VL!ledger, ids, Issued
    <3> QED
      BY <2>4, <3>2, <3>3 DEF MarkVersion
  <2>5. ASSUME NEW t \in Thread,
               \/ Success(t) \/ Failure(t) \/ NestedSuccess(t)
               \/ \E k \in Kti : CreateToken(t, k)
               \/ CloseTransaction(t) \/ CallTerminate(t)
        PROVE  UNCHANGED <<ids, marked, flushed>>
    BY <2>5 DEF Success, Failure, NestedSuccess, CreateToken, CloseTransaction, CallTerminate, ids
  <2>6. ASSUME NEW t \in Thread, Commit(t) \/ CommitFails(t) \/ Rollback(t) \/ Release(t)
        PROVE  UNCHANGED <<ids, marked, flushed>>
    BY <2>6 DEF Commit, CommitFails, Rollback, CloseWith, Release, ids
  <2>7. ASSUME NEW k \in Kti,
               \/ \E i \in 1 .. MaxIncarnation : TerminateByHandle(k, i)
               \/ TerminateDirectly(k)
        PROVE  UNCHANGED <<ids, marked, flushed>>
    BY <2>7 DEF TerminateByHandle, TerminateDirectly, markForTerminationIfPossible, ids
  <2>8. CASE Flush
    BY <2>8 DEF Flush, ids, Issued, VL!Flush, VL!Next
  <2>9. ASSUME NEW fast \in BOOLEAN, Crash(fast) PROVE VL!Next
    BY <2>9, RestartShown DEF VL!Next
  <2>10. CASE UNCHANGED <<ids, marked, flushed>>
    BY <2>10 DEF VL!ledger, ids, Issued
  <2>11. CASE UNCHANGED vars
    BY <2>10, <2>11 DEF vars
  <2> QED
    BY <2>1, <2>2, <2>3, <2>4, <2>5, <2>6, <2>7, <2>8, <2>9, <2>10, <2>11 DEF Next
<1> QED
  BY <1>1, <1>2, Invariance, PTL DEF Spec, VL!Spec, ImplementsLedger

===============================================================================
