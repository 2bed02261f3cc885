------------------------- MODULE VersionedTransactions -------------------------
(***************************************************************************)
(* Transactions as clients see them: the TopLevelTransaction of a thread   *)
(* and the PlaceboTransaction nested in it, the pooled                     *)
(* KernelTransactionImplementation (a kti) both stand for, the version     *)
(* each begin puts in it, the mark each close leaves in the DbVersionStore,*)
(* terminations from other threads, and crashes.                           *)
(*                                                                         *)
(* A kti is one object with many incarnations: it is initialised when a    *)
(* transaction begins and goes back to the pool, for any thread, when it   *)
(* closes.  The reads of a close before and after that are separate steps, *)
(* and any of its steps can throw, also when the commit stands.            *)
(***************************************************************************)
EXTENDS DGVersion, Sequences

CONSTANTS
  Thread,
  Kti,            \* the transaction objects that can exist
  None,
  Direct,         \* a termination by TopLevelTransaction.terminate()
  Termination,    \* bound: the kinds of termination, of {"handle", "direct"}
  MaxVersion,     \* bound: ids of the version store
  MaxIncarnation  \* bound: how often one kti is initialised between starts

ASSUME NoneAssumption == None \notin Kti
ASSUME VersionBound == MaxVersion \in Nat /\ MaxVersion < Limit
ASSUME IncarnationBound == MaxIncarnation \in Nat /\ MaxIncarnation > 0

VARIABLES
  ktx,            \* the fields of each KernelTransactionImplementation
  slot, pooled,   \* MarshlandPool: a slot for each thread, the pool behind them
  tx,             \* the transactions of each thread, or how the last one ended
  direct,         \* kti with a call of TopLevelTransaction.terminate() on its way
  highId, freed,  \* the id generator of the DbVersionStore
  marked,         \* its records in use
  flushed,        \* and those of them that are on disk
  vetoed          \* history: kti that was failed or terminated before its close began

pool == <<slot, pooled>>
ids == <<highId, freed>>
vars == <<ktx, pool, tx, direct, ids, marked, flushed, vetoed>>

KernelTransaction ==
  [version : Stamp, success : BOOLEAN, failure : BOOLEAN, closing : BOOLEAN, closed : BOOLEAN,
   reason : {None, Direct} \cup 1 .. MaxIncarnation,    \* terminationReason, and whose
   reuseCount : 0 .. MaxIncarnation,
   expected : Seq(0 .. MaxIncarnation)]    \* what a handle of each incarnation expects

Transaction ==
  [phase : {"idle", "open", "nested", "committing", "rollingBack", "closed", "released"},
   kti : Kti \cup {None},
   marking : BOOLEAN, successCalled : BOOLEAN,          \* TopLevelTransaction
   nestedMarking : BOOLEAN, nestedSuccess : BOOLEAN,    \* PlaceboTransaction
   result : {"none", "returned", "threw"},              \* of close(), as far as it has come
   committed : BOOLEAN]                                 \* history

TypeOK ==
  /\ ktx \in [Kti -> KernelTransaction]
  /\ slot \in [Thread -> Kti \cup {None}] /\ pooled \subseteq Kti
  /\ tx \in [Thread -> Transaction]
  /\ direct \subseteq Kti
  /\ highId \in 0 .. MaxVersion
  /\ freed \cup marked \cup flushed \subseteq HalfVersion
  /\ vetoed \subseteq Kti

NewKti ==
  [version |-> 0, success |-> FALSE, failure |-> FALSE, closing |-> FALSE, closed |-> TRUE,
   reason |-> None, reuseCount |-> 0, expected |-> <<>>]

NoTransaction ==
  [phase |-> "idle", kti |-> None, marking |-> FALSE, successCalled |-> FALSE,
   nestedMarking |-> FALSE, nestedSuccess |-> FALSE, result |-> "none",
   committed |-> FALSE]

Init ==
  /\ ktx = [k \in Kti |-> NewKti]
  /\ slot = [t \in Thread |-> None] /\ pooled = Kti
  /\ tx = [t \in Thread |-> NoTransaction]
  /\ direct = {}
  /\ highId = 0 /\ freed = {} /\ marked = {} /\ flushed = {}
  /\ vetoed = {}

-----------------------------------------------------------------------------
(* The pool, the kti and the version store. *)

isOpen(k) == ~ktx[k].closed /\ ~ktx[k].closing

\* The number of the incarnation that is running, or ran last, in k.
Current(k) == Len(ktx[k].expected)

\* MarshlandPool.acquire() looks in the thread's own slot first.
Acquirable(t) == IF slot[t] # None THEN {slot[t]} ELSE pooled
acquire(t, k) ==
  /\ k \in Acquirable(t)
  /\ slot' = [slot EXCEPT ![t] = None]
  /\ pooled' = pooled \ {k}

\* MarshlandPool.release(): into the thread's slot when that is empty.
poolRelease(t, k) ==
  IF slot[t] = None
  THEN slot' = [slot EXCEPT ![t] = k] /\ UNCHANGED pooled
  ELSE pooled' = pooled \cup {k} /\ UNCHANGED slot

\* Mutant of initialize: the kti stays closed.
initializeStillClosed(x) ==
  [x EXCEPT !.reason = None, !.closing = FALSE, !.failure = FALSE, !.success = FALSE,
            !.expected = Append(@, x.reuseCount)]

\* initialize() resets the flags but neither the version nor the reuse count.
initialize(x) ==
  [x EXCEPT !.reason = None, !.closing = FALSE, !.closed = FALSE,
            !.failure = FALSE, !.success = FALSE,
            !.expected = Append(@, x.reuseCount)]

CanInitialize(k) == Current(k) < MaxIncarnation

\* Versions handed out, but for those a rebuild found to be holes.
Issued == (0 .. highId - 1) \ freed

\* The ids nextId() can hand out: freed ones first.
NextIds == IF freed # {} THEN freed ELSE {highId} \cap (0 .. MaxVersion - 1)

(* The stamp a begin puts in a kti, and whether the transaction gets the   *)
(* store to mark it in: beginTx() and execute(query) allocate a version;   *)
(* beginTransaction(type, context, version) is given one; beginTx(version) *)
(* is given a stamp but no store; the forms with a timeout set neither,    *)
(* and run with the version the last incarnation left.  Clients give what  *)
(* they were given: a version issued before, or the stamp that starts it.  *)
Stamped(k, mark, stamp) ==
  \/ \E v \in NextIds :
       /\ mark /\ stamp = setStartVersion(v)
       /\ freed' = freed \ {v}
       /\ highId' = IF v = highId THEN highId + 1 ELSE highId
  \/ \E v \in Issued : stamp = setStartVersion(v) /\ UNCHANGED ids
  \/ ~mark /\ stamp = ktx[k].version /\ UNCHANGED ids

\* A record is written, or the page cache throws before that.
transactionCommit(v) == marked' = marked \cup {v}
MarkOrThrow(v) == transactionCommit(v) \/ UNCHANGED marked

-----------------------------------------------------------------------------
(* The operations of a thread's transactions. *)

\* No transaction is bound to the thread: a TopLevelTransaction.
BeginTopLevel(t, k, mark) ==
  /\ tx[t].phase = "idle"
  /\ acquire(t, k) /\ CanInitialize(k)
  /\ \E stamp \in Stamp :
       /\ Stamped(k, mark, stamp)
       /\ ktx' = [ktx EXCEPT ![k] = [initialize(@) EXCEPT !.version = stamp]]
  /\ tx' = [tx EXCEPT ![t] = [NoTransaction EXCEPT !.phase = "open", !.kti = k, !.marking = mark]]
  /\ vetoed' = vetoed \ {k}
  /\ UNCHANGED <<direct, marked, flushed>>

\* One is, and is not terminated: a PlaceboTransaction, which puts its version
\* in the same kti.  (Bound: one level of nesting.)
BeginNested(t, mark) ==
  LET k == tx[t].kti IN
    /\ tx[t].phase = "open" /\ ktx[k].reason = None
    /\ \E stamp \in Stamp :
         /\ Stamped(k, mark, stamp)
         /\ ktx' = [ktx EXCEPT ![k].version = stamp]
    /\ tx' = [tx EXCEPT ![t].phase = "nested", ![t].nestedMarking = mark]
    /\ UNCHANGED <<pool, direct, marked, flushed, vetoed>>

Success(t) ==
  /\ tx[t].phase = "open"
  /\ tx' = [tx EXCEPT ![t].successCalled = TRUE]
  /\ ktx' = [ktx EXCEPT ![tx[t].kti].success = TRUE]
  /\ UNCHANGED <<pool, direct, ids, marked, flushed, vetoed>>

\* KernelTransaction.failure(), which both transactions' failure() calls.
failure(k) ==
  /\ ktx' = [ktx EXCEPT ![k].failure = TRUE]
  /\ vetoed' = vetoed \cup {k}

Failure(t) ==
  /\ tx[t].phase \in {"open", "nested"}
  /\ failure(tx[t].kti)
  /\ UNCHANGED <<pool, tx, direct, ids, marked, flushed>>

NestedSuccess(t) ==
  /\ tx[t].phase = "nested"
  /\ tx' = [tx EXCEPT ![t].nestedSuccess = TRUE]
  /\ UNCHANGED <<ktx, pool, direct, ids, marked, flushed, vetoed>>

\* PlaceboTransaction.close() marks its version before the outer one closes,
\* or throws when it has failed what was to be failed.
NestedClose(t) ==
  /\ tx[t].phase = "nested"
  /\ IF tx[t].nestedSuccess THEN UNCHANGED <<ktx, vetoed>> ELSE failure(tx[t].kti)
  /\ IF tx[t].nestedMarking THEN MarkOrThrow(getStartVersion(ktx[tx[t].kti].version))
                            ELSE UNCHANGED marked
  /\ tx' = [tx EXCEPT ![t].phase = "open", ![t].nestedMarking = FALSE,
                      ![t].nestedSuccess = FALSE]
  /\ UNCHANGED <<pool, direct, ids, flushed>>

(* A write that needs a new label, type or property key: the token holder  *)
(* runs and closes a kernel transaction of its own on this thread, whose   *)
(* object ends in the slot that the outer transaction left empty, and is   *)
(* there for the next token.                                               *)
CreateToken(t, k) ==
  /\ tx[t].phase \in {"open", "nested"} /\ ktx[tx[t].kti].reason = None
  /\ k \in Acquirable(t) /\ CanInitialize(k)
  /\ slot' = [slot EXCEPT ![t] = k]
  /\ pooled' = pooled \ {k}
  /\ ktx' = [ktx EXCEPT ![k] = [initialize(ktx[k]) EXCEPT !.success = TRUE, !.closed = TRUE,
                                 !.reuseCount = ktx[k].reuseCount + 1]]
  /\ vetoed' = vetoed \ {k}
  /\ UNCHANGED <<tx, direct, ids, marked, flushed>>

-----------------------------------------------------------------------------
(* TopLevelTransaction.close(), in its steps. *)

\* Mutant of CloseTransaction: failure() and terminations are not looked at.
CloseTransactionOnSuccess(t) ==
  /\ tx[t].phase = "open" /\ isOpen(tx[t].kti)
  /\ ktx' = [ktx EXCEPT ![tx[t].kti].closing = TRUE]
  /\ tx' = [tx EXCEPT ![t].phase =
              IF ktx[tx[t].kti].success THEN "committing" ELSE "rollingBack"]
  /\ UNCHANGED <<pool, direct, ids, marked, flushed, vetoed>>

\* closeTransaction() decides; a termination after this comes too late.
CloseTransaction(t) ==
  LET x == ktx[tx[t].kti] IN
    /\ tx[t].phase = "open" /\ isOpen(tx[t].kti)
    /\ ktx' = [ktx EXCEPT ![tx[t].kti].closing = TRUE]
    /\ tx' = [tx EXCEPT ![t].phase =
                IF x.failure \/ ~x.success \/ x.reason # None THEN "rollingBack" ELSE "committing"]
    /\ UNCHANGED <<pool, direct, ids, marked, flushed, vetoed>>

\* markAsClosed() and what remains of closeTransaction() but for release().
CloseWith(t, committed, result) ==
  /\ ktx' = [ktx EXCEPT ![tx[t].kti].closed = TRUE, ![tx[t].kti].closing = FALSE]
  /\ tx' = [tx EXCEPT ![t].phase = "closed", ![t].committed = committed, ![t].result = result]
  /\ UNCHANGED <<pool, direct, ids, marked, flushed, vetoed>>

(* The transaction is in the log.  The commit process can throw after      *)
(* that, and so can a hook or a listener when all is applied; `success' is *)
(* set by then, and nothing is rolled back.                                *)
Commit(t) ==
  /\ tx[t].phase = "committing"
  /\ \E result \in {"returned", "threw"} : CloseWith(t, TRUE, result)

\* A constraint or a hook throws, or the commit process before it has written.
CommitFails(t) ==
  /\ tx[t].phase = "committing"
  /\ CloseWith(t, FALSE, "threw")

\* Mutant of Rollback: without failOnNonExplicitRollbackIfNeeded().
RollbackSilently(t) ==
  /\ tx[t].phase = "rollingBack"
  /\ \E result \in {"returned", "threw"} : CloseWith(t, FALSE, result)

\* rollback(), which can throw, then failOnNonExplicitRollbackIfNeeded().
Rollback(t) ==
  /\ tx[t].phase = "rollingBack"
  /\ \E result \in {"returned", "threw"} :
       /\ ktx[tx[t].kti].success => result = "threw"
       /\ CloseWith(t, FALSE, result)

\* close() has ended; the client has its result and nothing else of it.
Ended(x, result) ==
  [NoTransaction EXCEPT !.successCalled = x.successCalled, !.committed = x.committed,
                        !.result = result]

\* An exception of closeTransaction() passes over the mark.
Left(x, result) ==
  IF result = "returned" /\ x.marking THEN [x EXCEPT !.phase = "released"] ELSE Ended(x, result)

\* Mutant of Release: the reuse count does not tell incarnations apart.
ReleaseWithoutCount(t) ==
  LET k == tx[t].kti IN
    /\ tx[t].phase = "closed"
    /\ ktx' = [ktx EXCEPT ![k].reason = None]
    /\ poolRelease(t, k)
    /\ \E result \in {tx[t].result, "threw"} : tx' = [tx EXCEPT ![t] = Left(@, result)]
    /\ UNCHANGED <<direct, ids, marked, flushed, vetoed>>

\* release(): the kti is another thread's to take from here on.  It throws in
\* the end if the auxiliary state could not be closed.
Release(t) ==
  LET k == tx[t].kti IN
    /\ tx[t].phase = "closed"
    /\ ktx' = [ktx EXCEPT ![k].reason = None, ![k].reuseCount = @ + 1]
    /\ poolRelease(t, k)
    /\ \E result \in {tx[t].result, "threw"} : tx' = [tx EXCEPT ![t] = Left(@, result)]
    /\ UNCHANGED <<direct, ids, marked, flushed, vetoed>>

\* Mutant of MarkVersion: the stamp is marked, not its start version.
MarkStamp(t) ==
  /\ tx[t].phase = "released"
  /\ transactionCommit(ktx[tx[t].kti].version)
  /\ tx' = [tx EXCEPT ![t] = Ended(@, "returned")]
  /\ UNCHANGED <<ktx, pool, direct, ids, flushed, vetoed>>

\* The rest of close(): the mark, of the version the kti has by now.  The
\* client is told that it was rolled back if this throws.
MarkVersion(t) ==
  /\ tx[t].phase = "released"
  /\ \E result \in {"returned", "threw"} :
       /\ \/ transactionCommit(getStartVersion(ktx[tx[t].kti].version))
          \/ result = "threw" /\ UNCHANGED marked
       /\ tx' = [tx EXCEPT ![t] = Ended(@, result)]
  /\ UNCHANGED <<ktx, pool, direct, ids, flushed, vetoed>>

-----------------------------------------------------------------------------
(* Terminations, under the lock that release() also takes. *)

canBeTerminated(k) == ~ktx[k].closed /\ ktx[k].reason = None

markForTerminationIfPossible(k, who) ==
  /\ canBeTerminated(k)
  /\ ktx' = [ktx EXCEPT ![k].failure = TRUE, ![k].reason = who]
  /\ vetoed' = IF ktx[k].closing THEN vetoed ELSE vetoed \cup {k}
  /\ UNCHANGED <<pool, tx, ids, marked, flushed>>

\* By a handle of the i-th incarnation, at any time after it was taken.
TerminateByHandle(k, i) ==
  /\ "handle" \in Termination
  /\ i <= Current(k) /\ ktx[k].expected[i] = ktx[k].reuseCount
  /\ markForTerminationIfPossible(k, i)
  /\ UNCHANGED direct

\* TopLevelTransaction.terminate() from another thread: called while the
\* transaction is open, it may reach the kti at any later time.
CallTerminate(t) ==
  /\ "direct" \in Termination
  /\ tx[t].phase = "open"
  /\ direct' = direct \cup {tx[t].kti}
  /\ UNCHANGED <<ktx, pool, tx, ids, marked, flushed, vetoed>>

TerminateDirectly(k) ==
  /\ k \in direct
  /\ direct' = direct \ {k}
  /\ \/ markForTerminationIfPossible(k, Direct)
     \/ ~canBeTerminated(k) /\ UNCHANGED <<ktx, pool, tx, ids, marked, flushed, vetoed>>

-----------------------------------------------------------------------------
(* The pages of the version store are flushed by checkpoints; its marks    *)
(* are in no transaction log, so that a crash loses the others.            *)

Flush ==
  /\ flushed' = marked
  /\ UNCHANGED <<ktx, pool, tx, direct, ids, marked, vetoed>>

\* Mutant of ScanForHighId: the last record in use itself.
LastInUse(records) ==
  CHOOSE h \in 0 .. MaxVersion :
    (\A v \in records : v <= h) /\ (h = 0 \/ h \in records)

\* Mutant of ScanForHighId: the end of the file, past records never written.
EndOfFile(records) == IF records = {} THEN 0 ELSE MaxVersion

\* scanForHighId(): one past the last record in use.
ScanForHighId(records) ==
  CHOOSE h \in 0 .. MaxVersion : (\A v \in records : v < h) /\ (h = 0 \/ h - 1 \in records)

\* Start after a crash: rebuildIdGenerator(), fast or with a scan for holes.
Crash(fast) ==
  /\ ktx' = [k \in Kti |-> NewKti]
  /\ slot' = [t \in Thread |-> None] /\ pooled' = Kti
  /\ tx' = [t \in Thread |-> NoTransaction]
  /\ direct' = {} /\ vetoed' = {}
  /\ marked' = flushed
  /\ highId' = ScanForHighId(flushed)
  /\ freed' = IF fast THEN {} ELSE (0 .. highId' - 1) \ flushed
  /\ UNCHANGED flushed

Next ==
  \/ \E t \in Thread :
       \/ \E k \in Kti, mark \in BOOLEAN : BeginTopLevel(t, k, mark)
       \/ \E mark \in BOOLEAN : BeginNested(t, mark)
       \/ Success(t) \/ Failure(t) \/ NestedSuccess(t) \/ NestedClose(t)
       \/ \E k \in Kti : CreateToken(t, k)
       \/ CloseTransaction(t) \/ Commit(t) \/ CommitFails(t) \/ Rollback(t)
       \/ Release(t) \/ MarkVersion(t) \/ CallTerminate(t)
  \/ \E k \in Kti, i \in 1 .. MaxIncarnation : TerminateByHandle(k, i)
  \/ \E k \in Kti : TerminateDirectly(k)
  \/ Flush
  \/ \E fast \in BOOLEAN : Crash(fast)

Spec == Init /\ [][Next]_vars

-----------------------------------------------------------------------------
Using(t) == tx[t].phase \notin {"idle", "released"}

(* A kti serves one thread at a time: while a transaction uses it, it is   *)
(* in no slot, not in the pool and not in another transaction; and it is   *)
(* open for as long as its client has not closed it, so that close() does  *)
(* close it.                                                               *)
OneOwner ==
  \A t \in Thread :
    /\ Using(t) =>
         /\ tx[t].kti \notin pooled
         /\ \A u \in Thread : slot[u] # tx[t].kti /\ (u # t /\ Using(u) => tx[u].kti # tx[t].kti)
    /\ tx[t].phase \in {"open", "nested"} => isOpen(tx[t].kti)
    /\ slot[t] # None => slot[t] \notin pooled /\ \A u \in Thread \ {t} : slot[u] # slot[t]

(* A client can rely on a close() that returns: the transaction was        *)
(* committed if and only if the client had called success().  Whatever     *)
(* else made it roll back, a nested transaction or a termination from      *)
(* another thread, close() throws; but an exception says nothing.          *)
CloseIsHonest ==
  \A t \in Thread :
    tx[t].result = "returned" => (tx[t].successCalled <=> tx[t].committed)

(* A transaction that failed, whose nested transaction was closed without  *)
(* success(), or that was terminated before its close began, never commits.*)
VetoIsFinal ==
  \A t \in Thread : Using(t) /\ tx[t].committed => tx[t].kti \notin vetoed

(* A termination asked of a handle reaches the incarnation the handle was  *)
(* taken from or none: the kti may have gone back to the pool and serve    *)
(* another client, or a token creation, by then.                           *)
HandleTerminatesItsOwn ==
  \A k \in Kti : ktx[k].reason \notin {None, Direct} => ktx[k].reason = Current(k)

(* A version that is marked in the store is never handed out to another    *)
(* transaction, whatever a crash lost and whichever rebuild of the id      *)
(* generator followed.                                                     *)
MarkedNeverReissued == marked \cap NextIds = {} /\ marked \subseteq 0 .. highId - 1

-----------------------------------------------------------------------------
(* What a client knows of its transaction: the refinement mapping. *)

Outcome(t) ==
  IF tx[t].result # "none" THEN IF tx[t].committed THEN "committed" ELSE "aborted"
  ELSE IF tx[t].phase = "idle" THEN "none" ELSE "pending"

Told(t) == IF tx[t].phase = "idle" THEN tx[t].result ELSE "none"

outcome == [t \in Thread |-> Outcome(t)]
told == [t \in Thread |-> Told(t)]
asked == {t \in Thread : tx[t].successCalled}
doomed == {t \in Thread : Outcome(t) = "pending" /\ tx[t].kti \in vetoed}

AT == INSTANCE AtomicTransactions WITH Client <- Thread

(* Pooled objects, nested transactions and the steps of close() implement  *)
(* atomic transactions: a veto stays with the transaction it was meant for *)
(* until that is rolled back, no other transaction can make it run again,  *)
(* end early or forget what it was asked, its outcome is decided once, and *)
(* a close() that returns in the end, after the object has gone to others  *)
(* and the version was marked, returns only to who got what it had asked   *)
(* for.  What an exception of close() says is wrong in either direction.   *)
ImplementsAtomic == AT!Spec

VL == INSTANCE VersionLedger WITH Version <- 0 .. MaxVersion, issued <- Issued, durable <- flushed

(* The version store with its id generator implements a ledger: a version  *)
(* goes to one transaction at most, and only one that was given is marked, *)
(* whichever transaction has the object by the time the close reads it;    *)
(* a restart neither forgets a mark that is on disk nor skips a version.   *)
ImplementsLedger == VL!Spec

==============================================================================
