------------------------------ MODULE BoltSessions ------------------------------
(***************************************************************************)
(* Sessions of the Bolt server, in version 3 of its protocol.  The worker  *)
(* thread of a session takes the requests of its client one by one and     *)
(* carries them out on its TransactionStateMachine; the thread that reads  *)
(* its socket interrupts it, for a RESET or when the connection ends, and  *)
(* marks its transaction for termination meanwhile; the monitor of         *)
(* transactions marks any.  The transactions are pooled objects, which one *)
(* session closes and the next one begins again.                           *)
(*                                                                         *)
(* A request that arrives while a RESET is waiting is ignored, so that the *)
(* queue of a session is as long as its unanswered RESETs.                 *)
(***************************************************************************)
EXTENDS Naturals, FiniteSets

CONSTANTS
  Session,
  Ktx,            \* the pooled KernelTransactionImplementations
  None,
  MaxResets       \* bound: RESETs the client of each session sends

ASSUME KtxAssumption ==
  IsFiniteSet(Session) /\ IsFiniteSet(Ktx) /\ Cardinality(Session) <= Cardinality(Ktx)
ASSUME NoneAssumption == None \notin Ktx \cup Session
ASSUME ResetsAssumption == MaxResets \in [Session -> Nat]

VARIABLES
  fsm,            \* the state of the protocol
  state,          \* TransactionStateMachine.state,
  ctx,            \* and what its MutableTransactionState holds
  doing,          \* where the worker is in the request it has taken
  goal,           \* the state of the protocol that follows the close under way
  ktx,            \* the transactions
  interrupts,     \* the interrupt counter of the connection
  resets,         \* RESETs the client can still send
  stopped,        \* the connection has ended
  marking,        \* the transaction the reading thread is about to mark
  late            \* history: sessions whose transaction was released since it was read

worker == <<fsm, state, ctx, doing, goal>>
connection == <<interrupts, resets, stopped>>
reader == <<marking, late>>
vars == <<worker, ktx, connection, reader>>

Request == {"BEGIN", "RUN", "PERIODIC", "PULL", "COMMIT", "ROLLBACK"}

\* Of the open result, the transaction that its statement runs in.
Context ==
  [currentTransaction : Ktx \cup {None}, currentResultHandle : Ktx \cup {None}, notice : BOOLEAN]

KernelTransaction ==
  [owner : Session \cup {None}, success : BOOLEAN, failure : BOOLEAN, terminated : BOOLEAN]

TypeOK ==
  /\ fsm \in [Session -> {"READY", "STREAMING", "TX_READY", "TX_STREAMING", "FAILED", "CLOSED"}]
  /\ state \in [Session -> {"AUTO_COMMIT", "EXPLICIT_TRANSACTION"}]
  /\ ctx \in [Session -> Context]
  /\ doing \in [Session -> Request \cup {"idle", "execute", "load", "close"}]
  /\ goal \in [Session -> {"READY", "STREAMING", "TX_READY", "TX_STREAMING", "FAILED", "CLOSED"}]
  /\ ktx \in [Ktx -> KernelTransaction]
  /\ \A s \in Session : {interrupts[s], resets[s]} \subseteq 0 .. MaxResets[s]
  /\ stopped \subseteq Session
  /\ marking \in [Session -> Ktx \cup {None}] /\ late \subseteq Session

NoKtx ==
  [owner |-> None, success |-> FALSE, failure |-> FALSE, terminated |-> FALSE]

Init ==
  /\ fsm = [s \in Session |-> "READY"]
  /\ state = [s \in Session |-> "AUTO_COMMIT"]
  /\ ctx = [s \in Session |-> [currentTransaction |-> None, currentResultHandle |-> None, notice |-> FALSE]]
  /\ doing = [s \in Session |-> "idle"]
  /\ goal = [s \in Session |-> "READY"]
  /\ ktx = [k \in Ktx |-> NoKtx]
  /\ interrupts = [s \in Session |-> 0] /\ resets = MaxResets
  /\ stopped = {}
  /\ marking = [s \in Session |-> None] /\ late = {}

-----------------------------------------------------------------------------
Held(s) == {k \in Ktx : ktx[k].owner = s}

\* Mutant of Enqueued: a RESET that was answered stays in the queue.
EnqueuedForGood(s) == resets[s] < MaxResets[s]

\* A RESET is in the queue; the last one is not before its interrupt is over.
Enqueued(s) == interrupts[s] > IF marking[s] = None THEN 0 ELSE 1

hasTransaction(s) == state[s] = "EXPLICIT_TRANSACTION"
hasOpenStatement(s) == ctx[s].currentResultHandle # None

\* With the fields that are set, and the ones that a termination sets.
Flagged(k, flags) == [ktx[k] EXCEPT !.success = @ \/ "success" \in flags,
                                    !.failure = @ \/ "failure" \in flags,
                                    !.terminated = @ \/ "terminated" \in flags]
Terminated(k) ==
  IF ktx[k].owner = None THEN ktx[k] ELSE Flagged(k, {"failure", "terminated"})

Becomes(s, protocol) ==
  /\ fsm' = [fsm EXCEPT ![s] = protocol]
  /\ doing' = [doing EXCEPT ![s] = "idle"]

\* The context after a close, which every caller has closed the result for.
Left(s) == [ctx[s] EXCEPT !.currentTransaction = None, !.currentResultHandle = None]

\* State.closeTransaction up to tx.close(); the flags are those set before.
closeTransaction(s, k, flags, after) ==
  IF k = None
  THEN /\ Becomes(s, after)
       /\ state' = [state EXCEPT ![s] = "AUTO_COMMIT"]
       /\ UNCHANGED <<goal, ktx>>
  ELSE /\ doing' = [doing EXCEPT ![s] = "close"]
       /\ goal' = [goal EXCEPT ![s] = after]
       /\ ktx' = [ktx EXCEPT ![k] = Flagged(k, flags)]
       /\ UNCHANGED <<fsm, state>>

\* The transaction a reset ends: the context's own, or else the one that goes
\* with the close of the result.
Last(s) ==
  IF ctx[s].currentTransaction # None THEN ctx[s].currentTransaction ELSE ctx[s].currentResultHandle

\* Mutant of reset: it closes the transaction as a commit does.
resetCommits(s, after) ==
  closeTransaction(s, Last(s),
    IF hasOpenStatement(s) THEN {"failure", "terminated"} ELSE {"success"}, after)

\* Terminates the query of an open result, and rolls back.
reset(s, after) ==
  closeTransaction(s, Last(s),
    {"failure"} \cup IF hasOpenStatement(s) THEN {"terminated"} ELSE {}, after)

-----------------------------------------------------------------------------
(* Requests *)

\* The requests that each state of the protocol answers.
Requests ==
  [READY |-> {"BEGIN", "RUN", "PERIODIC"}, STREAMING |-> {"PULL"},
   TX_READY |-> {"RUN", "PERIODIC", "COMMIT", "ROLLBACK"}, TX_STREAMING |-> {"PULL"},
   FAILED |-> {}, CLOSED |-> {}]

\* Mutant of Take: the worker does not look at the interrupt counter.
TakeInterrupted(s, request) ==
  /\ doing[s] = "idle" /\ s \notin stopped
  /\ request \in Requests[fsm[s]]
  /\ IF ctx[s].notice
     THEN Becomes(s, "FAILED") /\ ctx' = [ctx EXCEPT ![s].notice = FALSE]
     ELSE /\ doing' = [doing EXCEPT ![s] = request]
          /\ UNCHANGED <<fsm, ctx>>
  /\ UNCHANGED <<state, goal, ktx, connection, reader>>

\* A pending notice fails the request instead: ensureNoPendingTerminationNotice.
Take(s, request) ==
  /\ doing[s] = "idle" /\ s \notin stopped /\ interrupts[s] = 0
  /\ request \in Requests[fsm[s]]
  /\ IF ctx[s].notice
     THEN Becomes(s, "FAILED") /\ ctx' = [ctx EXCEPT ![s].notice = FALSE]
     ELSE /\ doing' = [doing EXCEPT ![s] = request]
          /\ UNCHANGED <<fsm, ctx>>
  /\ UNCHANGED <<state, goal, ktx, connection, reader>>

\* A request fails and leaves the transaction as it is.
Refused(s) == Becomes(s, "FAILED") /\ UNCHANGED <<state, ctx, goal, ktx>>

\* spi.beginTransaction(): an object from the pool, initialised.
Begun(s, k) ==
  /\ ktx[k].owner = None
  /\ ktx' = [ktx EXCEPT ![k] = [NoKtx EXCEPT !.owner = s]]

beginTransaction(s) ==
  /\ doing[s] = "BEGIN"
  /\ \/ \E k \in Ktx :
          /\ Begun(s, k)
          /\ ctx' = [ctx EXCEPT ![s].currentTransaction = k]
          /\ state' = [state EXCEPT ![s] = "EXPLICIT_TRANSACTION"]
          /\ Becomes(s, "TX_READY")
          /\ UNCHANGED goal
     \/ Refused(s)
  /\ UNCHANGED <<connection, reader>>

\* AUTO_COMMIT.run up to the execution: its transaction, seen by the reader.
runAutoCommit(s) ==
  /\ doing[s] = "RUN" /\ ~hasTransaction(s)
  /\ \/ \E k \in Ktx :
          /\ Begun(s, k)
          /\ ctx' = [ctx EXCEPT ![s].currentTransaction = k]
          /\ doing' = [doing EXCEPT ![s] = "execute"]
          /\ UNCHANGED <<fsm, state, goal>>
     \/ Refused(s)
  /\ UNCHANGED <<connection, reader>>

Executing(s) == doing[s] = "execute" \/ (doing[s] = "RUN" /\ hasTransaction(s))

\* A statement fails: the close of its handle fails the explicit transaction.
Fails(s) ==
  /\ ctx' = [ctx EXCEPT ![s] = IF hasTransaction(s) THEN [@ EXCEPT !.currentResultHandle = None]
                               ELSE Left(s)]
  /\ IF hasTransaction(s)
     THEN /\ Becomes(s, "FAILED")
          /\ ktx' = [ktx EXCEPT ![ctx[s].currentTransaction] =
                       Flagged(ctx[s].currentTransaction, {"failure"})]
          /\ UNCHANGED <<state, goal>>
     ELSE closeTransaction(s, ctx[s].currentTransaction, {"failure"}, "FAILED")

startExecution(s) ==
  /\ Executing(s)
  /\ \/ /\ Becomes(s, IF hasTransaction(s) THEN "TX_STREAMING" ELSE "STREAMING")
        /\ ctx' = [ctx EXCEPT ![s].currentResultHandle = ctx[s].currentTransaction]
        /\ UNCHANGED <<state, goal, ktx>>
     \/ Fails(s)
  /\ UNCHANGED <<connection, reader>>

\* A periodic commit begins its own transaction, which the context is without
\* while the statement runs; an explicit transaction refuses one.
runPeriodic(s) ==
  /\ doing[s] = "PERIODIC"
  /\ \/ /\ ~hasTransaction(s)
        /\ \E k \in Ktx : Begun(s, k)
        /\ doing' = [doing EXCEPT ![s] = "load"]
        /\ UNCHANGED <<fsm, state, ctx, goal>>
     \/ Refused(s)
  /\ UNCHANGED <<connection, reader>>

\* A periodic commit ends, with what the context has then.
Started(s, protocol, transaction, result) ==
  /\ Becomes(s, protocol)
  /\ ctx' = [ctx EXCEPT ![s].currentTransaction = transaction,
                        ![s].currentResultHandle = result]

(* When the statement has run, the context gets a transaction in any case. *)
(* If the result is open, its own is still bound to the thread, and begun  *)
(* again: the context has the same one, or none when it was terminated     *)
(* meanwhile and the begin throws.  If it is over, because the statement   *)
(* failed or returns nothing, the begin is that of a new one, or throws.   *)
startPeriodic(s, k) ==
  /\ doing[s] = "load" /\ k \in Held(s)
  /\ \/ /\ IF ktx[k].terminated THEN Started(s, "FAILED", None, k) ELSE Started(s, "STREAMING", k, k)
        /\ UNCHANGED <<ktx, late>>
     \/ /\ \/ /\ Started(s, "STREAMING", k, k) \/ Started(s, "FAILED", k, None)
              /\ ktx' = [ktx EXCEPT ![k] = [NoKtx EXCEPT !.owner = s]]
           \/ /\ Started(s, "FAILED", None, None)
              /\ ktx' = [ktx EXCEPT ![k] = NoKtx]
        /\ late' = late \cup {u \in Session : marking[u] = k}
  /\ UNCHANGED <<state, goal, connection, marking>>

streamResult(s) ==
  /\ doing[s] = "PULL"
  /\ \/ /\ hasTransaction(s)
        /\ Becomes(s, "TX_READY")
        /\ ctx' = [ctx EXCEPT ![s].currentResultHandle = None]
        /\ UNCHANGED <<state, goal, ktx>>
     \/ /\ ~hasTransaction(s)
        /\ ctx' = [ctx EXCEPT ![s] = Left(s)]
        /\ closeTransaction(s, ctx[s].currentTransaction, {"success"}, "READY")
     \/ Fails(s)
  /\ UNCHANGED <<connection, reader>>

commitOrRollback(s) ==
  /\ doing[s] \in {"COMMIT", "ROLLBACK"}
  /\ ctx' = [ctx EXCEPT ![s] = Left(s)]
  /\ closeTransaction(s, ctx[s].currentTransaction,
                      {IF doing[s] = "COMMIT" THEN "success" ELSE "failure"}, "READY")
  /\ UNCHANGED <<connection, reader>>

-----------------------------------------------------------------------------
(* The close of a transaction *)

\* How a close can end: a commit can fail, one of a failed or terminated
\* transaction does, and nobody asks for the others.
Outcomes(k) ==
  IF ~ktx[k].success THEN {"undone"}
  ELSE IF ktx[k].terminated THEN {"terminated"}
  ELSE IF ktx[k].failure THEN {"failed"}
  ELSE {"committed", "failed"}

\* Mutant of Closed: a commit that threw ends as if it had not.
ClosedQuietly(s, k) ==
  /\ doing[s] = "close" /\ k \in Held(s)
  /\ \E outcome \in Outcomes(k) :
       /\ Becomes(s, goal[s])
       /\ state' = [state EXCEPT ![s] = IF outcome = "terminated" THEN @ ELSE "AUTO_COMMIT"]
  /\ goal' = [goal EXCEPT ![s] = "READY"]
  /\ ktx' = [ktx EXCEPT ![k] = NoKtx]
  /\ late' = late \cup {u \in Session : marking[u] = k}
  /\ UNCHANGED <<ctx, connection, marking>>

(* tx.close(), and back to the pool.  commitTransaction() catches a commit *)
(* that failed, not the exception of a terminated one, and leaves the      *)
(* state explicit then.                                                    *)
Closed(s, k) ==
  /\ doing[s] = "close" /\ k \in Held(s)
  /\ \E outcome \in Outcomes(k) :
       /\ Becomes(s, IF outcome \in {"committed", "undone"} THEN goal[s] ELSE "FAILED")
       /\ state' = [state EXCEPT ![s] = IF outcome = "terminated" THEN @ ELSE "AUTO_COMMIT"]
  /\ goal' = [goal EXCEPT ![s] = "READY"]
  /\ ktx' = [ktx EXCEPT ![k] = NoKtx]
  /\ late' = late \cup {u \in Session : marking[u] = k}
  /\ UNCHANGED <<ctx, connection, marking>>

-----------------------------------------------------------------------------
(* RESET, the end of a connection, and terminations *)

\* Mutant of Reset: the counter is compared after it was decremented.
ResetCountedTwice(s) ==
  /\ doing[s] = "idle" /\ s \notin stopped /\ Enqueued(s)
  /\ interrupts' = [interrupts EXCEPT ![s] = @ - 1]
  /\ IF interrupts'[s] = 1
     THEN ctx' = [ctx EXCEPT ![s] = Left(s)] /\ reset(s, "READY")
     ELSE UNCHANGED <<worker, ktx>>
  /\ UNCHANGED <<resets, stopped, reader>>

\* One RESET is answered; the last that has arrived resets the session.
Reset(s) ==
  /\ doing[s] = "idle" /\ s \notin stopped /\ Enqueued(s)
  /\ interrupts' = [interrupts EXCEPT ![s] = @ - 1]
  /\ IF interrupts[s] = 1
     THEN ctx' = [ctx EXCEPT ![s] = Left(s)] /\ reset(s, "READY")
     ELSE UNCHANGED <<worker, ktx>>
  /\ UNCHANGED <<resets, stopped, reader>>

Close(s) ==
  /\ doing[s] = "idle" /\ s \in stopped /\ fsm[s] # "CLOSED"
  /\ ctx' = [ctx EXCEPT ![s] = Left(s)] /\ reset(s, "CLOSED")
  /\ UNCHANGED <<connection, reader>>

\* Mutant of validateTransaction: only while a result is open.
validateStatement(s) ==
  LET k == ctx[s].currentTransaction IN
    /\ doing[s] = "idle" /\ s \notin stopped /\ ~Enqueued(s)
    /\ hasOpenStatement(s)
    /\ k # None /\ ktx[k].terminated
    /\ ctx' = [ctx EXCEPT ![s] = [Left(s) EXCEPT !.notice = TRUE]]
    /\ reset(s, fsm[s])
    /\ UNCHANGED <<connection, reader>>

\* A worker that waits for the next request of an open transaction or result.
validateTransaction(s) ==
  LET k == ctx[s].currentTransaction IN
    /\ doing[s] = "idle" /\ s \notin stopped /\ ~Enqueued(s)
    /\ hasTransaction(s) \/ hasOpenStatement(s)
    /\ k # None /\ ktx[k].terminated
    /\ ctx' = [ctx EXCEPT ![s] = [Left(s) EXCEPT !.notice = TRUE]]
    /\ reset(s, fsm[s])
    /\ UNCHANGED <<connection, reader>>

\* The reading thread counts the interrupt and reads the current transaction.
Interrupt(s) ==
  /\ marking[s] = None /\ s \notin stopped /\ resets[s] > 0
  /\ resets' = [resets EXCEPT ![s] = @ - 1]
  /\ interrupts' = [interrupts EXCEPT ![s] = @ + 1]
  /\ marking' = [marking EXCEPT ![s] = ctx[s].currentTransaction]
  /\ UNCHANGED <<worker, ktx, stopped, late>>

Stop(s) ==
  /\ marking[s] = None /\ s \notin stopped
  /\ stopped' = stopped \cup {s}
  /\ resets' = [resets EXCEPT ![s] = 0]
  /\ marking' = [marking EXCEPT ![s] = ctx[s].currentTransaction]
  /\ UNCHANGED <<worker, ktx, interrupts, late>>

\* The second step of markCurrentTransactionForTermination(): whatever the
\* object is by now.
Mark(s) ==
  /\ marking[s] # None
  /\ ktx' = [ktx EXCEPT ![marking[s]] = Terminated(marking[s])]
  /\ marking' = [marking EXCEPT ![s] = None]
  /\ late' = late \ {s}
  /\ UNCHANGED <<worker, connection>>

\* The monitor of transactions, or another client.
Expire(k) ==
  /\ ktx[k].owner # None /\ ~ktx[k].terminated
  /\ ktx' = [ktx EXCEPT ![k] = Terminated(k)]
  /\ UNCHANGED <<worker, connection, reader>>

-----------------------------------------------------------------------------
\* What a worker does without another request of its client.
Work(s) ==
  \/ beginTransaction(s) \/ runAutoCommit(s) \/ startExecution(s) \/ runPeriodic(s)
  \/ streamResult(s) \/ commitOrRollback(s)
  \/ \E k \in Ktx : startPeriodic(s, k) \/ Closed(s, k)
  \/ Reset(s) \/ Close(s) \/ validateTransaction(s)

Next ==
  \/ \E s \in Session :
       \/ Work(s) \/ Mark(s) \/ Interrupt(s) \/ Stop(s)
       \/ \E request \in Request : Take(s, request)
  \/ \E k \in Ktx : Expire(k)

\* Threads run, and statements end; clients and the monitor owe nothing.
Fairness == \A s \in Session : WF_vars(Work(s)) /\ WF_vars(Mark(s))

Spec == Init /\ [][Next]_vars /\ Fairness

-----------------------------------------------------------------------------
(* Between two requests of a session, the state of the protocol tells what *)
(* its state machine holds: nothing when it is ready, one transaction of   *)
(* its own that commit and rollback will find when an explicit one is      *)
(* open, its result while it streams, nothing any more when a notice of    *)
(* termination is pending, and after a failure at most one that the reset  *)
(* will find: in the context, or else, terminated while a periodic commit  *)
(* ran in it, behind the open result.                                      *)
Consistent(s) ==
  LET k == ctx[s].currentTransaction
      h == ctx[s].currentResultHandle IN
    /\ Held(s) = {k, h} \ {None}
    /\ h \in {None, k} \/ (fsm[s] = "FAILED" /\ ~hasTransaction(s) /\ k = None /\ ktx[h].terminated)
    /\ fsm[s] \in {"READY", "CLOSED"} \/ ctx[s].notice =>
         state[s] = "AUTO_COMMIT" /\ k = None /\ ~hasOpenStatement(s)
    /\ fsm[s] \in {"TX_READY", "TX_STREAMING"} /\ ~ctx[s].notice => hasTransaction(s) /\ k # None
    /\ fsm[s] = "STREAMING" /\ ~ctx[s].notice => ~hasTransaction(s) /\ k # None
    /\ fsm[s] \in {"STREAMING", "TX_STREAMING"} /\ ~ctx[s].notice => hasOpenStatement(s)

SessionsConsistent == \A s \in Session : doing[s] = "idle" => Consistent(s)

(* The reading thread may mark the transaction it has read when it is      *)
(* released and begun again for another session, never for a later request *)
(* of its own: the interrupt is counted first, and the worker takes no     *)
(* request until the RESET behind it is answered.                          *)
NoLateMarkOfOwn == \A s \in late : marking[s] \notin Held(s)

(* Once a request of a session has failed, nothing of the session is       *)
(* committed before it is ready again: its transaction, which may still be *)
(* open, is never marked as successful and ends by the roll back of a      *)
(* reset, wherever the reset comes from.                                   *)
FailedNeverCommits ==
  \A s \in Session : fsm[s] = "FAILED" => \A k \in Held(s) : ~ktx[k].success

(* Every RESET ends with the session ready and empty, or closed, and every *)
(* connection that ends gives back its transaction, wherever the worker    *)
(* was in a request.                                                       *)
Settled(s) ==
  /\ fsm[s] \in {"READY", "CLOSED"} /\ doing[s] = "idle" /\ Held(s) = {}
  /\ s \in stopped \/ interrupts[s] = 0

InterruptsSettle ==
  \A s \in Session : (interrupts[s] > 0 \/ s \in stopped) ~> Settled(s)

(* A transaction that is terminated does not stay open: the worker of its  *)
(* session rolls it back, even if the client sends nothing any more.  It   *)
(* does only in a session whose context has it, with an explicit one or an *)
(* open result, which what a periodic commit leaves when it fails is not.  *)
(* And a client that starts further statements puts it off.                *)
TerminatedEnds ==
  \A s \in Session :
    (\E k \in Held(s) : ktx[k].terminated) ~>
       \/ \A k \in Held(s) : ~ktx[k].terminated
       \/ doing[s] = "RUN"
       \/ fsm[s] = "FAILED" /\ ~hasTransaction(s)

===============================================================================
