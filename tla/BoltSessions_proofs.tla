-------------------------- MODULE BoltSessions_proofs --------------------------
(***************************************************************************)
(* Proofs about the sessions of the Bolt server, for any number of         *)
(* sessions, transaction objects and RESETs.                               *)
(*                                                                         *)
(* The properties speak of a session between two requests.  The invariant  *)
(* says of each point in a request what the session holds there, and how   *)
(* far the transaction that its reading thread has read can be behind.     *)
(***************************************************************************)
EXTENDS BoltSessions, TLAPS

Protocol == {"READY", "STREAMING", "TX_READY", "TX_STREAMING", "FAILED", "CLOSED"}

\* The context or its result has the transaction, but while a periodic commit
\* runs and while a transaction is closed, when the worker has it.
Holds(s) ==
  IF doing[s] \in {"load", "close"}
  THEN ctx[s].currentTransaction = None /\ \E k \in Ktx : Held(s) = {k}
  ELSE Held(s) = {ctx[s].currentTransaction, ctx[s].currentResultHandle} \ {None}

\* At each point in a request.
Underway(s) ==
  /\ doing[s] \in Request \cup {"idle"} => Consistent(s)
  /\ doing[s] \in Request => doing[s] \in Requests[fsm[s]]
  /\ doing[s] \in Request \cup {"execute", "load"} => ~ctx[s].notice
  /\ doing[s] \in {"execute", "load"} => fsm[s] = "READY" /\ ~hasTransaction(s)
  /\ doing[s] = "execute" => ctx[s].currentTransaction # None /\ ~hasOpenStatement(s)
  /\ doing[s] = "close" =>
       ~hasOpenStatement(s) /\ (goal[s] \in {"READY", "FAILED", "CLOSED"} \/ ctx[s].notice)

\* A transaction is marked as successful when a request of an undisturbed
\* session closes it, and not before.
Successes(s) ==
  \A k \in Held(s) : ktx[k].success =>
    doing[s] = "close" /\ goal[s] = "READY" /\ fsm[s] # "FAILED" /\ ~ctx[s].notice

\* While the reading thread is behind, the worker begins nothing, and what was
\* released meanwhile was the last that the session held.
Behind(s) ==
  /\ marking[s] # None =>
       /\ s \in stopped \/ interrupts[s] > 0
       /\ doing[s] # "load"
       /\ doing[s] \in {"BEGIN", "RUN", "PERIODIC"} => hasTransaction(s)
       /\ s \notin late => marking[s] \in Held(s)
  /\ s \in late => marking[s] # None /\ doing[s] = "idle" /\ Held(s) = {}

Counts(s) == interrupts[s] + resets[s] <= MaxResets[s]

SessionInv(s) == Holds(s) /\ Underway(s) /\ Successes(s) /\ Behind(s) /\ Counts(s)

IInv ==
  /\ TypeOK
  /\ interrupts \in [Session -> Nat] /\ resets \in [Session -> Nat]
  /\ \A s \in Session : SessionInv(s)

-----------------------------------------------------------------------------
(* What a step has to show. *)

\* A step of one session, seen from the others.
Elsewhere(s) ==
  \A u \in Session \ {s} :
    /\ fsm'[u] = fsm[u] /\ state'[u] = state[u] /\ ctx'[u] = ctx[u]
    /\ doing'[u] = doing[u] /\ goal'[u] = goal[u]
    /\ interrupts'[u] = interrupts[u] /\ resets'[u] = resets[u]
    /\ marking'[u] = marking[u]
    /\ u \in stopped' <=> u \in stopped
    /\ u \in late' <=> u \in late
    /\ Held(u)' = Held(u)
    /\ \A k \in Held(u) :
         ktx'[k].success = ktx[k].success /\ (ktx[k].terminated => ktx'[k].terminated)

\* Terminations leave a session consistent.
LEMMA StillConsistent ==
  ASSUME NEW u \in Session, Consistent(u),
         fsm'[u] = fsm[u], state'[u] = state[u], ctx'[u] = ctx[u], Held(u)' = Held(u),
         \A k \in Held(u) : ktx[k].terminated => ktx'[k].terminated
  PROVE  Consistent(u)'
<1> DEFINE k == ctx[u].currentTransaction
           h == ctx[u].currentResultHandle
<1>1. h # None => h \in Held(u)
  BY DEF Consistent
<1> QED
  BY <1>1 DEF Consistent, hasTransaction, hasOpenStatement

LEMMA OtherSession ==
  ASSUME NEW s \in Session, Elsewhere(s), NEW u \in Session \ {s}, SessionInv(u)
  PROVE  SessionInv(u)'
<1>1. /\ fsm'[u] = fsm[u] /\ state'[u] = state[u] /\ ctx'[u] = ctx[u]
      /\ doing'[u] = doing[u] /\ goal'[u] = goal[u]
      /\ interrupts'[u] = interrupts[u] /\ resets'[u] = resets[u]
      /\ marking'[u] = marking[u]
      /\ u \in stopped' <=> u \in stopped
      /\ u \in late' <=> u \in late
      /\ Held(u)' = Held(u)
      /\ \A k \in Held(u) :
           ktx'[k].success = ktx[k].success /\ (ktx[k].terminated => ktx'[k].terminated)
  BY DEF Elsewhere
<1>2. Consistent(u) => Consistent(u)'
  BY <1>1, StillConsistent
<1>3. Holds(u)' /\ Underway(u)' /\ Behind(u)' /\ Counts(u)'
  BY <1>1, <1>2 DEF SessionInv, Holds, Underway, Behind, Counts, hasTransaction, hasOpenStatement
<1>4. Successes(u)'
  BY <1>1 DEF SessionInv, Successes
<1> QED
  BY <1>3, <1>4 DEF SessionInv

LEMMA LocalStep ==
  ASSUME IInv, NEW s \in Session, Elsewhere(s), TypeOK',
         interrupts' \in [Session -> Nat], resets' \in [Session -> Nat],
         SessionInv(s)'
  PROVE  IInv'
<1>1. \A u \in Session \ {s} : SessionInv(u)'
  BY OtherSession DEF IInv
<1> QED
  BY <1>1 DEF IInv

\* A transaction has one owner, and is among what it holds.
LEMMA HeldApart ==
  ASSUME NEW s \in Session, NEW u \in Session, s # u
  PROVE  Held(s) \cap Held(u) = {}
BY DEF Held

\* Setting flags changes nothing else.
LEMMA FlaggedType ==
  ASSUME TypeOK, NEW k \in Ktx, NEW flags
  PROVE  /\ Flagged(k, flags) \in KernelTransaction
         /\ Flagged(k, flags).owner = ktx[k].owner
         /\ Flagged(k, flags).success <=> ktx[k].success \/ "success" \in flags
         /\ ktx[k].terminated => Flagged(k, flags).terminated
<1> DEFINE success == ktx[k].success \/ "success" \in flags
           failure == ktx[k].failure \/ "failure" \in flags
           terminated == ktx[k].terminated \/ "terminated" \in flags
<1>1. success \in BOOLEAN /\ failure \in BOOLEAN /\ terminated \in BOOLEAN
  BY Zenon
<1>2. ktx[k] \in KernelTransaction
  BY DEF TypeOK
<1>3. Flagged(k, flags) = [ktx[k] EXCEPT !.success = success, !.failure = failure,
                                         !.terminated = terminated]
  BY <1>2 DEF Flagged, KernelTransaction
<1> HIDE DEF success, failure, terminated
<1>4. /\ Flagged(k, flags) \in KernelTransaction
      /\ Flagged(k, flags).owner = ktx[k].owner
      /\ Flagged(k, flags).success = success /\ Flagged(k, flags).terminated = terminated
  BY <1>1, <1>2, <1>3 DEF KernelTransaction
<1> QED
  BY <1>4 DEF success, terminated

LEMMA NoKtxType ==
  ASSUME NEW s \in Session
  PROVE  /\ NoKtx \in KernelTransaction /\ [NoKtx EXCEPT !.owner = s] \in KernelTransaction
         /\ NoKtx.owner = None /\ ~NoKtx.success
         /\ [NoKtx EXCEPT !.owner = s].owner = s /\ ~[NoKtx EXCEPT !.owner = s].success
BY DEF NoKtx, KernelTransaction

\* What a session holds when the flags of a transaction change.
LEMMA HeldFlagged ==
  ASSUME TypeOK, NEW k \in Ktx, NEW flags, ktx' = [ktx EXCEPT ![k] = Flagged(k, flags)]
  PROVE  /\ ktx' \in [Ktx -> KernelTransaction]
         /\ \A u \in Session : Held(u)' = Held(u)
         /\ \A h \in Ktx \ {k} : ktx'[h] = ktx[h]
         /\ ktx'[k].success <=> ktx[k].success \/ "success" \in flags
         /\ \A h \in Ktx : ktx[h].terminated => ktx'[h].terminated
<1>1. /\ Flagged(k, flags) \in KernelTransaction
      /\ Flagged(k, flags).owner = ktx[k].owner
      /\ Flagged(k, flags).success <=> ktx[k].success \/ "success" \in flags
      /\ ktx[k].terminated => Flagged(k, flags).terminated
  BY FlaggedType
<1>2. ktx \in [Ktx -> KernelTransaction]
  BY DEF TypeOK
<1>3. \A h \in Ktx : ktx'[h].owner = ktx[h].owner
  BY <1>1, <1>2
<1> QED
  BY <1>1, <1>2, <1>3 DEF Held

(* closeTransaction(), which its callers have closed the result for.       *)
LEMMA ClosingStep ==
  ASSUME IInv, NEW s \in Session, NEW k \in Ktx \cup {None}, NEW flags, NEW after \in Protocol,
         doing[s] \notin {"load", "close"}, Held(s) = {k} \ {None},
         closeTransaction(s, k, flags, after),
         NEW c \in Context, ctx' = [ctx EXCEPT ![s] = c],
         c.currentTransaction = None, c.currentResultHandle = None,
         "success" \in flags => after = "READY" /\ fsm[s] # "FAILED" /\ ~c.notice,
         after \in {"READY", "FAILED", "CLOSED"} \/ c.notice,
         marking[s] # None => s \in stopped \/ interrupts'[s] > 0,
         interrupts' \in [Session -> Nat], interrupts'[s] <= interrupts[s],
         \A u \in Session \ {s} : interrupts'[u] = interrupts[u],
         UNCHANGED <<resets, stopped, reader>>
  PROVE  IInv'
<1>0. TypeOK /\ SessionInv(s) /\ ctx[s] \in Context
  BY DEF IInv, TypeOK
<1>1. Held(s) = IF k = None THEN {} ELSE {k}
  OBVIOUS
<1>2. /\ ctx'[s] = c /\ \A u \in Session \ {s} : ctx'[u] = ctx[u]
      /\ ctx' \in [Session -> Context]
  BY <1>0 DEF TypeOK
<1>3. \A u \in Session : interrupts'[u] \in 0 .. MaxResets[u]
  BY <1>0, ResetsAssumption DEF IInv, TypeOK
<1>4. UNCHANGED <<resets, stopped, marking, late>>
  BY DEF reader
<1>5. CASE k = None
  <2>1. /\ fsm' = [fsm EXCEPT ![s] = after] /\ doing' = [doing EXCEPT ![s] = "idle"]
        /\ state' = [state EXCEPT ![s] = "AUTO_COMMIT"] /\ UNCHANGED <<goal, ktx>>
    BY <1>5 DEF closeTransaction, Becomes
  <2>2. TypeOK'
    BY <1>0, <1>2, <1>3, <1>4, <2>1 DEF TypeOK, Protocol
  <2>3. Elsewhere(s)
    BY <1>0, <1>2, <1>4, <2>1 DEF Elsewhere, TypeOK, Held
  <2>4. fsm'[s] = after /\ doing'[s] = "idle" /\ state'[s] = "AUTO_COMMIT" /\ Held(s)' = {}
    BY <1>0, <1>1, <1>5, <2>1 DEF TypeOK, Held
  <2>5. Holds(s)' /\ Successes(s)'
    BY <1>2, <2>4 DEF Holds, Successes
  <2>6. Underway(s)'
    BY <1>2, <2>4 DEF Underway, Consistent, hasTransaction, hasOpenStatement, Request, Protocol
  <2>7. Behind(s)'
    BY <1>0, <1>1, <1>4, <1>5, <2>4 DEF SessionInv, Behind
  <2>8. Counts(s)'
    BY <1>0, <1>3, <1>4, ResetsAssumption DEF SessionInv, Counts, IInv
  <2> QED
    BY <1>4, <2>2, <2>3, <2>5, <2>6, <2>7, <2>8, LocalStep DEF SessionInv, IInv
<1>6. CASE k # None
  <2>0. k \in Ktx
    BY <1>6
  <2>1. /\ doing' = [doing EXCEPT ![s] = "close"] /\ goal' = [goal EXCEPT ![s] = after]
        /\ ktx' = [ktx EXCEPT ![k] = Flagged(k, flags)]
        /\ UNCHANGED <<fsm, state>>
    BY <1>6 DEF closeTransaction
  <2>2. /\ ktx' \in [Ktx -> KernelTransaction]
        /\ \A u \in Session : Held(u)' = Held(u)
        /\ \A h \in Ktx \ {k} : ktx'[h] = ktx[h]
        /\ ktx'[k].success <=> ktx[k].success \/ "success" \in flags
        /\ \A h \in Ktx : ktx[h].terminated => ktx'[h].terminated
    BY <1>0, <2>0, <2>1, HeldFlagged
  <2>3. TypeOK'
    BY <1>0, <1>2, <1>3, <1>4, <2>1, <2>2 DEF TypeOK, Protocol
  <2>4. \A u \in Session \ {s} : k \notin Held(u) /\ Held(u) \subseteq Ktx
    BY <1>1, <1>6, HeldApart DEF Held
  <2>5. Elsewhere(s)
    BY <1>0, <1>2, <1>4, <2>1, <2>2, <2>4 DEF Elsewhere, TypeOK
  <2>6. doing'[s] = "close" /\ goal'[s] = after /\ fsm'[s] = fsm[s] /\ Held(s)' = {k}
    BY <1>0, <1>1, <1>6, <2>1, <2>2 DEF TypeOK
  <2>7. Holds(s)'
    BY <1>2, <2>0, <2>6 DEF Holds
  <2>8. Successes(s)'
    BY <1>0, <1>1, <1>2, <1>6, <2>2, <2>6 DEF SessionInv, Successes
  <2>9. Underway(s)'
    BY <1>2, <2>6 DEF Underway, hasOpenStatement, Request
  <2>10. Behind(s)'
    BY <1>0, <1>1, <1>4, <1>6, <2>6 DEF SessionInv, Behind
  <2>11. Counts(s)'
    BY <1>0, <1>3, <1>4, ResetsAssumption DEF SessionInv, Counts, IInv
  <2> QED
    BY <1>4, <2>3, <2>5, <2>7, <2>8, <2>9, <2>10, <2>11, LocalStep DEF SessionInv, IInv
<1> QED
  BY <1>5, <1>6

-----------------------------------------------------------------------------
(* Requests. *)

\* An object from the pool is held by the session, and was held by none.
LEMMA BegunHeld ==
  ASSUME TypeOK, NEW s \in Session, NEW k \in Ktx, Begun(s, k)
  PROVE  /\ ktx' \in [Ktx -> KernelTransaction]
         /\ Held(s)' = Held(s) \cup {k}
         /\ \A u \in Session \ {s} : Held(u)' = Held(u)
         /\ \A u \in Session : k \notin Held(u) /\ \A h \in Held(u) : ktx'[h] = ktx[h]
         /\ ~ktx'[k].success
<1>1. ktx \in [Ktx -> KernelTransaction] /\ ktx[k].owner = None
  BY DEF TypeOK, Begun
<1>2. ktx' = [ktx EXCEPT ![k] = [NoKtx EXCEPT !.owner = s]]
  BY DEF Begun
<1>3. /\ ktx' \in [Ktx -> KernelTransaction]
      /\ ktx'[k].owner = s /\ ~ktx'[k].success
      /\ \A h \in Ktx \ {k} : ktx'[h] = ktx[h]
  BY <1>1, <1>2, NoKtxType
<1>4. \A u \in Session : k \notin Held(u)
  BY <1>1, NoneAssumption DEF Held
<1> QED
  BY <1>3, <1>4 DEF Held

LEMMA RefusedStep ==
  ASSUME IInv, NEW s \in Session, doing[s] \in Request, Refused(s),
         UNCHANGED <<connection, reader>>
  PROVE  IInv'
<1>0. TypeOK /\ SessionInv(s)
  BY DEF IInv
<1>1. /\ fsm' = [fsm EXCEPT ![s] = "FAILED"] /\ doing' = [doing EXCEPT ![s] = "idle"]
      /\ UNCHANGED <<state, ctx, goal, ktx, interrupts, resets, stopped, marking, late>>
  BY DEF Refused, Becomes, connection, reader
<1>2. TypeOK'
  BY <1>0, <1>1 DEF TypeOK
<1>3. Elsewhere(s)
  BY <1>0, <1>1 DEF Elsewhere, TypeOK, Held
<1>4. fsm'[s] = "FAILED" /\ doing'[s] = "idle" /\ Held(s)' = Held(s)
  BY <1>0, <1>1 DEF TypeOK, Held
<1>5. Holds(s)' /\ Underway(s)' /\ Successes(s)'
  BY <1>0, <1>1, <1>4 DEF SessionInv, Holds, Underway, Successes, Consistent,
    hasTransaction, hasOpenStatement, Request
<1>6. Behind(s)' /\ Counts(s)'
  BY <1>0, <1>1, <1>4 DEF SessionInv, Behind, Counts, Request
<1> QED
  BY <1>1, <1>2, <1>3, <1>5, <1>6, LocalStep DEF SessionInv, IInv

LEMMA TakeStep ==
  ASSUME IInv, NEW s \in Session, NEW request \in Request, Take(s, request)
  PROVE  IInv'
<1>0. TypeOK /\ SessionInv(s) /\ ctx[s] \in Context /\ marking[s] = None
  BY DEF IInv, TypeOK, Take, SessionInv, Behind
<1>1. /\ doing[s] = "idle" /\ request \in Requests[fsm[s]]
      /\ UNCHANGED <<state, goal, ktx, interrupts, resets, stopped, marking, late>>
  BY DEF Take, connection, reader
<1>2. CASE ctx[s].notice
  <2>1. /\ fsm' = [fsm EXCEPT ![s] = "FAILED"] /\ doing' = [doing EXCEPT ![s] = "idle"]
        /\ ctx' = [ctx EXCEPT ![s].notice = FALSE]
    BY <1>2 DEF Take, Becomes
  <2>2. /\ ctx' \in [Session -> Context]
        /\ ctx'[s].currentTransaction = ctx[s].currentTransaction /\ ~ctx'[s].notice
        /\ ctx'[s].currentResultHandle = ctx[s].currentResultHandle
        /\ \A u \in Session \ {s} : ctx'[u] = ctx[u]
    BY <1>0, <2>1 DEF TypeOK, Context
  <2>3. TypeOK'
    BY <1>0, <1>1, <2>1, <2>2 DEF TypeOK
  <2>4. Elsewhere(s)
    BY <1>0, <1>1, <2>1, <2>2 DEF Elsewhere, TypeOK, Held
  <2>5. fsm'[s] = "FAILED" /\ doing'[s] = "idle" /\ Held(s)' = Held(s)
    BY <1>0, <1>1, <2>1 DEF TypeOK, Held
  <2>6. Holds(s)' /\ Underway(s)' /\ Successes(s)'
    BY <1>0, <1>1, <1>2, <2>2, <2>5
    DEF SessionInv, Holds, Underway, Successes, Consistent, Request, hasOpenStatement
  <2>7. Behind(s)' /\ Counts(s)'
    BY <1>0, <1>1, <2>5 DEF SessionInv, Behind, Counts
  <2> QED
    BY <1>1, <2>3, <2>4, <2>6, <2>7, LocalStep DEF SessionInv, IInv
<1>3. CASE ~ctx[s].notice
  <2>1. doing' = [doing EXCEPT ![s] = request] /\ UNCHANGED <<fsm, ctx>>
    BY <1>3 DEF Take
  <2>2. TypeOK'
    BY <1>0, <1>1, <2>1 DEF TypeOK
  <2>3. Elsewhere(s)
    BY <1>0, <1>1, <2>1 DEF Elsewhere, TypeOK, Held
  <2>4. doing'[s] = request /\ Held(s)' = Held(s)
    BY <1>0, <1>1, <2>1 DEF TypeOK, Held
  <2>5. Holds(s)' /\ Underway(s)' /\ Successes(s)'
    BY <1>0, <1>1, <1>3, <2>1, <2>4 DEF SessionInv, Holds, Underway, Successes, Consistent,
      hasTransaction, hasOpenStatement, Request
  <2>6. Behind(s)' /\ Counts(s)'
    BY <1>0, <1>1, <2>4 DEF SessionInv, Behind, Counts
  <2> QED
    BY <1>1, <2>2, <2>3, <2>5, <2>6, LocalStep DEF SessionInv, IInv
<1> QED
  BY <1>2, <1>3

\* A session that begins something has nothing, and its reading thread is not
\* behind.
LEMMA Beginning ==
  ASSUME IInv, NEW s \in Session,
         doing[s] \in {"BEGIN", "RUN", "PERIODIC"}, doing[s] = "BEGIN" \/ ~hasTransaction(s)
  PROVE  /\ fsm[s] = "READY" /\ Held(s) = {} /\ ctx[s].currentTransaction = None
         /\ ~hasTransaction(s) /\ ~hasOpenStatement(s) /\ ~ctx[s].notice
         /\ marking[s] = None /\ s \notin late
<1>0. TypeOK /\ SessionInv(s) /\ fsm[s] \in Protocol /\ doing[s] \in Requests[fsm[s]]
  BY DEF IInv, TypeOK, Protocol, SessionInv, Underway, Request
<1>1. Consistent(s) /\ ~ctx[s].notice
  BY <1>0 DEF SessionInv, Underway, Request
<1>2. fsm[s] \in {"READY", "TX_READY"}
  BY <1>0 DEF Requests, Protocol
<1>3. fsm[s] = "READY"
  BY <1>0, <1>1, <1>2 DEF Requests, Consistent
<1>4. /\ Held(s) = {} /\ ctx[s].currentTransaction = None
      /\ ~hasTransaction(s) /\ ~hasOpenStatement(s)
  BY <1>1, <1>3 DEF Consistent, hasTransaction
<1>5. marking[s] = None /\ s \notin late
  BY <1>0, <1>4 DEF SessionInv, Behind
<1> QED
  BY <1>1, <1>3, <1>4, <1>5

LEMMA BeginStep ==
  ASSUME IInv, NEW s \in Session, beginTransaction(s)
  PROVE  IInv'
<1>0. TypeOK /\ SessionInv(s) /\ ctx[s] \in Context /\ doing[s] = "BEGIN"
  BY DEF IInv, TypeOK, beginTransaction
<1>1. UNCHANGED <<interrupts, resets, stopped, marking, late>>
  BY DEF beginTransaction, connection, reader
<1>2. ASSUME NEW k \in Ktx, Begun(s, k),
             ctx' = [ctx EXCEPT ![s].currentTransaction = k],
             state' = [state EXCEPT ![s] = "EXPLICIT_TRANSACTION"],
             Becomes(s, "TX_READY"), UNCHANGED goal
      PROVE  IInv'
  <2>1. /\ ktx' \in [Ktx -> KernelTransaction]
        /\ Held(s)' = Held(s) \cup {k}
        /\ \A u \in Session \ {s} : Held(u)' = Held(u)
        /\ \A u \in Session : \A h \in Held(u) : ktx'[h] = ktx[h]
        /\ ~ktx'[k].success
    BY <1>0, <1>2, BegunHeld
  <2>2. /\ fsm[s] = "READY" /\ Held(s) = {} /\ ctx[s].currentTransaction = None
        /\ ~hasTransaction(s) /\ ~hasOpenStatement(s) /\ ~ctx[s].notice
        /\ marking[s] = None /\ s \notin late
    BY <1>0, Beginning
  <2>3. /\ ctx' \in [Session -> Context] /\ ctx'[s].currentTransaction = k
        /\ ctx'[s].currentResultHandle = None
        /\ ~ctx'[s].notice /\ \A u \in Session \ {s} : ctx'[u] = ctx[u]
    BY <1>0, <1>2, <2>2 DEF TypeOK, Context, hasOpenStatement
  <2>4. /\ fsm' = [fsm EXCEPT ![s] = "TX_READY"] /\ doing' = [doing EXCEPT ![s] = "idle"]
    BY <1>2 DEF Becomes
  <2>5. TypeOK'
    BY <1>0, <1>1, <1>2, <2>1, <2>3, <2>4 DEF TypeOK
  <2>6. Elsewhere(s)
    BY <1>0, <1>1, <1>2, <2>1, <2>3, <2>4 DEF Elsewhere, TypeOK
  <2>7. /\ fsm'[s] = "TX_READY" /\ doing'[s] = "idle" /\ Held(s)' = {k}
        /\ state'[s] = "EXPLICIT_TRANSACTION" /\ k # None
    BY <1>0, <1>2, <2>1, <2>2, <2>4, NoneAssumption DEF TypeOK
  <2>8. Holds(s)' /\ Underway(s)' /\ Successes(s)'
    BY <2>1, <2>3, <2>7 DEF Holds, Underway, Successes, Consistent, hasTransaction, Request
  <2>9. Behind(s)' /\ Counts(s)'
    BY <1>0, <1>1, <2>2 DEF SessionInv, Behind, Counts
  <2> QED
    BY <1>1, <2>5, <2>6, <2>8, <2>9, LocalStep DEF SessionInv, IInv
<1>3. CASE Refused(s)
  BY <1>0, <1>3, RefusedStep DEF beginTransaction, Request
<1> QED
  BY <1>2, <1>3 DEF beginTransaction

LEMMA AutoStep ==
  ASSUME IInv, NEW s \in Session, runAutoCommit(s)
  PROVE  IInv'
<1>0. TypeOK /\ SessionInv(s) /\ ctx[s] \in Context /\ doing[s] = "RUN" /\ ~hasTransaction(s)
  BY DEF IInv, TypeOK, runAutoCommit
<1>1. UNCHANGED <<interrupts, resets, stopped, marking, late>>
  BY DEF runAutoCommit, connection, reader
<1>2. ASSUME NEW k \in Ktx, Begun(s, k),
             ctx' = [ctx EXCEPT ![s].currentTransaction = k],
             doing' = [doing EXCEPT ![s] = "execute"], UNCHANGED <<fsm, state, goal>>
      PROVE  IInv'
  <2>1. /\ ktx' \in [Ktx -> KernelTransaction]
        /\ Held(s)' = Held(s) \cup {k}
        /\ \A u \in Session \ {s} : Held(u)' = Held(u)
        /\ \A u \in Session : \A h \in Held(u) : ktx'[h] = ktx[h]
        /\ ~ktx'[k].success
    BY <1>0, <1>2, BegunHeld
  <2>2. /\ fsm[s] = "READY" /\ Held(s) = {} /\ ctx[s].currentTransaction = None
        /\ ~hasTransaction(s) /\ ~hasOpenStatement(s) /\ ~ctx[s].notice
        /\ marking[s] = None /\ s \notin late
    BY <1>0, Beginning
  <2>3. /\ ctx' \in [Session -> Context] /\ ctx'[s].currentTransaction = k
        /\ ctx'[s].currentResultHandle = None
        /\ ~ctx'[s].notice /\ \A u \in Session \ {s} : ctx'[u] = ctx[u]
    BY <1>0, <1>2, <2>2 DEF TypeOK, Context, hasOpenStatement
  <2>5. TypeOK'
    BY <1>0, <1>1, <1>2, <2>1, <2>3 DEF TypeOK
  <2>6. Elsewhere(s)
    BY <1>0, <1>1, <1>2, <2>1, <2>3 DEF Elsewhere, TypeOK
  <2>7. /\ doing'[s] = "execute" /\ Held(s)' = {k} /\ k # None
        /\ ~hasTransaction(s)' /\ fsm'[s] = "READY"
    BY <1>0, <1>2, <2>1, <2>2, NoneAssumption DEF TypeOK, hasTransaction
  <2>8. Holds(s)' /\ Underway(s)' /\ Successes(s)'
    BY <2>1, <2>3, <2>7 DEF Holds, Underway, Successes, Request, hasOpenStatement
  <2>9. Behind(s)' /\ Counts(s)'
    BY <1>0, <1>1, <2>2 DEF SessionInv, Behind, Counts
  <2> QED
    BY <1>1, <2>5, <2>6, <2>8, <2>9, LocalStep DEF SessionInv, IInv
<1>3. CASE Refused(s)
  BY <1>0, <1>3, RefusedStep DEF runAutoCommit, Request
<1> QED
  BY <1>2, <1>3 DEF runAutoCommit

\* A request or a statement under way, with a transaction or without.
LEMMA Running ==
  ASSUME IInv, NEW s \in Session, Executing(s) \/ doing[s] \in {"PULL", "COMMIT", "ROLLBACK"}
  PROVE  /\ doing[s] \notin {"load", "close", "idle"} /\ ~ctx[s].notice /\ s \notin late
         /\ ctx[s].currentTransaction # None
         /\ Held(s) = {ctx[s].currentTransaction}
         /\ ctx[s].currentResultHandle \in {None, ctx[s].currentTransaction}
         /\ fsm[s] # "FAILED"
<1>0. TypeOK /\ SessionInv(s) /\ fsm[s] \in Protocol
  BY DEF IInv, TypeOK, Protocol
<1>1. doing[s] \notin {"load", "close", "idle"} /\ ~ctx[s].notice /\ s \notin late
  BY <1>0 DEF SessionInv, Underway, Behind, Executing, Request
<1>2. /\ ctx[s].currentTransaction # None /\ fsm[s] # "FAILED"
      /\ ctx[s].currentResultHandle \in {None, ctx[s].currentTransaction}
  <2>1. CASE doing[s] = "execute"
    <3>1. fsm[s] # "FAILED"
      BY <1>0, <2>1 DEF SessionInv, Underway
    <3> QED
      BY <1>0, <2>1, <3>1 DEF SessionInv, Underway, hasOpenStatement
  <2>2. CASE doing[s] \in {"RUN", "PULL", "COMMIT", "ROLLBACK"} /\ (doing[s] = "RUN" => hasTransaction(s))
    <3>1. doing[s] \in Requests[fsm[s]] /\ Consistent(s)
      BY <1>0, <2>2 DEF SessionInv, Underway, Request
    <3>2. \/ doing[s] = "RUN" /\ fsm[s] \in {"READY", "TX_READY"}
          \/ doing[s] # "RUN" /\ fsm[s] \in {"STREAMING", "TX_STREAMING", "TX_READY"}
      BY <1>0, <2>2, <3>1 DEF Requests, Protocol
    <3> QED
      BY <1>1, <2>2, <3>1, <3>2 DEF Consistent, hasTransaction
  <2> QED
    BY <2>1, <2>2 DEF Executing
<1> QED
  BY <1>0, <1>1, <1>2 DEF SessionInv, Holds

\* A statement that fails, in a transaction of the client or in its own.
LEMMA FailsStep ==
  ASSUME IInv, NEW s \in Session, Executing(s) \/ doing[s] = "PULL", Fails(s),
         UNCHANGED <<connection, reader>>
  PROVE  IInv'
<1>0. TypeOK /\ SessionInv(s) /\ ctx[s] \in Context
  BY DEF IInv, TypeOK
<1>1. /\ doing[s] \notin {"load", "close", "idle"} /\ ~ctx[s].notice /\ s \notin late
      /\ ctx[s].currentTransaction # None /\ Held(s) = {ctx[s].currentTransaction}
      /\ fsm[s] # "FAILED" /\ ctx[s].currentTransaction \in Ktx
  BY <1>0, Running DEF Context
<1>2. UNCHANGED <<interrupts, resets, stopped, marking, late>>
  BY DEF connection, reader
<1> DEFINE k == ctx[s].currentTransaction
<1>3. CASE hasTransaction(s)
  <2>0. k \in Ktx
    BY <1>1
  <2>1. /\ ctx' = [ctx EXCEPT ![s].currentResultHandle = None]
        /\ fsm' = [fsm EXCEPT ![s] = "FAILED"] /\ doing' = [doing EXCEPT ![s] = "idle"]
        /\ ktx' = [ktx EXCEPT ![k] = Flagged(k, {"failure"})]
        /\ UNCHANGED <<state, goal>>
    BY <1>0, <1>3 DEF Fails, Becomes, TypeOK
  <2>2. /\ ktx' \in [Ktx -> KernelTransaction]
        /\ \A u \in Session : Held(u)' = Held(u)
        /\ \A h \in Ktx \ {k} : ktx'[h] = ktx[h]
        /\ ktx'[k].success <=> ktx[k].success
        /\ \A h \in Ktx : ktx[h].terminated => ktx'[h].terminated
    <3>1. "success" \notin {"failure"}
      OBVIOUS
    <3> QED
      BY <1>0, <2>0, <2>1, <3>1, HeldFlagged
  <2>3. /\ ctx' \in [Session -> Context] /\ \A u \in Session \ {s} : ctx'[u] = ctx[u]
        /\ ctx'[s].currentTransaction = k /\ ctx'[s].notice = ctx[s].notice
        /\ ctx'[s].currentResultHandle = None
    BY <1>0, <2>1 DEF TypeOK, Context
  <2>4. TypeOK'
    BY <1>0, <1>2, <2>1, <2>2, <2>3 DEF TypeOK
  <2>5. \A u \in Session \ {s} : k \notin Held(u) /\ Held(u) \subseteq Ktx
    BY <1>1, HeldApart DEF Held
  <2>6. Elsewhere(s)
    BY <1>0, <1>2, <2>1, <2>2, <2>3, <2>5 DEF Elsewhere, TypeOK
  <2>7. fsm'[s] = "FAILED" /\ doing'[s] = "idle"
    BY <1>0, <2>1 DEF TypeOK
  <2>8. Holds(s)' /\ Underway(s)'
    BY <1>1, <2>2, <2>3, <2>7 DEF Holds, Underway, Consistent, Request
  <2>9. Successes(s)' /\ Behind(s)' /\ Counts(s)'
    BY <1>0, <1>1, <1>2, <2>2, <2>7 DEF SessionInv, Successes, Behind, Counts
  <2> QED
    BY <1>2, <2>4, <2>6, <2>8, <2>9, LocalStep DEF SessionInv, IInv
<1>4. CASE ~hasTransaction(s)
  <2>1. /\ ctx' = [ctx EXCEPT ![s] = Left(s)]
        /\ closeTransaction(s, k, {"failure"}, "FAILED")
    BY <1>4 DEF Fails
  <2>2. /\ Left(s) \in Context /\ Left(s).currentTransaction = None
        /\ Left(s).currentResultHandle = None
    BY <1>0 DEF Left, Context
  <2>3. "success" \notin {"failure"} /\ "FAILED" \in Protocol
    BY DEF Protocol
  <2>4. marking[s] # None => s \in stopped \/ interrupts'[s] > 0
    BY <1>0, <1>2 DEF SessionInv, Behind
  <2>5. interrupts' \in [Session -> Nat] /\ interrupts'[s] <= interrupts[s]
    BY <1>2 DEF IInv
  <2>6. doing[s] \notin {"load", "close"} /\ Held(s) = {k} \ {None} /\ k \in Ktx \cup {None}
    BY <1>1
  <2> HIDE DEF k
  <2> QED
    BY <1>2, <2>1, <2>2, <2>3, <2>4, <2>5, <2>6, ClosingStep
<1> QED
  BY <1>3, <1>4

LEMMA StartStep ==
  ASSUME IInv, NEW s \in Session, startExecution(s)
  PROVE  IInv'
<1>0. TypeOK /\ SessionInv(s) /\ ctx[s] \in Context /\ Executing(s)
  BY DEF IInv, TypeOK, startExecution
<1>1. /\ doing[s] \notin {"load", "close", "idle"} /\ ~ctx[s].notice /\ s \notin late
      /\ ctx[s].currentTransaction # None /\ Held(s) = {ctx[s].currentTransaction}
      /\ fsm[s] # "FAILED"
  BY <1>0, Running
<1>2. UNCHANGED <<interrupts, resets, stopped, marking, late>>
  BY DEF startExecution, connection, reader
<1>3. ASSUME Becomes(s, IF hasTransaction(s) THEN "TX_STREAMING" ELSE "STREAMING"),
             ctx' = [ctx EXCEPT ![s].currentResultHandle = ctx[s].currentTransaction],
             UNCHANGED <<state, goal, ktx>>
      PROVE  IInv'
  <2>1. /\ fsm' = [fsm EXCEPT ![s] = IF hasTransaction(s) THEN "TX_STREAMING" ELSE "STREAMING"]
        /\ doing' = [doing EXCEPT ![s] = "idle"]
    BY <1>3 DEF Becomes
  <2>2. /\ ctx' \in [Session -> Context] /\ \A u \in Session \ {s} : ctx'[u] = ctx[u]
        /\ ctx'[s].currentTransaction = ctx[s].currentTransaction
        /\ ~ctx'[s].notice /\ ctx'[s].currentResultHandle = ctx[s].currentTransaction
    BY <1>0, <1>1, <1>3 DEF TypeOK, Context
  <2>3. TypeOK'
    BY <1>0, <1>2, <1>3, <2>1, <2>2 DEF TypeOK
  <2>4. Elsewhere(s)
    BY <1>0, <1>2, <1>3, <2>1, <2>2 DEF Elsewhere, TypeOK, Held
  <2>5. /\ fsm'[s] = (IF hasTransaction(s) THEN "TX_STREAMING" ELSE "STREAMING")
        /\ doing'[s] = "idle" /\ Held(s)' = Held(s) /\ state' = state
    BY <1>0, <1>3, <2>1 DEF TypeOK, Held
  <2>6. Holds(s)' /\ Underway(s)'
    BY <1>1, <2>2, <2>5 DEF Holds, Underway, Consistent, Request, hasTransaction, hasOpenStatement
  <2>7. Successes(s)' /\ Behind(s)' /\ Counts(s)'
    BY <1>0, <1>1, <1>2, <1>3, <2>5 DEF SessionInv, Successes, Behind, Counts
  <2> QED
    BY <1>2, <2>3, <2>4, <2>6, <2>7, LocalStep DEF SessionInv, IInv
<1>4. CASE Fails(s)
  BY <1>0, <1>4, FailsStep DEF startExecution
<1> QED
  BY <1>3, <1>4 DEF startExecution

LEMMA PeriodicStep ==
  ASSUME IInv, NEW s \in Session, runPeriodic(s)
  PROVE  IInv'
<1>0. TypeOK /\ SessionInv(s) /\ ctx[s] \in Context /\ doing[s] = "PERIODIC"
  BY DEF IInv, TypeOK, runPeriodic
<1>1. UNCHANGED <<interrupts, resets, stopped, marking, late>>
  BY DEF runPeriodic, connection, reader
<1>2. ASSUME ~hasTransaction(s), NEW k \in Ktx, Begun(s, k),
             doing' = [doing EXCEPT ![s] = "load"], UNCHANGED <<fsm, state, ctx, goal>>
      PROVE  IInv'
  <2>1. /\ ktx' \in [Ktx -> KernelTransaction]
        /\ Held(s)' = Held(s) \cup {k}
        /\ \A u \in Session \ {s} : Held(u)' = Held(u)
        /\ \A u \in Session : \A h \in Held(u) : ktx'[h] = ktx[h]
        /\ ~ktx'[k].success
    BY <1>0, <1>2, BegunHeld
  <2>2. /\ fsm[s] = "READY" /\ Held(s) = {} /\ ctx[s].currentTransaction = None
        /\ ~hasTransaction(s) /\ ~hasOpenStatement(s) /\ ~ctx[s].notice
        /\ marking[s] = None /\ s \notin late
    BY <1>0, <1>2, Beginning
  <2>5. TypeOK'
    BY <1>0, <1>1, <1>2, <2>1 DEF TypeOK
  <2>6. Elsewhere(s)
    BY <1>0, <1>1, <1>2, <2>1 DEF Elsewhere, TypeOK
  <2>7. doing'[s] = "load" /\ Held(s)' = {k}
    BY <1>0, <1>2, <2>1, <2>2 DEF TypeOK
  <2>8. Holds(s)' /\ Underway(s)' /\ Successes(s)'
    BY <1>2, <2>1, <2>2, <2>7 DEF Holds, Underway, Successes, Request, hasTransaction
  <2>9. Behind(s)' /\ Counts(s)'
    BY <1>0, <1>1, <2>2 DEF SessionInv, Behind, Counts
  <2> QED
    BY <1>1, <2>5, <2>6, <2>8, <2>9, LocalStep DEF SessionInv, IInv
<1>3. CASE Refused(s)
  BY <1>0, <1>3, RefusedStep DEF runPeriodic, Request
<1> QED
  BY <1>2, <1>3 DEF runPeriodic

\* Who has read a transaction that another session holds is known to be late.
LEMMA LateAlready ==
  ASSUME IInv, NEW s \in Session, NEW k \in Held(s)
  PROVE  \A u \in Session \ {s} : marking[u] = k => u \in late
<1> SUFFICES ASSUME NEW u \in Session \ {s}, marking[u] = k, u \notin late PROVE FALSE
  OBVIOUS
<1>1. k \in Held(u)
  BY NoneAssumption DEF IInv, SessionInv, Behind, Held
<1> QED
  BY <1>1, HeldApart

\* What the context of a periodic commit is, in each of its ends.
LEMMA StartedStep ==
  ASSUME IInv, NEW s \in Session, doing[s] = "load", NEW k \in Held(s),
         NEW protocol, NEW transaction, NEW result, Started(s, protocol, transaction, result),
         UNCHANGED <<state, goal, interrupts, resets, stopped, marking, late>>,
         ktx' \in [Ktx -> KernelTransaction], \A h \in Ktx \ {k} : ktx'[h] = ktx[h],
         ~ktx'[k].success,
         \/ protocol = "STREAMING" /\ transaction = k /\ result = k /\ ktx'[k].owner = s
         \/ /\ protocol = "FAILED"
            /\ \/ transaction = k /\ result = None /\ ktx'[k].owner = s
               \/ transaction = None /\ result = k /\ ktx'[k].owner = s /\ ktx'[k].terminated
               \/ transaction = None /\ result = None /\ ktx'[k].owner = None
  PROVE  IInv'
<1>0. /\ TypeOK /\ SessionInv(s) /\ ctx[s] \in Context /\ k \in Ktx
      /\ Held(s) = {k} /\ k # None /\ s # None
  <2>1. SessionInv(s) /\ k \in Ktx
    BY DEF IInv, Held
  <2>2. Held(s) = {k}
    BY <2>1 DEF SessionInv, Holds
  <2> QED
    BY <2>1, <2>2, NoneAssumption DEF IInv, TypeOK
<1>1. marking[s] = None /\ s \notin late /\ ~ctx[s].notice /\ ~hasTransaction(s)
  BY <1>0 DEF SessionInv, Behind, Underway
<1>2. /\ fsm' = [fsm EXCEPT ![s] = protocol] /\ doing' = [doing EXCEPT ![s] = "idle"]
      /\ ctx' = [ctx EXCEPT ![s].currentTransaction = transaction,
                            ![s].currentResultHandle = result]
  BY DEF Started, Becomes
<1>3. transaction \in Ktx \cup {None} /\ result \in Ktx \cup {None}
  BY <1>0
<1>4. /\ ctx' \in [Session -> Context] /\ \A u \in Session \ {s} : ctx'[u] = ctx[u]
      /\ ctx'[s].currentTransaction = transaction /\ ctx'[s].currentResultHandle = result
      /\ ~ctx'[s].notice
  BY <1>0, <1>1, <1>2, <1>3 DEF TypeOK, Context
<1>5. TypeOK'
  BY <1>0, <1>2, <1>4 DEF TypeOK
<1>6. \A u \in Session \ {s} : k \notin Held(u) /\ Held(u) \subseteq Ktx /\ Held(u)' = Held(u)
  <2>1. \A u \in Session \ {s} : k \notin Held(u) /\ Held(u) \subseteq Ktx
    BY <1>0, HeldApart DEF Held
  <2>2. ASSUME NEW u \in Session \ {s} PROVE ktx'[k].owner # u /\ ktx[k].owner # u
    BY <1>0, <2>1, <2>2, NoneAssumption DEF Held
  <2> QED
    BY <2>1, <2>2 DEF Held
<1>7. Elsewhere(s)
  BY <1>0, <1>2, <1>4, <1>6 DEF Elsewhere, TypeOK
<1>8. /\ Held(s)' = {transaction, result} \ {None}
      /\ fsm'[s] = protocol /\ doing'[s] = "idle" /\ state'[s] = state[s]
  <2>1. fsm'[s] = protocol /\ doing'[s] = "idle" /\ state'[s] = state[s]
    BY <1>0, <1>2 DEF TypeOK
  <2>2. \A h \in Ktx : ktx'[h].owner = s <=> h = k /\ ktx'[k].owner = s
    BY <1>0 DEF Held
  <2>3. Held(s)' = IF ktx'[k].owner = s THEN {k} ELSE {}
    BY <1>0, <2>2 DEF Held
  <2> QED
    BY <1>0, <2>1, <2>3
<1>9. Holds(s)' /\ Underway(s)'
  BY <1>0, <1>1, <1>4, <1>8
  DEF Holds, Underway, Consistent, Request, hasTransaction, hasOpenStatement
<1>10. Successes(s)' /\ Behind(s)' /\ Counts(s)'
  <2>1. Held(s)' \subseteq {k}
    BY <1>0, <1>8
  <2> QED
    BY <1>0, <1>1, <2>1 DEF SessionInv, Successes, Behind, Counts
<1> QED
  BY <1>5, <1>7, <1>9, <1>10, LocalStep DEF SessionInv, IInv

LEMMA StartPeriodicStep ==
  ASSUME IInv, NEW s \in Session, NEW k \in Ktx, startPeriodic(s, k)
  PROVE  IInv'
<1>0. /\ TypeOK /\ SessionInv(s) /\ doing[s] = "load" /\ k \in Held(s)
      /\ ktx \in [Ktx -> KernelTransaction] /\ ktx[k].owner = s
      /\ UNCHANGED <<state, goal, interrupts, resets, stopped, marking>>
  BY DEF IInv, TypeOK, startPeriodic, Held, connection
<1>1. marking[s] = None /\ ~ktx[k].success
  BY <1>0 DEF SessionInv, Behind, Successes
<1>2. late \cup {u \in Session : marking[u] = k} = late
  BY <1>0, <1>1, LateAlready, NoneAssumption
<1>3. late' = late
  BY <1>2 DEF startPeriodic
<1>4. CASE UNCHANGED ktx /\ ktx[k].terminated /\ Started(s, "FAILED", None, k)
  BY <1>0, <1>1, <1>3, <1>4, StartedStep
<1>5. CASE UNCHANGED ktx /\ Started(s, "STREAMING", k, k)
  BY <1>0, <1>1, <1>3, <1>5, StartedStep
<1>6. ASSUME ktx' = [ktx EXCEPT ![k] = [NoKtx EXCEPT !.owner = s]],
             Started(s, "STREAMING", k, k) \/ Started(s, "FAILED", k, None)
      PROVE  IInv'
  <2>1. /\ ktx' \in [Ktx -> KernelTransaction] /\ ktx'[k].owner = s /\ ~ktx'[k].success
        /\ \A h \in Ktx \ {k} : ktx'[h] = ktx[h]
    BY <1>0, <1>6, NoKtxType
  <2>2. CASE Started(s, "STREAMING", k, k)
    BY <1>0, <1>3, <2>1, <2>2, StartedStep
  <2>3. CASE Started(s, "FAILED", k, None)
    BY <1>0, <1>3, <2>1, <2>3, StartedStep
  <2> QED
    BY <1>6, <2>2, <2>3
<1>7. CASE ktx' = [ktx EXCEPT ![k] = NoKtx] /\ Started(s, "FAILED", None, None)
  <2>1. /\ ktx' \in [Ktx -> KernelTransaction] /\ ktx'[k].owner = None /\ ~ktx'[k].success
        /\ \A h \in Ktx \ {k} : ktx'[h] = ktx[h]
    BY <1>0, <1>7, NoKtxType
  <2> QED
    BY <1>0, <1>3, <1>7, <2>1, StartedStep
<1> QED
  BY <1>4, <1>5, <1>6, <1>7 DEF startPeriodic

LEMMA StreamStep ==
  ASSUME IInv, NEW s \in Session, streamResult(s)
  PROVE  IInv'
<1>0. TypeOK /\ SessionInv(s) /\ ctx[s] \in Context /\ doing[s] = "PULL"
  BY DEF IInv, TypeOK, streamResult
<1>1. /\ ~ctx[s].notice /\ s \notin late /\ ctx[s].currentTransaction # None
      /\ Held(s) = {ctx[s].currentTransaction} /\ fsm[s] # "FAILED"
  BY <1>0, Running
<1>2. UNCHANGED <<interrupts, resets, stopped, marking, late>> /\ UNCHANGED reader
  BY DEF streamResult, connection, reader
<1>3. ASSUME hasTransaction(s), Becomes(s, "TX_READY"),
             ctx' = [ctx EXCEPT ![s].currentResultHandle = None],
             UNCHANGED <<state, goal, ktx>>
      PROVE  IInv'
  <2>1. fsm' = [fsm EXCEPT ![s] = "TX_READY"] /\ doing' = [doing EXCEPT ![s] = "idle"]
    BY <1>3 DEF Becomes
  <2>2. /\ ctx' \in [Session -> Context] /\ \A u \in Session \ {s} : ctx'[u] = ctx[u]
        /\ ctx'[s].currentTransaction = ctx[s].currentTransaction /\ ~ctx'[s].notice
        /\ ctx'[s].currentResultHandle = None
    BY <1>0, <1>1, <1>3 DEF TypeOK, Context
  <2>3. TypeOK'
    BY <1>0, <1>2, <1>3, <2>1, <2>2 DEF TypeOK
  <2>4. Elsewhere(s)
    BY <1>0, <1>2, <1>3, <2>1, <2>2 DEF Elsewhere, TypeOK, Held
  <2>5. fsm'[s] = "TX_READY" /\ doing'[s] = "idle" /\ Held(s)' = Held(s) /\ state' = state
    BY <1>0, <1>3, <2>1 DEF TypeOK, Held
  <2>6. Holds(s)' /\ Underway(s)'
    BY <1>1, <1>3, <2>2, <2>5 DEF Holds, Underway, Consistent, Request, hasTransaction
  <2>7. Successes(s)' /\ Behind(s)' /\ Counts(s)'
    BY <1>0, <1>1, <1>2, <1>3, <2>5 DEF SessionInv, Successes, Behind, Counts
  <2> QED
    BY <1>2, <2>3, <2>4, <2>6, <2>7, LocalStep DEF SessionInv, IInv
<1> DEFINE k == ctx[s].currentTransaction
<1>4. ASSUME ctx' = [ctx EXCEPT ![s] = Left(s)], closeTransaction(s, k, {"success"}, "READY")
      PROVE  IInv'
  <2>1. /\ Left(s) \in Context /\ Left(s).currentTransaction = None
        /\ Left(s).currentResultHandle = None /\ ~Left(s).notice
    BY <1>0, <1>1 DEF Left, Context
  <2>2. marking[s] # None => s \in stopped \/ interrupts'[s] > 0
    BY <1>0, <1>2 DEF SessionInv, Behind
  <2>3. interrupts' \in [Session -> Nat] /\ interrupts'[s] <= interrupts[s]
    BY <1>2 DEF IInv
  <2>4. /\ doing[s] \notin {"load", "close"} /\ "READY" \in Protocol
        /\ Held(s) = {k} \ {None} /\ k \in Ktx \cup {None}
    BY <1>0, <1>1 DEF Protocol, Context
  <2> HIDE DEF k
  <2> QED
    BY <1>1, <1>2, <1>4, <2>1, <2>2, <2>3, <2>4, ClosingStep
<1>5. CASE Fails(s)
  BY <1>0, <1>5, FailsStep DEF streamResult
<1> QED
  BY <1>3, <1>4, <1>5 DEF streamResult

LEMMA CommitOrRollbackStep ==
  ASSUME IInv, NEW s \in Session, commitOrRollback(s)
  PROVE  IInv'
<1> DEFINE flags == {IF doing[s] = "COMMIT" THEN "success" ELSE "failure"}
           k == ctx[s].currentTransaction
<1>0. TypeOK /\ SessionInv(s) /\ ctx[s] \in Context /\ doing[s] \in {"COMMIT", "ROLLBACK"}
  BY DEF IInv, TypeOK, commitOrRollback
<1>1. ~ctx[s].notice /\ fsm[s] # "FAILED"
  BY <1>0, Running
<1>2. /\ UNCHANGED <<interrupts, resets, stopped, reader>>
      /\ ctx' = [ctx EXCEPT ![s] = Left(s)] /\ closeTransaction(s, k, flags, "READY")
  BY DEF commitOrRollback, connection
<1>3. /\ Left(s) \in Context /\ Left(s).currentTransaction = None
      /\ Left(s).currentResultHandle = None /\ ~Left(s).notice
  BY <1>0, <1>1 DEF Left, Context
<1>4. marking[s] # None => s \in stopped \/ interrupts'[s] > 0
  BY <1>0, <1>2 DEF SessionInv, Behind
<1>5. interrupts' \in [Session -> Nat] /\ interrupts'[s] <= interrupts[s]
  BY <1>2 DEF IInv
<1>6. /\ doing[s] \notin {"load", "close"} /\ "READY" \in Protocol
      /\ Held(s) = {k} \ {None} /\ k \in Ktx \cup {None}
  BY <1>0, Running DEF Protocol, Context
<1> HIDE DEF flags, k
<1> QED
  BY <1>1, <1>2, <1>3, <1>4, <1>5, <1>6, ClosingStep

-----------------------------------------------------------------------------
(* The close of a transaction. *)

LEMMA ClosedStep ==
  ASSUME IInv, NEW s \in Session, NEW k \in Ktx, Closed(s, k)
  PROVE  IInv'
<1>0. /\ TypeOK /\ SessionInv(s) /\ ctx[s] \in Context /\ doing[s] = "close"
      /\ k \in Held(s) /\ k # None
  BY NoneAssumption DEF IInv, TypeOK, Closed
<1>1. Held(s) = {k} /\ ctx[s].currentTransaction = None /\ ~hasOpenStatement(s) /\ s \notin late
  BY <1>0 DEF SessionInv, Holds, Underway, Behind
<1>2. PICK outcome \in Outcomes(k) :
        /\ Becomes(s, IF outcome \in {"committed", "undone"} THEN goal[s] ELSE "FAILED")
        /\ state' = [state EXCEPT ![s] = IF outcome = "terminated" THEN @ ELSE "AUTO_COMMIT"]
  BY DEF Closed
<1>3. /\ goal' = [goal EXCEPT ![s] = "READY"] /\ ktx' = [ktx EXCEPT ![k] = NoKtx]
      /\ late' = late \cup {u \in Session : marking[u] = k}
      /\ UNCHANGED <<ctx, interrupts, resets, stopped, marking>>
  BY DEF Closed, connection
<1> DEFINE next == IF outcome \in {"committed", "undone"} THEN goal[s] ELSE "FAILED"
           then == IF outcome = "terminated" THEN state[s] ELSE "AUTO_COMMIT"
<1>4. /\ fsm' = [fsm EXCEPT ![s] = next] /\ doing' = [doing EXCEPT ![s] = "idle"]
      /\ state' = [state EXCEPT ![s] = then]
  BY <1>2 DEF Becomes
<1>5. /\ outcome \in {"undone", "terminated", "failed", "committed"}
      /\ ktx[k].success <=> outcome # "undone"
  BY <1>2 DEF Outcomes
<1>6. next \in Protocol /\ then \in {"AUTO_COMMIT", "EXPLICIT_TRANSACTION"}
  BY <1>0 DEF TypeOK, Protocol
<1>7. \/ next = "FAILED" /\ ~ctx[s].notice
      \/ next \in {"READY", "CLOSED", "FAILED"} /\ then = "AUTO_COMMIT"
      \/ ctx[s].notice /\ then = "AUTO_COMMIT"
  <2>1. CASE ktx[k].success
    <3>1. goal[s] = "READY" /\ ~ctx[s].notice
      BY <1>0, <2>1 DEF SessionInv, Successes
    <3> QED
      BY <1>5, <2>1, <3>1
  <2>2. CASE ~ktx[k].success
    <3>1. outcome = "undone" /\ (goal[s] \in {"READY", "FAILED", "CLOSED"} \/ ctx[s].notice)
      BY <1>0, <1>5, <2>2 DEF SessionInv, Underway
    <3> QED
      BY <3>1
  <2> QED
    BY <2>1, <2>2
<1> HIDE DEF next, then
<1>8. /\ ktx' \in [Ktx -> KernelTransaction] /\ ktx'[k].owner = None
      /\ \A h \in Ktx \ {k} : ktx'[h] = ktx[h]
  <2>1. ktx \in [Ktx -> KernelTransaction] /\ NoKtx \in KernelTransaction /\ NoKtx.owner = None
    BY <1>0, NoKtxType DEF TypeOK
  <2> QED
    BY <1>3, <2>1
<1>9. /\ Held(s)' = {} /\ \A u \in Session \ {s} : k \notin Held(u) /\ Held(u)' = Held(u)
  <2>1. \A u \in Session \ {s} : k \notin Held(u)
    BY <1>1, HeldApart
  <2>2. s # None
    BY NoneAssumption
  <2>3. ASSUME NEW u \in Session \ {s} PROVE Held(u)' = Held(u)
    <3>1. u # None /\ k \notin Held(u)
      BY <2>1, NoneAssumption
    <3> QED
      BY <1>8, <3>1 DEF Held
  <2> QED
    BY <1>1, <1>8, <2>1, <2>2, <2>3 DEF Held
<1>10. \A u \in Session \ {s} : u \in late' <=> u \in late
  BY <1>0, <1>3, LateAlready
<1>11. TypeOK'
  BY <1>0, <1>3, <1>4, <1>6, <1>8 DEF TypeOK, Protocol
<1>12. \A u \in Session \ {s} : \A h \in Held(u) : ktx'[h] = ktx[h]
  BY <1>8, <1>9 DEF Held
<1>13. Elsewhere(s)
  BY <1>0, <1>3, <1>4, <1>9, <1>10, <1>12 DEF Elsewhere, TypeOK
<1>14. fsm'[s] = next /\ doing'[s] = "idle" /\ state'[s] = then
  BY <1>0, <1>4 DEF TypeOK
<1>15. Holds(s)'
  BY <1>1, <1>3, <1>9, <1>14 DEF Holds, hasOpenStatement
<1>16. Underway(s)'
  BY <1>1, <1>3, <1>6, <1>7, <1>9, <1>14
  DEF Underway, Consistent, Request, Protocol, hasTransaction, hasOpenStatement
<1>17. Successes(s)'
  BY <1>9 DEF Successes
<1>18. Behind(s)' /\ Counts(s)'
  BY <1>0, <1>1, <1>3, <1>9, <1>14 DEF SessionInv, Behind, Counts
<1> QED
  BY <1>3, <1>11, <1>13, <1>15, <1>16, <1>17, <1>18, LocalStep DEF SessionInv, IInv

-----------------------------------------------------------------------------
(* RESET, the end of a connection, and terminations. *)

\* A reset closes what an idle session holds, without success.
LEMMA ResettingStep ==
  ASSUME IInv, NEW s \in Session, doing[s] = "idle", NEW after \in Protocol, NEW notice \in BOOLEAN,
         reset(s, after), ctx' = [ctx EXCEPT ![s] = [Left(s) EXCEPT !.notice = notice]],
         after \in {"READY", "CLOSED"} \/ notice,
         marking[s] # None => s \in stopped \/ interrupts'[s] > 0,
         interrupts' \in [Session -> Nat], interrupts'[s] <= interrupts[s],
         \A u \in Session \ {s} : interrupts'[u] = interrupts[u],
         UNCHANGED <<resets, stopped, reader>>
  PROVE  IInv'
<1> DEFINE flags == {"failure"} \cup IF hasOpenStatement(s) THEN {"terminated"} ELSE {}
           c == [Left(s) EXCEPT !.notice = notice]
           k == Last(s)
<1>1. closeTransaction(s, k, flags, after)
  BY DEF reset
<1>2. "success" \in flags => after = "READY" /\ fsm[s] # "FAILED" /\ ~c.notice
  OBVIOUS
<1>3. /\ c \in Context /\ c.currentTransaction = None /\ c.currentResultHandle = None
      /\ c.notice = notice
  BY DEF IInv, TypeOK, Left, Context
<1>4. ctx' = [ctx EXCEPT ![s] = c]
  OBVIOUS
<1>5. after \in {"READY", "FAILED", "CLOSED"} \/ c.notice
  BY <1>3
<1>6. /\ doing[s] \notin {"load", "close"}
      /\ Held(s) = {k} \ {None} /\ k \in Ktx \cup {None}
  <2>1. Consistent(s) /\ ctx[s] \in Context
    BY DEF IInv, TypeOK, SessionInv, Underway
  <2>2. Held(s) = {k} \ {None}
    BY <2>1 DEF Consistent, Last
  <2> QED
    BY <2>1, <2>2 DEF Last, Context
<1> HIDE DEF flags, c, k
<1>7. \A g \in Ktx \cup {None}, d \in Context :
        /\ Held(s) = {g} \ {None} /\ closeTransaction(s, g, flags, after)
        /\ ctx' = [ctx EXCEPT ![s] = d]
        /\ d.currentTransaction = None /\ d.currentResultHandle = None
        /\ "success" \in flags => after = "READY" /\ fsm[s] # "FAILED" /\ ~d.notice
        /\ after \in {"READY", "FAILED", "CLOSED"} \/ d.notice
        => IInv'
  BY <1>6, ClosingStep
<1> QED
  BY <1>1, <1>2, <1>3, <1>4, <1>5, <1>6, <1>7

\* Left as it is, the context keeps its notice.
LEMMA LeftNotice ==
  ASSUME TypeOK, NEW s \in Session
  PROVE  Left(s) = [Left(s) EXCEPT !.notice = ctx[s].notice] /\ ctx[s].notice \in BOOLEAN
BY DEF TypeOK, Left, Context

LEMMA ResetStep ==
  ASSUME IInv, NEW s \in Session, Reset(s)
  PROVE  IInv'
<1>0. TypeOK /\ SessionInv(s) /\ interrupts \in [Session -> Nat]
  BY DEF IInv
<1>1. /\ doing[s] = "idle" /\ interrupts[s] > (IF marking[s] = None THEN 0 ELSE 1)
      /\ interrupts' = [interrupts EXCEPT ![s] = @ - 1]
      /\ UNCHANGED <<resets, stopped, reader>>
  BY DEF Reset, Enqueued
<1>2. /\ interrupts' \in [Session -> Nat] /\ interrupts'[s] = interrupts[s] - 1
      /\ \A u \in Session \ {s} : interrupts'[u] = interrupts[u]
      /\ marking[s] # None => interrupts'[s] > 0
  BY <1>0, <1>1
<1>3. CASE interrupts[s] = 1
  <2>1. ctx' = [ctx EXCEPT ![s] = Left(s)] /\ reset(s, "READY")
    BY <1>3 DEF Reset
  <2>2. ctx' = [ctx EXCEPT ![s] = [Left(s) EXCEPT !.notice = ctx[s].notice]]
    BY <1>0, <2>1, LeftNotice
  <2>3. "READY" \in Protocol /\ ctx[s].notice \in BOOLEAN /\ interrupts'[s] <= interrupts[s]
    BY <1>0, <1>2, LeftNotice DEF Protocol
  <2> QED
    BY <1>1, <1>2, <2>1, <2>2, <2>3, ResettingStep
<1>4. CASE interrupts[s] # 1
  <2>1. UNCHANGED <<fsm, state, ctx, doing, goal, ktx>> /\ UNCHANGED <<resets, stopped, marking, late>>
    BY <1>1, <1>4 DEF Reset, worker, reader
  <2>2. TypeOK'
    BY <1>0, <1>2, <2>1, ResetsAssumption DEF TypeOK
  <2>3. Elsewhere(s)
    BY <1>2, <2>1 DEF Elsewhere, Held
  <2>4. Held(s)' = Held(s)
    BY <2>1 DEF Held
  <2>5. Holds(s)' /\ Underway(s)' /\ Successes(s)'
    BY <1>0, <2>1, <2>4
    DEF SessionInv, Holds, Underway, Successes, Consistent, hasTransaction, hasOpenStatement
  <2>6. Behind(s)'
    BY <1>0, <1>2, <2>1, <2>4 DEF SessionInv, Behind, hasTransaction
  <2>7. Counts(s)'
    BY <1>0, <1>2, <2>1, ResetsAssumption DEF SessionInv, Counts, IInv
  <2> QED
    BY <1>2, <2>1, <2>2, <2>3, <2>5, <2>6, <2>7, LocalStep DEF SessionInv, IInv
<1> QED
  BY <1>3, <1>4

LEMMA CloseStep ==
  ASSUME IInv, NEW s \in Session, Close(s)
  PROVE  IInv'
<1>0. TypeOK /\ SessionInv(s)
  BY DEF IInv
<1>1. /\ doing[s] = "idle" /\ ctx' = [ctx EXCEPT ![s] = Left(s)] /\ reset(s, "CLOSED")
      /\ UNCHANGED <<interrupts, resets, stopped, reader>>
  BY DEF Close, connection
<1>2. ctx' = [ctx EXCEPT ![s] = [Left(s) EXCEPT !.notice = ctx[s].notice]]
  BY <1>0, <1>1, LeftNotice
<1>3. "CLOSED" \in Protocol /\ ctx[s].notice \in BOOLEAN
  BY <1>0, LeftNotice DEF Protocol
<1>4. /\ marking[s] # None => s \in stopped \/ interrupts'[s] > 0
      /\ interrupts' \in [Session -> Nat] /\ interrupts'[s] <= interrupts[s]
  BY <1>0, <1>1 DEF SessionInv, Behind, IInv
<1> QED
  BY <1>1, <1>2, <1>3, <1>4, ResettingStep

LEMMA ValidateStep ==
  ASSUME IInv, NEW s \in Session, validateTransaction(s)
  PROVE  IInv'
<1>0. TypeOK /\ SessionInv(s) /\ fsm[s] \in Protocol
  BY DEF IInv, TypeOK, Protocol
<1>1. /\ doing[s] = "idle" /\ reset(s, fsm[s])
      /\ ctx' = [ctx EXCEPT ![s] = [Left(s) EXCEPT !.notice = TRUE]]
      /\ UNCHANGED <<interrupts, resets, stopped, reader>>
  BY DEF validateTransaction, connection
<1>2. /\ marking[s] # None => s \in stopped \/ interrupts'[s] > 0
      /\ interrupts' \in [Session -> Nat] /\ interrupts'[s] <= interrupts[s]
  BY <1>0, <1>1 DEF SessionInv, Behind, IInv
<1> QED
  BY <1>0, <1>1, <1>2, ResettingStep

\* The transaction the reading thread reads is held, if there is one.
LEMMA ReadHeld ==
  ASSUME IInv, NEW s \in Session, ctx[s].currentTransaction # None
  PROVE  /\ ctx[s].currentTransaction \in Held(s) /\ doing[s] \notin {"load", "close"}
         /\ doing[s] \in {"BEGIN", "RUN", "PERIODIC"} => hasTransaction(s)
<1>1. SessionInv(s)
  BY DEF IInv
<1>2. doing[s] \notin {"load", "close"}
  BY <1>1 DEF SessionInv, Holds
<1>3. ctx[s].currentTransaction \in Held(s)
  BY <1>1, <1>2 DEF SessionInv, Holds
<1> QED
  BY <1>2, <1>3, Beginning

LEMMA InterruptStep ==
  ASSUME IInv, NEW s \in Session, Interrupt(s) \/ Stop(s)
  PROVE  IInv'
<1> DEFINE k == ctx[s].currentTransaction
<1>0. /\ TypeOK /\ SessionInv(s) /\ ctx[s] \in Context /\ s \notin late
      /\ interrupts \in [Session -> Nat] /\ resets \in [Session -> Nat]
  BY DEF IInv, TypeOK, SessionInv, Behind, Interrupt, Stop
<1>1. /\ UNCHANGED <<fsm, state, ctx, doing, goal, ktx, late>>
      /\ marking' = [marking EXCEPT ![s] = k]
      /\ \/ /\ resets[s] > 0 /\ resets' = [resets EXCEPT ![s] = @ - 1]
            /\ interrupts' = [interrupts EXCEPT ![s] = @ + 1] /\ stopped' = stopped
         \/ /\ stopped' = stopped \cup {s} /\ resets' = [resets EXCEPT ![s] = 0]
            /\ interrupts' = interrupts
  BY DEF Interrupt, Stop, worker
<1>2. /\ interrupts' \in [Session -> Nat] /\ resets' \in [Session -> Nat]
      /\ \A u \in Session \ {s} : interrupts'[u] = interrupts[u] /\ resets'[u] = resets[u]
      /\ interrupts'[s] + resets'[s] <= interrupts[s] + resets[s]
      /\ s \in stopped' \/ interrupts'[s] > 0
      /\ stopped' \subseteq stopped \cup {s} /\ stopped \subseteq stopped'
  BY <1>0, <1>1
<1>3. Counts(s)'
  BY <1>0, <1>2, ResetsAssumption DEF SessionInv, Counts
<1>4. TypeOK'
  <2>1. \A u \in Session : {interrupts[u], resets[u]}' \subseteq 0 .. MaxResets[u]
    BY <1>0, <1>2, <1>3, ResetsAssumption DEF TypeOK, Counts
  <2> QED
    BY <1>0, <1>1, <1>2, <2>1 DEF TypeOK, Context
<1>5. Elsewhere(s)
  BY <1>0, <1>1, <1>2 DEF Elsewhere, TypeOK, Held
<1>6. Held(s)' = Held(s) /\ marking'[s] = k
  BY <1>0, <1>1 DEF Held, TypeOK
<1>7. Holds(s)' /\ Underway(s)' /\ Successes(s)'
  BY <1>0, <1>1, <1>6
  DEF SessionInv, Holds, Underway, Successes, Consistent, hasTransaction, hasOpenStatement
<1>8. Behind(s)'
  BY <1>0, <1>1, <1>2, <1>6, ReadHeld DEF Behind, hasTransaction
<1> QED
  BY <1>2, <1>3, <1>4, <1>5, <1>7, <1>8, LocalStep DEF SessionInv

\* A termination changes what no invariant speaks of.
LEMMA TerminatedStep ==
  ASSUME TypeOK, NEW k \in Ktx, ktx' = [ktx EXCEPT ![k] = Terminated(k)]
  PROVE  /\ ktx' \in [Ktx -> KernelTransaction]
         /\ \A u \in Session : Held(u)' = Held(u)
         /\ \A u \in Session : \A h \in Held(u) :
              ktx'[h].success = ktx[h].success /\ (ktx[h].terminated => ktx'[h].terminated)
<1> DEFINE flags == {"failure", "terminated"}
<1>1. ktx \in [Ktx -> KernelTransaction]
  BY DEF TypeOK
<1>2. CASE ktx[k].owner = None
  BY <1>1, <1>2 DEF Terminated, Held
<1>3. CASE ktx[k].owner # None
  <2>1. ktx' = [ktx EXCEPT ![k] = Flagged(k, flags)] /\ "success" \notin flags
    BY <1>3 DEF Terminated
  <2> HIDE DEF flags
  <2>2. /\ ktx' \in [Ktx -> KernelTransaction]
        /\ \A u \in Session : Held(u)' = Held(u)
        /\ \A h \in Ktx \ {k} : ktx'[h] = ktx[h]
        /\ ktx'[k].success <=> ktx[k].success
        /\ \A h \in Ktx : ktx[h].terminated => ktx'[h].terminated
    BY <2>1, HeldFlagged
  <2>3. ktx'[k].success = ktx[k].success
    BY <1>1, <2>2 DEF KernelTransaction
  <2> QED
    BY <2>2, <2>3 DEF Held
<1> QED
  BY <1>2, <1>3

LEMMA MarkStep ==
  ASSUME IInv, NEW s \in Session, Mark(s)
  PROVE  IInv'
<1>0. TypeOK /\ SessionInv(s) /\ marking[s] \in Ktx
  BY DEF IInv, TypeOK, Mark
<1>1. /\ ktx' = [ktx EXCEPT ![marking[s]] = Terminated(marking[s])]
      /\ marking' = [marking EXCEPT ![s] = None] /\ late' = late \ {s}
      /\ UNCHANGED <<fsm, state, ctx, doing, goal, interrupts, resets, stopped>>
  BY DEF Mark, worker, connection
<1>2. /\ ktx' \in [Ktx -> KernelTransaction]
      /\ \A u \in Session : Held(u)' = Held(u)
      /\ \A u \in Session : \A h \in Held(u) :
           ktx'[h].success = ktx[h].success /\ (ktx[h].terminated => ktx'[h].terminated)
  BY <1>0, <1>1, TerminatedStep
<1>3. TypeOK'
  BY <1>0, <1>1, <1>2 DEF TypeOK
<1>4. Elsewhere(s)
  BY <1>0, <1>1, <1>2 DEF Elsewhere, TypeOK
<1>5. marking'[s] = None /\ s \notin late'
  BY <1>0, <1>1 DEF TypeOK
<1>6. Holds(s)' /\ Underway(s)' /\ Successes(s)'
  <2>1. Consistent(s) => Consistent(s)'
    BY <1>1, <1>2, StillConsistent
  <2> QED
    BY <1>0, <1>1, <1>2, <2>1
    DEF SessionInv, Holds, Underway, Successes, hasTransaction, hasOpenStatement
<1>7. Behind(s)' /\ Counts(s)'
  BY <1>0, <1>1, <1>5 DEF SessionInv, Behind, Counts
<1> QED
  BY <1>1, <1>3, <1>4, <1>6, <1>7, LocalStep DEF SessionInv, IInv

LEMMA ExpireStep ==
  ASSUME IInv, NEW k \in Ktx, Expire(k)
  PROVE  IInv'
<1>0. TypeOK
  BY DEF IInv
<1>1. /\ ktx' = [ktx EXCEPT ![k] = Terminated(k)]
      /\ UNCHANGED <<fsm, state, ctx, doing, goal, interrupts, resets, stopped, marking, late>>
  BY DEF Expire, worker, connection, reader
<1>2. /\ ktx' \in [Ktx -> KernelTransaction]
      /\ \A u \in Session : Held(u)' = Held(u)
      /\ \A u \in Session : \A h \in Held(u) :
           ktx'[h].success = ktx[h].success /\ (ktx[h].terminated => ktx'[h].terminated)
  BY <1>0, <1>1, TerminatedStep
<1>3. TypeOK'
  BY <1>0, <1>1, <1>2 DEF TypeOK
<1>4. ASSUME NEW s \in Session PROVE SessionInv(s)'
  <2>1. SessionInv(s)
    BY DEF IInv
  <2>2. Holds(s)' /\ Underway(s)' /\ Successes(s)'
    <3>1. Consistent(s) => Consistent(s)'
      BY <1>1, <1>2, StillConsistent
    <3> QED
      BY <1>1, <1>2, <2>1, <3>1
      DEF SessionInv, Holds, Underway, Successes, hasTransaction, hasOpenStatement
  <2>3. Behind(s)' /\ Counts(s)'
    BY <1>1, <1>2, <2>1 DEF SessionInv, Behind, Counts, hasTransaction
  <2> QED
    BY <2>2, <2>3 DEF SessionInv
<1> QED
  BY <1>1, <1>3, <1>4 DEF IInv

-----------------------------------------------------------------------------
(* The theorems. *)

LEMMA InitIInv == Init => IInv
<1> SUFFICES ASSUME Init PROVE IInv
  OBVIOUS
<1>1. TypeOK
  BY NoKtxType, ResetsAssumption DEF Init, TypeOK, NoKtx, KernelTransaction, Context
<1>2. \A s \in Session : Held(s) = {}
  BY NoneAssumption DEF Init, Held, NoKtx
<1>3. ASSUME NEW s \in Session PROVE SessionInv(s)
  BY <1>2, ResetsAssumption DEF Init, SessionInv, Holds, Underway, Successes, Behind, Counts,
    Consistent, hasTransaction, hasOpenStatement, Request
<1> QED
  BY <1>1, <1>3, ResetsAssumption DEF IInv, Init

LEMMA NextIInv == IInv /\ [Next]_vars => IInv'
<1> SUFFICES ASSUME IInv, [Next]_vars PROVE IInv'
  OBVIOUS
<1>1. CASE UNCHANGED vars
  <2>1. /\ UNCHANGED <<fsm, state, ctx, doing, goal, ktx>>
        /\ UNCHANGED <<interrupts, resets, stopped, marking, late>>
    BY <1>1 DEF vars, worker, connection, reader
  <2>2. TypeOK'
    BY <2>1 DEF IInv, TypeOK
  <2>3. ASSUME NEW s \in Session PROVE SessionInv(s)'
    BY <2>1 DEF IInv, SessionInv, Holds, Underway, Successes, Behind, Counts, Consistent,
      hasTransaction, hasOpenStatement, Held
  <2> QED
    BY <2>1, <2>2, <2>3 DEF IInv
<1>2. ASSUME NEW s \in Session, Work(s) PROVE IInv'
  BY <1>2, BeginStep, AutoStep, StartStep, PeriodicStep, StreamStep, CommitOrRollbackStep,
    StartPeriodicStep, ClosedStep, ResetStep, CloseStep, ValidateStep DEF Work
<1>3. ASSUME NEW s \in Session, Mark(s) \/ Interrupt(s) \/ Stop(s) PROVE IInv'
  BY <1>3, MarkStep, InterruptStep
<1>4. ASSUME NEW s \in Session, NEW request \in Request, Take(s, request) PROVE IInv'
  BY <1>4, TakeStep
<1>5. ASSUME NEW k \in Ktx, Expire(k) PROVE IInv'
  BY <1>5, ExpireStep
<1> QED
  BY <1>1, <1>2, <1>3, <1>4, <1>5 DEF Next

LEMMA Invariance == Spec => []IInv
BY InitIInv, NextIInv, PTL DEF Spec

(* The state machines, their transactions and the counters of interrupts   *)
(* are of the types the module gives them: no counter falls below zero.    *)
THEOREM TypeCorrect == Spec => []TypeOK
<1>1. IInv => TypeOK
  BY DEF IInv
<1> QED
  BY <1>1, Invariance, PTL

(* Between two requests of a session, the state of the protocol tells what *)
(* its state machine holds.                                                *)
THEOREM InStep == Spec => []SessionsConsistent
<1>1. IInv => SessionsConsistent
  BY DEF IInv, SessionInv, Underway, SessionsConsistent
<1> QED
  BY <1>1, Invariance, PTL

(* A late mark of a session's reading thread never falls on a transaction  *)
(* that a later request of the session has begun.                          *)
THEOREM OwnNotMarkedLate == Spec => []NoLateMarkOfOwn
<1>1. IInv => NoLateMarkOfOwn
  <2> SUFFICES ASSUME IInv, NEW s \in late PROVE marking[s] \notin Held(s)
    BY DEF NoLateMarkOfOwn
  <2>1. s \in Session
    BY DEF IInv, TypeOK
  <2> QED
    BY <2>1 DEF IInv, SessionInv, Behind
<1> QED
  BY <1>1, Invariance, PTL

(* Once a request of a session has failed, nothing of the session is       *)
(* committed before it is ready again.                                     *)
THEOREM FailedIsUndone == Spec => []FailedNeverCommits
<1>1. IInv => FailedNeverCommits
  BY DEF IInv, SessionInv, Successes, FailedNeverCommits
<1> QED
  BY <1>1, Invariance, PTL
===============================================================================
