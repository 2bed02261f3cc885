-------------------------- MODULE AtomicTransactions --------------------------
(***************************************************************************)
(* What transactions promise their clients, without the objects they run   *)
(* in, the pool these come from, nesting and the steps of a close: a       *)
(* transaction is begun, asked to commit, doomed by whoever may veto it,   *)
(* and has one outcome.  Later its client is told: a close that returns    *)
(* says that the client got what it asked for, an exception nothing.       *)
(***************************************************************************)
CONSTANT Client

VARIABLES
  outcome,        \* of the last transaction of each client
  asked,          \* clients that want theirs committed
  doomed,         \* clients whose transaction must not be
  told            \* how the close ended for the client

client == <<outcome, asked, doomed, told>>

Init ==
  /\ outcome = [c \in Client |-> "none"] /\ told = [c \in Client |-> "none"]
  /\ asked = {} /\ doomed = {}

\* The first one, or the next when the last close has ended.
Begin(c) ==
  /\ outcome[c] = "none" \/ told[c] # "none"
  /\ outcome' = [outcome EXCEPT ![c] = "pending"]
  /\ told' = [told EXCEPT ![c] = "none"]
  /\ asked' = asked \ {c}
  /\ UNCHANGED doomed

\* The client calls success().
Ask(c) ==
  /\ outcome[c] = "pending"
  /\ asked' = asked \cup {c}
  /\ UNCHANGED <<outcome, doomed, told>>

\* A failure, a nested transaction that did not succeed or a termination.
Doom(c) ==
  /\ outcome[c] = "pending"
  /\ doomed' = doomed \cup {c}
  /\ UNCHANGED <<outcome, asked, told>>

Commit(c) ==
  /\ outcome[c] = "pending" /\ c \in asked \ doomed
  /\ outcome' = [outcome EXCEPT ![c] = "committed"]
  /\ UNCHANGED <<asked, doomed, told>>

\* For whatever reason.
Abort(c) ==
  /\ outcome[c] = "pending"
  /\ outcome' = [outcome EXCEPT ![c] = "aborted"]
  /\ doomed' = doomed \ {c}
  /\ UNCHANGED <<asked, told>>

\* The close returns, which it must not if the client did not get its will.
Return(c) ==
  /\ outcome[c] = (IF c \in asked THEN "committed" ELSE "aborted") /\ told[c] = "none"
  /\ told' = [told EXCEPT ![c] = "returned"]
  /\ UNCHANGED <<outcome, asked, doomed>>

\* The close throws, whatever the outcome was.
Throw(c) ==
  /\ outcome[c] \in {"committed", "aborted"} /\ told[c] = "none"
  /\ told' = [told EXCEPT ![c] = "threw"]
  /\ UNCHANGED <<outcome, asked, doomed>>

\* A crash ends them all.
Crash ==
  /\ outcome' = [c \in Client |-> "none"] /\ told' = [c \in Client |-> "none"]
  /\ asked' = {} /\ doomed' = {}

Next ==
  \/ \E c \in Client :
       Begin(c) \/ Ask(c) \/ Doom(c) \/ Commit(c) \/ Abort(c) \/ Return(c) \/ Throw(c)
  \/ Crash

Spec == Init /\ [][Next]_client

==============================================================================
