---------------------------- MODULE MCBoltSessions ----------------------------
(* TLC instances of BoltSessions. *)
EXTENDS BoltSessions

CONSTANT
  Resets          \* the RESETs of the client that sends some

CONSTANT Resetting

MCMaxResets == [s \in Session |-> IF s = Resetting THEN Resets ELSE 0]
===============================================================================
