---------------------------- MODULE VersionedGraph ----------------------------
(***************************************************************************)
(* What the versioned graph promises, without records, stamps, locks or    *)
(* transactions: each version shows a set of nodes and relationships, and  *)
(* a change of one entity leaves every version up to its own as it was.    *)
(***************************************************************************)
EXTENDS Integers

CONSTANTS Node, Rel, LastVersion

VARIABLES
  graph,          \* what each version shows
  racing          \* input: relationships whose deletion was decided too early

Version == 0 .. LastVersion

\* The versions after s, up to x.
Span(s, x) == {v \in Version : s < v /\ v <= x}

\* From now on the versions of the span show e, and no others do.
Show(e, span) ==
  graph' = [v \in Version |-> IF v \in span THEN graph[v] \cup {e} ELSE graph[v] \ {e}]

Init == graph = [v \in Version |-> {}]

\* An entity that no version shows is created in version s.
Appear(e) ==
  /\ \A v \in Version : e \notin graph[v]
  /\ \E s, x \in Version : Show(e, Span(s, x))

\* One that the last version shows is deleted in version s: it stays in the
\* versions up to s and leaves the others.
Vanish(e) ==
  /\ e \in graph[LastVersion]
  /\ \E s \in Version : Show(e, {v \in 0 .. s : e \in graph[v]})

\* Physical deletion takes it out of all.
Erase(e) == Show(e, {})

\* A deletion that raced with another writes what it should have read.
Overwrite(r) ==
  /\ r \in racing
  /\ \E s, x \in Version : Show(r, Span(s, x))

Next ==
  \/ \E e \in Node \cup Rel : Appear(e) \/ Vanish(e) \/ Erase(e)
  \/ \E r \in Rel : Overwrite(r)

\* Nothing is said of how racing changes.
Spec == Init /\ [][Next]_graph

==============================================================================
