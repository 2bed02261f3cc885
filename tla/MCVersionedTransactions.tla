------------------------ MODULE MCVersionedTransactions ------------------------
(* TLC instances of VersionedTransactions. *)
EXTENDS VersionedTransactions, TLC

MCSymmetry == Permutations(Thread) \cup Permutations(Kti)
==============================================================================
