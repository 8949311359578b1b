---------------------------- MODULE MCThreadPool ----------------------------
(* Small instances of ThreadPool for TLC. *)
EXTENDS ThreadPool, TLC

\* Workers and descriptors are interchangeable.
Symmetry == Permutations(Workers) \cup Permutations(Fds)

=============================================================================
