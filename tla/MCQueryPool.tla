---------------------------- MODULE MCQueryPool ----------------------------
(* The pool on small instances: see the .cfg files of this name.           *)
EXTENDS QueryPoolInv, TLC

\* Threads are interchangeable.
Symmetry == Permutations(Threads)
=============================================================================
