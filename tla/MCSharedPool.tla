---------------------------- MODULE MCSharedPool ----------------------------
(* The pool under threads that pass any handle: see MCSharedPool.cfg.      *)
EXTENDS SharedPool

\* What the run tells states apart by.  A thread's error message is written and
\* never read, and so is what it holds when it may pass any handle.
View == <<slotVars, pool_mutex, pc, frameVars, overlapped, intruded, passed>>
=============================================================================
