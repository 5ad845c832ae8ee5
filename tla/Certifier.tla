----------------------------- MODULE Certifier -----------------------------
(***************************************************************************)
(* certified_level of src/interface/parse/src/decider.rs: the loop that    *)
(* tries the levels 1, 2, ... up to the one a statement requests and stops *)
(* at the first that fails.  The gate and the recompute tier both run it,  *)
(* so its actions take the statement and the schema as arguments.          *)
(*                                                                         *)
(* What a level tests is a parameter here; Decider defines it.             *)
(***************************************************************************)
EXTENDS Integers

CONSTANTS
    Statements,         \* the statements a caller may submit
    Schemas,            \* the schemas it may submit with them
    LevelOf(_),         \* requested_level of a statement
    LevelPass(_, _, _)  \* check_level(n, statement, schema)

ASSUME CertifierAssumption ==
    \A st \in Statements : LevelOf(st) \in 0..10

VARIABLES
    lvl,      \* the level about to be tried
    verdict   \* what certified_level returns, Unknown until it does

certifierVars == <<lvl, verdict>>

Unknown == -2
Rejected == -1

CertifierTypeOK ==
    /\ lvl \in 1..11
    /\ verdict \in -2..10

CertifierInit ==
    /\ lvl = 1
    /\ verdict = Unknown

\* A mistake: the requested level itself is never tried.
AcceptBelow(st, sc) ==
    /\ verdict = Unknown
    /\ lvl <= LevelOf(st)
    /\ lvl < LevelOf(st) => LevelPass(lvl, st, sc)
    /\ lvl' = lvl + 1
    /\ UNCHANGED verdict

\* A mistake: the loop's counter stays where it is.
AcceptAgain(st, sc) ==
    /\ verdict = Unknown
    /\ lvl <= LevelOf(st)
    /\ LevelPass(lvl, st, sc)
    /\ UNCHANGED <<lvl, verdict>>

\* Level lvl passes.
Accept(st, sc) ==
    /\ verdict = Unknown
    /\ lvl <= LevelOf(st)
    /\ LevelPass(lvl, st, sc)
    /\ lvl' = lvl + 1
    /\ UNCHANGED verdict

\* Level lvl fails: the statement is rejected, no later level is tried.
Reject(st, sc) ==
    /\ verdict = Unknown
    /\ lvl <= LevelOf(st)
    /\ ~LevelPass(lvl, st, sc)
    /\ verdict' = Rejected
    /\ UNCHANGED lvl

\* A mistake: the loop's counter is returned.
CertifyCounter(st) ==
    /\ verdict = Unknown
    /\ lvl > LevelOf(st)
    /\ verdict' = lvl
    /\ UNCHANGED lvl

\* Every level up to the requested one has passed.
Certify(st) ==
    /\ verdict = Unknown
    /\ lvl > LevelOf(st)
    /\ verdict' = LevelOf(st)
    /\ UNCHANGED lvl

-----------------------------------------------------------------------------
(* What the loop computes.                                                 *)

PassesUpTo(n, st, sc) == \A m \in 1..n : LevelPass(m, st, sc)

\* The value certified_level is documented to return.
CertifiedLevel(st, sc) ==
    IF PassesUpTo(LevelOf(st), st, sc) THEN LevelOf(st) ELSE Rejected

\* The loop's invariant: the levels below lvl have passed.
LoopInv(st, sc) ==
    /\ lvl <= LevelOf(st) + 1
    /\ PassesUpTo(lvl - 1, st, sc)
    /\ verdict \in {Unknown, CertifiedLevel(st, sc)}
=============================================================================
