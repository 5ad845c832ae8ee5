-------------------------- MODULE CertifierProofs --------------------------
(***************************************************************************)
(* certified_level, for every meaning of the levels: one step of its loop  *)
(* at a time, as the gate, the recompute tier and the attestation tier     *)
(* take them.                                                              *)
(***************************************************************************)
EXTENDS Certifier, TLAPS

\* The level loop begins with nothing tried.
LEMMA LoopBegins ==
    ASSUME NEW st \in Statements, NEW sc, lvl = 1, verdict = Unknown
    PROVE  LoopInv(st, sc)
BY CertifierAssumption DEF LoopInv, PassesUpTo

\* A step of it stays among the levels.
LEMMA LoopTypes ==
    ASSUME NEW st \in Statements, NEW sc, CertifierTypeOK,
           Accept(st, sc) \/ Reject(st, sc) \/ Certify(st)
    PROVE  CertifierTypeOK'
BY CertifierAssumption DEF CertifierTypeOK, Accept, Reject, Certify, Rejected

\* One step of certified_level keeps the loop's invariant.
LEMMA LoopStep ==
    ASSUME NEW st \in Statements, NEW sc, lvl \in 1..11,
           LoopInv(st, sc), verdict = Unknown,
           Accept(st, sc) \/ Reject(st, sc) \/ Certify(st)
    PROVE  /\ LoopInv(st, sc)'
           /\ verdict' # Unknown => verdict' = CertifiedLevel(st, sc)
<1> DEFINE k == LevelOf(st)
<1>1. k \in 0..10
    BY CertifierAssumption
<1>2. CASE Accept(st, sc)
    <2>1. \A m \in 1..lvl : LevelPass(m, st, sc)
        BY <1>1, <1>2 DEF Accept, LoopInv, PassesUpTo
    <2> QED BY <1>1, <1>2, <2>1 DEF Accept, LoopInv, PassesUpTo
<1>3. CASE Reject(st, sc)
    <2>1. CertifiedLevel(st, sc) = Rejected
        BY <1>1, <1>3 DEF Reject, CertifiedLevel, PassesUpTo
    <2> QED BY <1>3, <2>1 DEF Reject, LoopInv, PassesUpTo, CertifiedLevel
<1>4. CASE Certify(st)
    <2>1. lvl - 1 = k
        BY <1>1, <1>4 DEF Certify, LoopInv
    <2>2. CertifiedLevel(st, sc) = k
        BY <2>1 DEF LoopInv, CertifiedLevel
    <2> QED BY <1>4, <2>2 DEF Certify, LoopInv, PassesUpTo, CertifiedLevel
<1> QED BY <1>2, <1>3, <1>4

\* What certified_level returns is the requested level or Rejected.
LEMMA VerdictRange ==
    ASSUME NEW st \in Statements, NEW sc
    PROVE  /\ CertifiedLevel(st, sc) \in {Rejected, LevelOf(st)}
           /\ CertifiedLevel(st, sc) \in -1..10
<1>1. LevelOf(st) \in 0..10
    BY CertifierAssumption
<1> QED BY <1>1 DEF CertifiedLevel, Rejected
=============================================================================
