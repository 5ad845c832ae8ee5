------------------------------- MODULE Corpus -------------------------------
(***************************************************************************)
(* The decision procedure of the proof corpus: src/core/Decide.idr, and    *)
(* certifiedLevel of src/core/Checker.idr.  decider.rs is its port, so     *)
(* only what the two write differently is defined again.  Statements reach *)
(* it decoded from the wire: WireDecode.idr fills every type annotation    *)
(* with TAny.  RecordFree, recursive over a type, is in module Trees.      *)
(***************************************************************************)
EXTENDS Decider

CONSTANT RecordFree(_)   \* no record occurs in a type

\* vqlTypeEq has no case for records.
VqlTypeEq(a, b) == a = b /\ RecordFree(a)

\* TAny is a type like any other here.
CorpusTypesCompatible(a, b) ==
    \/ VqlTypeEq(a, b)
    \/ UnderNull(a, b) /\ RecordFree(a) /\ RecordFree(b)
    \/ {a, b} = {TInt, TFloat}

CorpusComparisonsCompatible(clause, schema) ==
    \A c \in Comparisons(clause) :
        CorpusTypesCompatible(ResolveExprType(c.args[1], schema),
                              ResolveExprType(c.args[2], schema))

TransStep(pairs) ==
    pairs \cup {<<p[1][1], p[2][2]>> :
                 p \in {q \in pairs \X pairs : q[1][2] = q[2][1]}}

\* transCloseN: what n steps make of the pairs.
TransCloseN(pairs) ==
    LET closed[n \in Nat] == IF n = 0 THEN pairs ELSE TransStep(closed[n - 1])
    IN closed

\* A mistake: the closure stops after one step.
TransCloseOnce(pairs) == TransCloseN(pairs)[1]

\* The closure, with as many steps for fuel as there are pairs.  The code's
\* list may hold a pair twice, which only adds fuel.
TransClose(pairs) == TransCloseN(pairs)[Cardinality(pairs)]

\* The cycle test of level 10: some agent entails itself in the closure.
HasTransitiveCycle(clause) ==
    \E p \in TransClose(EntailsPairs(clause)) : p[1] = p[2]

CorpusNoCycle(stmt) ==
    stmt.epistemic # {} /\ \A c \in stmt.epistemic : ~HasTransitiveCycle(c)

CorpusCheckLevel(n, stmt, schema) ==
    CASE n = 2 -> CorpusComparisonsCompatible(stmt.where, schema)
      [] n = 10 -> EpiStructOK(stmt) /\ CorpusNoCycle(stmt)
      [] OTHER -> CheckLevel(n, stmt, schema)

\* certifyAt yields a certificate when every level up to the requested one
\* has its own evidence; certifiedLevel turns it into a number.
CorpusCertifiedLevel(stmt, schema) ==
    IF \A n \in 1..stmt.level : CorpusCheckLevel(n, stmt, schema)
    THEN stmt.level ELSE -1
=============================================================================
