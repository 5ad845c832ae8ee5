---------------------------- MODULE Conformance ----------------------------
(***************************************************************************)
(* vcl_recompute over the levels of the decider, next to the procedure of  *)
(* the corpus that decider.rs is the port of.                              *)
(***************************************************************************)
EXTENDS Recompute, Corpus

CONSTANT Agents   \* the agents of epistemic clauses

\* The levels are those of the decider, and a statement carries the level it
\* requests.  A clause of the wire is a finite list of requirements.
ASSUME ConformanceAssumption ==
    /\ \A st \in Statements : LevelOf(st) = st.level
    /\ \A n \in 1..10, st \in Statements, sc \in Schemas :
           LevelPass(n, st, sc) <=> CheckLevel(n, st, sc)

\* An epistemic clause names agents.
ASSUME AgentsAssumption ==
    /\ IsFiniteSet(Agents)
    /\ \A st \in Statements : \A c \in st.epistemic :
           EntailsPairs(c) \subseteq Agents \X Agents

-----------------------------------------------------------------------------
(* Properties: the port against the corpus, and the corpus against what    *)
(* its cycle test is for.                                                  *)

\* The call has returned a verdict on this statement and this schema.
Decided(st, sc) == pc = "returned" /\ ~null /\ stmt = {st} /\ schema = {sc}

\* No comparison of WHERE has one operand of unresolved type, or an operand
\* that is a record; no cycle of ENTAILS has more than two agents.
SharedDomain(st, sc) ==
    /\ \A c \in Comparisons(st.where) :
           LET a == ResolveExprType(c.args[1], sc)
               b == ResolveExprType(c.args[2], sc)
           IN (a = TAny <=> b = TAny) /\ RecordFree(a) /\ RecordFree(b)
    /\ \A c \in st.epistemic : HasTransitiveCycle(c) => HasCircularEntails(c)

\* The port and the corpus differ in those three respects and in no other.
ConformsOnSharedDomain ==
    \A st \in stmt, sc \in schema :
        Decided(st, sc) /\ SharedDomain(st, sc)
            => result = CorpusCertifiedLevel(st, sc)

\* Where they differ the port is the more permissive one: what the corpus
\* certifies the port certifies, at the same level.
CertifiesWhatCorpusCertifies ==
    \A st \in stmt, sc \in schema :
        Decided(st, sc) /\ CorpusCertifiedLevel(st, sc) # Rejected
            => result = CorpusCertifiedLevel(st, sc)

\* The agents can be ranked so that every ENTAILS goes up: there is no cycle.
Ranked(clause) ==
    \E rank \in [Agents -> 1..Cardinality(Agents)] :
        \A p \in EntailsPairs(clause) : rank[p[1]] < rank[p[2]]

\* The cycle test of the corpus, closure with fuel, finds a cycle exactly
\* where there is one: the contract says that "no theorem proves" it
\* (vclt-gate-contract.adoc).
CycleTestExact ==
    \A st \in stmt : \A c \in st.epistemic : HasTransitiveCycle(c) <=> ~Ranked(c)
=============================================================================
