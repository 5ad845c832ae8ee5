------------------------------ MODULE Vetting ------------------------------
(***************************************************************************)
(* The gate over the levels of the decider, with the level the parser      *)
(* infers: what an operation that is let through has been vetted for.      *)
(***************************************************************************)
EXTENDS Gate, Decider

\* The levels are those of the decider, and a query requests what
\* infer_requested_level makes of it.
ASSUME VettingAssumption ==
    /\ \A st \in Statements : LevelOf(st) = InferRequestedLevel(st)
    /\ \A n \in 1..10, st \in Statements, sc \in Schemas \cup {EmptySchema} :
           LevelPass(n, st, sc) <=> CheckLevel(n, st, sc)
    /\ \A tr \in Transitions, sc \in Schemas \cup {EmptySchema} :
           TransitionPass(tr, sc) <=> TransitionAdmissible(tr, sc)

-----------------------------------------------------------------------------
(* Properties.                                                             *)

\* "Unknown fields fail closed" (vclt-gate-contract.adoc): whatever clause of
\* an admitted query mentions a field, a subquery's or the grouping too, the
\* schema declares the field.  With no schema no query on fields is admitted.
AdmittedFieldsDeclared ==
    exit = 0 /\ request.op.kind = "query" =>
        LET q == request.op.query
            exprs == q.items \cup q.where \cup q.having
        IN  /\ q.columns \subseteq DOMAIN SchemaOf(request)
            /\ \A p \in PartsOf(exprs) :
                   /\ p.node = "field" => p.tag \in DOMAIN SchemaOf(request)
                   /\ p.sub \subseteq DOMAIN SchemaOf(request)

\* The clause of an expression names this field and also compares it with NULL.
TestedForNull(f, clause) ==
    \E c \in PartsOf(clause) :
        /\ c.node = "compare"
        /\ c.tag \in {"eq", "neq"}
        /\ {c.args[1], c.args[2]} = {Field(f), Null}

\* Although the level a query is certified at is one the parser guesses from
\* its clauses, no predicate escapes the levels made for it: an admitted query
\* reads no field that may be NULL and is not tested for it in the same
\* clause, and no admitted operation carries a raw string in its predicate or
\* compares fields of unlike types there; a transition has two subjects.
AdmittedPredicatesVetted ==
    exit = 0 =>
        LET sc == SchemaOf(request)
            op == request.op
            predicate == IF op.kind = "query" THEN op.query.where ELSE op.transition.evidence
        IN  /\ StringLit \notin PartsOf(predicate)
            /\ \A c \in Comparisons(predicate) :
                   \A f, g \in DOMAIN sc :
                       c.args = <<Field(f), Field(g)>> =>
                           {sc[f].ty[1], sc[g].ty[1]} # {"TInt", "TString"}
            /\ op.kind = "query" =>
                   \A clause \in {op.query.where, op.query.having} :
                       \A f \in FieldRefs(clause) : ~sc[f].nullable \/ TestedForNull(f, clause)
            /\ op.kind = "transition" /\ op.transition.verb # "NORMALISE" =>
                   op.transition.left # op.transition.right
=============================================================================
