------------------------------- MODULE MCGate -------------------------------
(***************************************************************************)
(* vclt-gate on operations as the parser delivers them: no clause of the   *)
(* levels 7 to 10, no modal expression, and the level the parser infers.   *)
(***************************************************************************)
EXTENDS Vetting, Trees

Fields == {"f", "g", "h"}

\* No schema declares h; a request may also send no schema.
MCEmptySchema == [f \in {} |-> 0]

MCSchemas ==
    {[f |-> [ty |-> TInt, nullable |-> FALSE],
      g |-> [ty |-> TFloat, nullable |-> TRUE]],
     [f |-> [ty |-> TString, nullable |-> TRUE],
      g |-> [ty |-> TNull(TString), nullable |-> FALSE]],
     [f |-> [ty |-> TInt, nullable |-> FALSE],
      g |-> [ty |-> TString, nullable |-> FALSE]]}

Guards == {Compare("neq", Field("g"), Null), Compare("eq", Null, Field("f"))}

\* A word that is neither a keyword nor a modality: a parameter of that name.
BareName == Param("h")

Predicates ==
    {Compare("lt", Field(a), Field(b)) : a \in {"f", "h"}, b \in {"f", "g"}}
        \cup {Compare("eq", Field("f"), e) :
                e \in {Number, StringLit, Subquery({"g"}), BareName}}
        \cup {Compare("eq", Number, Subquery({f})) : f \in {"g", "h"}}
        \cup Guards

Clauses ==
    {{}} \cup {{e} : e \in Predicates}
        \cup {{Logic("or", <<a, b>>)} :
                a \in {Compare("lt", Field("f"), Field("g"))}, b \in Guards \cup {BareName}}

\* What a request for a query parses to.
MCStatements ==
    [items   : {{i} : i \in {Field("f"), Star, WholeModality, Aggregate(Field("h"))}},
     where   : Clauses,
     having  : {{}} \cup {{e} : e \in Guards \cup {Compare("lt", Number, Field("g"))}},
     columns : SUBSET {"h"},
     limit   : BOOLEAN,
     effect  : {FALSE}, version : {FALSE}, linear : {"none"}, epistemic : {{}}]

MCTransitions ==
    [verb : {"MERGE", "SPLIT"}, left : {"s", "t"}, right : {"s", "t"}, evidence : Clauses]
        \cup [verb : {"NORMALISE"}, left : {"s"}, right : {"s"}, evidence : {{}}]

\* Every operation with every schema, the request being sound; and one
\* operation with everything the checks may find.
MCRequests ==
    [check : {[k \in Checks |-> "ok"]}, op : Operations,
     schema : {{}} \cup {{sc} : sc \in Schemas}]
        \cup
    {r \in RequestType : r.op.kind = "garbage" /\ r.schema = {}}

-----------------------------------------------------------------------------
\* "Schema-unresolved; fails SchemaBound at L1 if the schema is strict"
\* (parser.rs, of a bare name): a query whose predicate has a name that the
\* schema sent does not declare is refused at level 1.
BareNameFailsSchemaBound ==
    Judged("query") /\ request.schema # {} /\ BareName \in PartsOf(request.op.query.where)
        => 1 \in stdout[1].failed
=============================================================================
