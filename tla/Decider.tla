------------------------------ MODULE Decider ------------------------------
(***************************************************************************)
(* What each safety level tests: src/interface/parse/src/decider.rs over   *)
(* the syntax trees of ast.rs.                                             *)
(*                                                                         *)
(* An expression is a node with a tag and its operands in order.  Every    *)
(* walk of the decider visits the same subtrees, those reached without     *)
(* entering a subquery, and asks of them an order-free question; so one    *)
(* operator, Parts, stands for the walks.  It is recursive over the tree   *)
(* (module Trees), and a parameter here, since what the levels make of the *)
(* subtrees does not depend on how they are found.  A subquery carries the *)
(* fields its clauses refer to, all that any level asks of it.             *)
(*                                                                         *)
(* An optional clause is a set of at most one element.  A field reference  *)
(* is its name: modality and name are only ever compared together.  A      *)
(* schema maps the fields it declares to their first declaration.          *)
(***************************************************************************)
EXTENDS Integers, Sequences, FiniteSets

CONSTANT Parts(_)   \* the subtrees of an expression

Node(node, tag, args, sub) == [node |-> node, tag |-> tag, args |-> args, sub |-> sub]

Field(f) == Node("field", f, <<>>, {})
Literal(kind) == Node("literal", kind, <<>>, {})
Param(name) == Node("param", name, <<>>, {})
Star == Node("star", "*", <<>>, {})
WholeModality == Node("modality", "*", <<>>, {})
Compare(op, l, r) == Node("compare", op, <<l, r>>, {})
Logic(op, args) == Node("logic", op, args, {})
Aggregate(e) == Node("aggregate", "agg", <<e>>, {})
Epistemic(e) == Node("epistemic", "knows", <<e>>, {})
Announce(p, b) == Node("announce", "announce", <<p, b>>, {})
Subquery(refs) == Node("subquery", "select", <<>>, refs)

Null == Literal("null")
StringLit == Literal("string")
Number == Literal("number")

PartsOf(clause) == UNION {Parts(e) : e \in clause}

-----------------------------------------------------------------------------
(* Types.  A type is a tuple of its constructor and its arguments, so that *)
(* vqltype_eq is equality.                                                 *)

TAny == <<"TAny">>
TInt == <<"TInt">>
TFloat == <<"TFloat">>
TString == <<"TString">>
TOctad == <<"TOctad">>
TNull(ty) == <<"TNull", ty>>
TRecord(ty) == <<"TRecord", ty>>   \* a record of one field of that type

ResolveType(f, schema) == IF f \in DOMAIN schema THEN schema[f].ty ELSE TAny

IsNullable(f, schema) == f \in DOMAIN schema => schema[f].nullable

\* Nothing but a field and a subquery has a type of its own.
ResolveExprType(e, schema) ==
    IF e.node = "field" THEN ResolveType(e.tag, schema)
    ELSE IF e.node = "subquery" THEN TOctad
    ELSE TAny

ResolveSelectItemType(item, schema) ==
    IF item.node = "modality" THEN TOctad
    ELSE IF item.node = "aggregate" THEN ResolveExprType(item.args[1], schema)
    ELSE ResolveExprType(item, schema)

\* A null on the left is looked through before one on the right is.
UnderNull(a, b) ==
    \/ a[1] = "TNull" /\ a[2] = b
    \/ a[1] # "TNull" /\ b[1] = "TNull" /\ b[2] = a

\* A mistake: numbers are widened from left to right only.
TypesCompatibleOneWay(a, b) ==
    TAny \in {a, b} \/ a = b \/ UnderNull(a, b) \/ <<a, b>> = <<TInt, TFloat>>

TypesCompatible(a, b) ==
    \/ TAny \in {a, b}
    \/ a = b
    \/ UnderNull(a, b)
    \/ {a, b} = {TInt, TFloat}

-----------------------------------------------------------------------------
(* The levels.                                                             *)

Comparisons(clause) == {p \in PartsOf(clause) : p.node = "compare"}

FieldRefs(clause) == {p.tag : p \in {q \in PartsOf(clause) : q.node = "field"}}

\* A mistake: the fields of a subquery are not collected.
OuterFieldRefs(stmt) ==
    FieldRefs(stmt.items \cup stmt.where \cup stmt.having) \cup stmt.columns

\* Every field a statement mentions, in its subqueries too.  columns holds
\* those of GROUP BY and ORDER BY.
StatementFieldRefs(stmt) ==
    LET exprs == stmt.items \cup stmt.where \cup stmt.having IN
    FieldRefs(exprs) \cup (UNION {p.sub : p \in PartsOf(exprs)}) \cup stmt.columns

SchemaBound(stmt, schema) == StatementFieldRefs(stmt) \subseteq DOMAIN schema

ComparisonsCompatible(clause, schema) ==
    \A c \in Comparisons(clause) :
        TypesCompatible(ResolveExprType(c.args[1], schema),
                        ResolveExprType(c.args[2], schema))

\* The fields a clause compares with NULL, for equality or inequality.
NullGuarded(clause) ==
    {f \in FieldRefs(clause) :
        \E c \in Comparisons(clause) :
            c.tag \in {"eq", "neq"} /\ c.args \in {<<Field(f), Null>>, <<Null, Field(f)>>}}

NullSafe(stmt, schema) ==
    \A clause \in {stmt.where, stmt.having} :
        \A f \in FieldRefs(clause) : IsNullable(f, schema) => f \in NullGuarded(clause)

HasStringLit(clause) == StringLit \in PartsOf(clause)

ResultTyped(stmt, schema) ==
    \A item \in stmt.items : ResolveSelectItemType(item, schema) # TAny

LinearEnforced(stmt) == stmt.linear \in {"use_once", "bounded"}

\* A requirement is a kind and two agents, the second the first's equal when
\* the kind names but one.
Undeclared(clause) ==
    {r[i] : r \in {q \in clause.reqs : q[1] # "common"}, i \in {2, 3}} \ clause.agents

EntailsPairs(clause) == {<<r[2], r[3]>> : r \in {q \in clause.reqs : q[1] = "entails"}}

\* Two agents that entail each other; an agent that entails itself is one.
HasCircularEntails(clause) ==
    \E p \in EntailsPairs(clause) : <<p[2], p[1]>> \in EntailsPairs(clause)

EpiStructOK(stmt) ==
    stmt.epistemic # {} /\ \A c \in stmt.epistemic : c.agents # {} /\ Undeclared(c) = {}

\* A mistake: only an agent that entails itself is a cycle.
EpiNoSelfEntails(stmt) ==
    stmt.epistemic # {} /\ \A c \in stmt.epistemic : \A p \in EntailsPairs(c) : p[1] # p[2]

EpiNoCycle(stmt) ==
    stmt.epistemic # {} /\ \A c \in stmt.epistemic : ~HasCircularEntails(c)

CheckLevel(n, stmt, schema) ==
    CASE n = 1 -> SchemaBound(stmt, schema)
      [] n = 2 -> ComparisonsCompatible(stmt.where, schema)
      [] n = 3 -> NullSafe(stmt, schema)
      [] n = 4 -> ~HasStringLit(stmt.where)
      [] n = 5 -> ResultTyped(stmt, schema)
      [] n = 6 -> stmt.limit
      [] n = 7 -> stmt.effect
      [] n = 8 -> stmt.version
      [] n = 9 -> LinearEnforced(stmt)
      [] n = 10 -> EpiStructOK(stmt) /\ EpiNoCycle(stmt)
      [] OTHER -> n = 0

-----------------------------------------------------------------------------
(* Transitions.  The two subjects of a transition are the inputs of a      *)
(* MERGE and the outputs of a SPLIT; NORMALISE has but one.                *)

SubjectsDistinct(tr) == tr.verb # "NORMALISE" => tr.left # tr.right

TransitionAdmissible(tr, schema) ==
    /\ SubjectsDistinct(tr)
    /\ ~HasStringLit(tr.evidence)
    /\ ComparisonsCompatible(tr.evidence, schema)

-----------------------------------------------------------------------------
\* A mistake: a HAVING clause asks for nothing.
InferFromWhere(stmt) ==
    IF stmt.limit THEN 6 ELSE IF stmt.where # {} THEN 4 ELSE 1

\* infer_requested_level, in parser.rs: the level a parsed statement requests.
\* The parser accepts none of the clauses of levels 7 to 10.
InferRequestedLevel(stmt) ==
    IF stmt.limit THEN 6 ELSE IF stmt.where \cup stmt.having # {} THEN 4 ELSE 1
=============================================================================
