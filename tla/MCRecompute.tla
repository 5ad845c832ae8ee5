---------------------------- MODULE MCRecompute ----------------------------
(***************************************************************************)
(* vcl_recompute over statements as the wire carries them, with every      *)
(* clause and any requested level, next to the procedure of the corpus.    *)
(***************************************************************************)
EXTENDS Conformance, Trees

Fields == {"f", "g", "h"}

\* No schema declares h.  Types that are the same but for a null, for two
\* nulls, for the width of a number, and two records.
MCSchemas ==
    {[f |-> [ty |-> TInt, nullable |-> FALSE],
      g |-> [ty |-> TNull(TFloat), nullable |-> TRUE]],
     [f |-> [ty |-> TInt, nullable |-> TRUE],
      g |-> [ty |-> TFloat, nullable |-> FALSE]],
     [f |-> [ty |-> TNull(TString), nullable |-> FALSE],
      g |-> [ty |-> TNull(TNull(TString)), nullable |-> FALSE]],
     [f |-> [ty |-> TRecord(TInt), nullable |-> FALSE],
      g |-> [ty |-> TNull(TRecord(TInt)), nullable |-> FALSE]]}

FieldComparisons ==
    {Compare("lt", Field(a), Field(b)) : a \in Fields, b \in Fields}

Guards == {Compare("neq", Field("g"), Null), Compare("eq", Null, Field("g"))}

LiteralComparisons ==
    {Compare("eq", Field("f"), e) : e \in {Number, StringLit, Subquery({"g"})}}

\* Conditions below the other constructors an expression has.
Nested ==
    {Logic("and", <<a, b>>) : a \in FieldComparisons, b \in Guards \cup {StringLit}}
        \cup {Logic("not", <<a>>) : a \in FieldComparisons}
        \cup {Epistemic(Compare("eq", Param("p"), Number)),
              Announce(Param("p"), StringLit),
              Compare("lt", Subquery({"h"}), Subquery({"f"}))}

Clauses == {{}} \cup {{e} : e \in FieldComparisons \cup Guards \cup LiteralComparisons \cup Nested}

\* A statement that asks for level 0 and would be granted it.
Basic ==
    [items |-> {Field("f")}, where |-> {}, having |-> {}, columns |-> {},
     limit |-> TRUE, effect |-> TRUE, version |-> TRUE, linear |-> "use_once",
     epistemic |-> {}, level |-> 0]

\* Levels 1 to 5, on every clause.
Queries ==
    {[Basic EXCEPT !.where = w, !.having = h, !.items = {i}, !.level = n] :
        w \in Clauses,
        h \in {{}} \cup {{g} : g \in Guards \cup {Compare("lt", Field("g"), Field("f"))}},
        i \in {Field("f"), Star, WholeModality, Aggregate(Field("g"))},
        n \in {1, 2, 5}}

\* Levels 6 to 10, on the clause each requires.
Extended ==
    {[Basic EXCEPT !.limit = a, !.effect = b, !.version = c, !.linear = l, !.level = n] :
        a \in BOOLEAN, b \in BOOLEAN, c \in BOOLEAN,
        l \in {"none", "unlimited", "use_once", "bounded"},
        n \in 6..10}

\* Every ENTAILS graph over the agents; and too few agents for a requirement.
EpistemicClauses ==
    {[agents |-> Agents, reqs |-> {<<"entails", p[1], p[2]>> : p \in edges}] :
        edges \in SUBSET (Agents \X Agents)}
    \cup
    {[agents |-> ags, reqs |-> rs] :
        ags \in SUBSET Agents,
        rs \in {{<<"entails", a, b>>} : a \in Agents, b \in Agents}
               \cup {{<<k, a, a>>} : k \in {"knows", "common"}, a \in Agents}}

Knowing == {[Basic EXCEPT !.epistemic = {c}, !.level = 10] : c \in EpistemicClauses}

MCStatements == UNION {Queries, Extended, Knowing}

MCLevelOf(st) == st.level

-----------------------------------------------------------------------------
\* "Rust verdict == Idris certifiedLevel" (decider.rs:18), for whatever the
\* wire can carry.
ConformsToCorpus ==
    \A st \in stmt, sc \in schema :
        Decided(st, sc) => result = CorpusCertifiedLevel(st, sc)
=============================================================================
