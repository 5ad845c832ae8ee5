----------------------------- MODULE MCTransfer -----------------------------
(***************************************************************************)
(* Texts and trees for TLC: every constructor of every type of the wire,   *)
(* nesting up to and beyond both limits, every text of a few tokens.       *)
(***************************************************************************)
EXTENDS Transfer, TreeWalks, Parser, SequencesExt

CONSTANT TextLength   \* the longest WHERE clause of the arbitrary texts

Spelling ==
    [w \in {"a", "AND", "OR", "NOT"} |->
        CASE w = "a" -> <<97>> [] w = "AND" -> <<65>> [] w = "OR" -> <<79>> [] OTHER -> <<78, 79>>]

\* Keywords are names where a name is expected; no other word is in these texts.
MCText(w) == IF w \in DOMAIN Spelling THEN Spelling[w] ELSE <<120>>

-----------------------------------------------------------------------------
(* Trees.                                                                  *)

A == Spelling["a"]
P == <<"Param", A>>
FR == <<"FieldRef", <<"Graph">>, <<>>>>

Nodes(enum) == {<<c>> : c \in DOMAIN enum}

Base ==
    <<"Statement", <<<<"Star">>>>, <<"Octad", A>>, <<>>, <<>>, <<>>, <<>>, <<>>, <<>>,
      <<>>, <<>>, <<>>, <<>>, <<>>, <<"SchemaBound">>, <<"Select">>>>

Filter(e) == [Base EXCEPT ![4] = <<e>>, ![15] = <<"InjectionProof">>]

Literals ==
    {<<"Str", A>>, <<"Int", 258>>, <<"Float", 1>>, <<"Bool", TRUE>>, <<"Null">>,
     <<"Vector", <<>>>>, <<"Vector", <<1, 65535>>>>}

Agents ==
    {<<"Engine">>, <<"Prover", A>>, <<"Validator">>, <<"User", <<>>>>, <<"Federation">>}

RECURSIVE Chain(_), Nots(_), Parentheses(_)
Chain(n) == IF n = 0 THEN P ELSE Logic("And", Chain(n - 1), <<P>>)
Nots(n) == IF n = 0 THEN P ELSE Logic("Not", Nots(n - 1), <<>>)
Parentheses(n) == IF n = 0 THEN P ELSE Logic("Or", P, <<Logic("And", P, <<Parentheses(n - 1)>>)>>)

\* What a text can say.
Surface ==
    {<<"Field", <<"FieldRef", m, A>>>> : m \in Nodes(EncModality)}
    \cup {<<"Literal", l>> : l \in {x \in Literals : x[1] # "Vector"}}
    \cup {P, <<"Star">>, <<"Aggregate", <<"Sum">>, P>>, <<"Aggregate", <<"Count">>, <<"Star">>>>}
    \cup {<<"Compare", op, P, <<"Literal", <<"Int", 2>>>>>> : op \in Nodes(CompTag)}
    \cup {<<"Compare", <<"Eq">>, Chain(1), Nots(1)>>, Logic("Or", Chain(1), <<Chain(1)>>),
          Logic("And", P, <<Logic("Or", P, <<P>>)>>), Logic("And", P, <<Chain(1)>>),
          Logic("Not", Chain(1), <<>>), <<"Subquery", Filter(<<"Subquery", Filter(P)>>)>>}
    \cup {Chain(n) : n \in 1..6} \cup {Nots(n) : n \in 1..6} \cup {Parentheses(n) : n \in 1..5}

\* What only the wire can say.
Modals ==
    {<<"Epistemic", k, <<"Engine">>, P>> : k \in Nodes(EpiTag)}
    \cup {<<"Announce", a, P, <<"Literal", l>>>> : a \in Agents, l \in {<<"Null">>}}
    \cup {<<"Literal", l>> : l \in Literals}

SurfaceStatements ==
    {Filter(e) : e \in Surface}
    \cup {[Base EXCEPT ![2] = items] :
             items \in {<<<<"Modality", <<"Graph">>>>, <<"Field", <<"FieldRef", <<"Tensor">>, A>>>>>>,
                        <<<<"Aggregate", <<"Max">>, P>>>>}}
    \cup {[Base EXCEPT ![3] = <<c, A>>] : c \in DOMAIN EncSource}
    \cup {[Base EXCEPT ![16] = v] : v \in {<<w>> : w \in Verbs}}
    \cup {[Base EXCEPT ![4] = <<P>>, ![6] = <<Nots(1)>>, ![9] = <<2>>, ![15] = <<"InjectionProof">>,
                       ![5] = <<<<"FieldRef", <<"Spatial">>, A>>>>,
                       ![7] = <<<<"OrderItem", <<"FieldRef", <<"Graph">>, A>>, FALSE>>,
                                <<"OrderItem", <<"FieldRef", <<"Graph">>, A>>, TRUE>>>>],
          [Base EXCEPT ![8] = <<258>>, ![15] = <<"CardinalitySafe">>]}

WireStatements ==
    {[Base EXCEPT ![4] = <<e>>] :
         e \in Modals \cup {<<"Subquery", [Base EXCEPT ![16] = <<"Inspect">>]>>}}
    \cup {[Base EXCEPT ![10] = <<p>>] : p \in {<<"Attached">>, <<"Witness", A>>, <<"Assert", Chain(2)>>}}
    \cup {[Base EXCEPT ![11] = <<x>>] : x \in Nodes(EncEffect)}
    \cup {[Base EXCEPT ![12] = <<x>>] :
             x \in {<<"Latest">>, <<"AtLeast", 1>>, <<"Exact", 1>>, <<"Range", 1, 256>>}}
    \cup {[Base EXCEPT ![13] = <<x>>] : x \in {<<"Unlimited">>, <<"UseOnce">>, <<"Bounded", 1>>}}
    \cup {[Base EXCEPT ![14] = <<<<"EpiClause", <<<<"Engine">>, <<"User", A>>>>, <<r>>>>>>] :
             r \in {<<"Knows", <<"Engine">>, P>>, <<"Believes", <<"Engine">>, P>>, <<"Common", P>>,
                    <<"Entails", <<"Engine">>, <<"Validator">>, P>>}}
    \cup {[Base EXCEPT ![15] = x] : x \in Nodes(SafetyTag)}

Transitions ==
    {<<c, A, <<>>, A, e, <<"InjectionProof">>>> : c \in {"Merge", "Split"}, e \in {<<>>, <<P>>}}
    \cup {<<"Normalise", A, r, <<"InjectionProof">>>> :
             r \in {<<"FromAuthoritative", <<"Graph">>>>, <<"MergeModalities">>, <<"UserResolve">>}}

RECURSIVE Lists(_)
Lists(n) == IF n = 0 THEN <<"TInt">> ELSE <<"TList", Lists(n - 1)>>

VqlTypes ==
    {<<c>> : c \in {c \in DOMAIN EncVqlType : Len(EncVqlType[c]) = 1}}
    \cup {<<"TVector", 258>>, <<"TNull", <<"TBool">>>>, <<"TKnows", <<"Engine">>, <<"TInt">>>>,
          <<"TBelieves", <<"User", A>>, <<"TInt">>>>, <<"TCommonKnowledge", <<"TInt">>>>,
          <<"TRecord", <<<<"RecordField", A, <<"TInt">>>>, <<"RecordField", A, Lists(1)>>>>>>}
    \cup {Lists(n) : n \in 1..4}

Schema(t) ==
    <<"OctadSchema", <<"ModalitySchema", <<"Graph">>, <<<<"FieldDef", A, t, FALSE, TRUE>>>>>>>>
        \o [i \in 1..7 |-> <<"ModalitySchema", <<"Vector">>, <<>>>>]

\* Trees that also meet damage; the rest of the surface goes by its text.
Frail ==
    [kind : {"VCLW"}, value : WireStatements]
    \cup [kind : {"VCLT"}, value : {<<"Transit", t>> : t \in Transitions}]
    \cup [kind : {"VCLS"}, value : {Schema(<<"TRecord", <<<<"RecordField", A, <<"TVector", 258>>>>>>>>)}]

MCTrees ==
    Frail \cup [kind : {"VCLS"}, value : {Schema(t) : t \in VqlTypes}]
          \cup [kind : {"VCLW"}, value : {Filter(Chain(n)) : n \in 0..4}
                                               \cup {[Base EXCEPT ![16] = <<w>>] : w \in Verbs}]

FrailStreams == {ToWire(t.kind, t.value) : t \in Frail}

\* A byte changed, a count or length at its largest, the end cut off, or a byte
\* too many.
MCDamaged(bytes) ==
    IF bytes \in FrailStreams
    THEN {[bytes EXCEPT ![i] = b] : i \in DOMAIN bytes, b \in {1, 255}}
         \cup {[bytes EXCEPT ![i] = 255, ![i + 1] = 255] :
                  i \in {i \in 1..(Len(bytes) - 1) : bytes[1] # Magic["VCLW"]}}
         \cup {SubSeq(bytes, 1, n) : n \in 0..(Len(bytes) - 1)} \cup {Append(bytes, 0)}
    ELSE {}

-----------------------------------------------------------------------------
(* The text of a tree, with no parenthesis it does not need.               *)

WordOf(bytes) == CHOOSE w \in DOMAIN Spelling : Spelling[w] = bytes

Binding(e) ==
    CASE e[1] = "Logic" -> (CASE e[2][1] = "Or" -> 1 [] e[2][1] = "And" -> 2 [] OTHER -> 3)
      [] e[1] = "Compare" -> 4
      [] OTHER -> 5

Symbols == [t \in DOMAIN Comparators |-> <<Comparators[t]>>]

InParentheses(ts) == <<Sym("(")>> \o ts \o <<Sym(")")>>

FieldText(fr) == <<Word(fr[2][1]), Sym("."), Word(WordOf(fr[3]))>>

RECURSIVE Unparse(_), Show(_, _), Said(_)

\* e where nothing looser than binding b may stand by itself.
Show(e, b) == IF Binding(e) < b THEN InParentheses(Said(e)) ELSE Said(e)

Said(e) ==
    CASE e[1] = "Logic" /\ e[4] # <<>> ->
             Show(e[3], Binding(e)) \o <<Word(IF e[2][1] = "Or" THEN "OR" ELSE "AND")>>
                 \o Show(e[4][1], Binding(e) + 1)
      [] e[1] = "Logic" /\ e[4] = <<>> -> <<Word("NOT")>> \o Show(e[3], 3)
      [] e[1] = "Compare" ->
             Show(e[3], 5) \o <<CHOOSE t \in DOMAIN Symbols : Symbols[t] = e[2]>> \o Show(e[4], 5)
      [] e[1] = "Aggregate" -> <<Word(e[2][1])>> \o InParentheses(Show(e[3], 1))
      [] e[1] = "Subquery" -> InParentheses(Unparse(e[2]))
      [] e[1] = "Field" -> FieldText(e[2])
      [] e[1] = "Star" -> <<Sym("*")>>
      [] e[1] = "Param" -> <<Word(WordOf(e[2]))>>
      [] e[1] = "Literal" ->
             CASE e[2][1] = "Bool" -> <<Word(IF e[2][2] THEN "TRUE" ELSE "FALSE")>>
               [] e[2][1] = "Null" -> <<Word("NULL")>>
               [] OTHER -> <<e[2]>>

Clause(keyword, value) == IF value = <<>> THEN <<>> ELSE <<Word(keyword)>> \o Show(value[1], 1)

Count(keyword, n) == IF n = <<>> THEN <<>> ELSE <<Word(keyword), <<"Int", n[1]>>>>

Separated(list, Entry(_)) ==
    FlattenSeq([i \in DOMAIN list |-> (IF i = 1 THEN <<>> ELSE <<Sym(",")>>) \o Entry(list[i])])

ItemText(i) == IF i[1] = "Modality" THEN <<Word(i[2][1])>> ELSE Said(i)

OrderText(o) == FieldText(o[2]) \o (IF o[3] THEN <<>> ELSE <<Word("DESC")>>)

Unparse(s) ==
    <<Word(s[16][1])>> \o Separated(s[2], ItemText)
    \o <<Word("FROM"), Word(CHOOSE w \in DOMAIN Sources \ {"HEXAD"} : Sources[w] = s[3][1]),
         Word(WordOf(s[3][2]))>>
    \o Clause("WHERE", s[4])
    \o (IF s[5] = <<>> THEN <<>> ELSE <<Word("GROUP"), Word("BY")>> \o Separated(s[5], FieldText))
    \o Clause("HAVING", s[6])
    \o (IF s[7] = <<>> THEN <<>> ELSE <<Word("ORDER"), Word("BY")>> \o Separated(s[7], OrderText))
    \o Count("LIMIT", s[8]) \o Count("OFFSET", s[9])

Prefix == <<Word("Select"), Sym("*"), Word("FROM"), Word("OCTAD"), Word("a"), Word("WHERE")>>

Alphabet ==
    {Word("a"), Word("NOT"), Word("AND"), Word("OR"), Sym("="), Sym("("), Sym(")"),
     Word("Count"), Word("KNOWS")}

MCTexts ==
    {[text |-> Unparse(s), meant |-> <<"Query", s>>] : s \in SurfaceStatements}
    \cup {[text |-> Prefix \o ts, meant |-> NoTree] :
             ts \in UNION {[1..n -> Alphabet] : n \in 0..TextLength}}

-----------------------------------------------------------------------------
(* Properties of the parser.                                               *)

\* How deep parse_expr and parse_not nest for an expression, at binding b.
RECURSIVE Entered(_, _), EnteredBy(_)
Entered(e, b) ==
    LET most(S) == CHOOSE n \in S : \A m \in S : m <= n
        inner ==
            CASE e[1] = "Logic" /\ e[4] # <<>> ->
                     most({Entered(e[3], Binding(e)), Entered(e[4][1], Binding(e) + 1)})
              [] e[1] = "Logic" /\ e[4] = <<>> -> 1 + Entered(e[3], 3)
              [] e[1] = "Compare" -> most({Entered(e[3], 5), Entered(e[4], 5)})
              [] e[1] = "Aggregate" -> IF e[3] = <<"Star">> THEN 0 ELSE 1 + Entered(e[3], 1)
              [] e[1] = "Subquery" -> EnteredBy(e[2])
              [] OTHER -> 0
    IN IF Binding(e) < b THEN 1 + inner ELSE inner

EnteredBy(s) ==
    LET roots == {x \in {s[4], s[6]} : x # <<>>}
                     \cup {<<i[3]>> : i \in {i \in ToSet(s[2]) : i[1] = "Aggregate" /\ i[3] # <<"Star">>}}
        depths == {0} \cup {1 + Entered(r[1], 1) : r \in roots}
    IN CHOOSE n \in depths : \A m \in depths : m <= n

Parsed == text # <<>> /\ stage # "text"

\* A text is parsed to the tree it was written for, whatever the precedence
\* and association of its operators, and refused exactly if it nests beyond
\* MAX_EXPR_DEPTH: wide texts are not (parser.rs:69-70).
ParsesAsMeant ==
    Parsed /\ meant # NoTree =>
        IF EnteredBy(meant[2]) <= MaxExprDepth THEN sent.value = meant ELSE stage = "refused"

WithoutParentheses(ts) == SelectSeq(ts, LAMBDA t : t \notin {Sym("("), Sym(")")})

\* Never "a silently-wrong AST" (parser.rs:14-15), for texts that nobody
\* meant: the tree accounts for every token, in order, and a text without
\* parentheses is the text of its tree.
NothingDropped ==
    Parsed /\ stage # "refused" =>
        LET again == Unparse(sent.value[2]) IN
            /\ WithoutParentheses(again) = WithoutParentheses(text)
            /\ Sym("(") \notin ToSet(text) => again = text
=============================================================================
