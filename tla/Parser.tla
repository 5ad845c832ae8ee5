------------------------------- MODULE Parser -------------------------------
(***************************************************************************)
(* The recursive descent of src/interface/parse/src/parser.rs over the     *)
(* tokens of a text.  Trees are those of Wire: tuples of a constructor and *)
(* its arguments, an option or list a sequence.                            *)
(*                                                                         *)
(* A token is a kind and a payload; keywords and names are both words, as  *)
(* in lexer.rs, and a word stands for all its spellings in upper and lower *)
(* case.  Numbers have no sign.                                            *)
(***************************************************************************)
EXTENDS Integers, Sequences

CONSTANTS
    MaxExprDepth,   \* MAX_EXPR_DEPTH, 256 in the code
    Text(_)         \* the bytes of a word

-----------------------------------------------------------------------------
(* A parser is applied to the tokens ts at position p, under d levels of   *)
(* nesting.  It answers a value and the position after it, or fails.       *)

Yields(v, p) == [ok |-> TRUE, value |-> v, next |-> p]
Fails(why) == [ok |-> FALSE, value |-> why]

\* The operator `?`.
Then(answer, Continue(_, _)) ==
    IF answer.ok THEN Continue(answer.value, answer.next) ELSE answer

\* peek.
Peek(ts, p) == IF p <= Len(ts) THEN ts[p] ELSE <<"End", "">>

Word(w) == <<"Word", w>>
Sym(s) == <<"Sym", s>>

\* eat_kw and eat_sym.
Eat(ts, p, token) ==
    IF Peek(ts, p) = token THEN Yields(token, p + 1) ELSE Fails("expected a token")

IsWord(ts, p, words) == Peek(ts, p)[1] = "Word" /\ Peek(ts, p)[2] \in words

\* peek_modality and peek_agg.  These words are spelt as the constructors.
Modalities ==
    {"Graph", "Vector", "Tensor", "Semantic", "Document", "Temporal", "Provenance", "Spatial"}

Aggregates == {"Count", "Sum", "Avg", "Min", "Max"}

\* parse_ident.
ParseIdent(ts, p) ==
    IF Peek(ts, p)[1] = "Word" THEN Yields(Text(Peek(ts, p)[2]), p + 1)
    ELSE Fails("expected an identifier")

\* parse_subject and parse_source_arg: any word, a keyword too, or a string.
ParseName(ts, p) ==
    IF Peek(ts, p)[1] = "Str" THEN Yields(Peek(ts, p)[2], p + 1) ELSE ParseIdent(ts, p)

\* parse_u64.
ParseU64(ts, p) ==
    IF Peek(ts, p)[1] = "Int" THEN Yields(Peek(ts, p)[2], p + 1)
    ELSE Fails("expected an integer")

\* parse_field_ref.
ParseFieldRef(ts, p) ==
    IF ~IsWord(ts, p, Modalities) THEN Fails("expected a modality")
    ELSE Then(Eat(ts, p + 1, Sym(".")), LAMBDA dot, q :
         Then(ParseIdent(ts, q), LAMBDA name, r :
              Yields(<<"FieldRef", <<Peek(ts, p)[2]>>, name>>, r)))

\* One entry of parse_order_list.
ParseOrderItem(ts, p) ==
    Then(ParseFieldRef(ts, p), LAMBDA fr, q :
        Yields(<<"OrderItem", fr, ~IsWord(ts, q, {"DESC"})>>,
               IF IsWord(ts, q, {"ASC", "DESC"}) THEN q + 1 ELSE q))

\* parse_source.
Sources ==
    [OCTAD |-> "Octad", HEXAD |-> "Octad", FEDERATION |-> "Federation", STORE |-> "Store"]

ParseSource(ts, p) ==
    IF ~IsWord(ts, p, DOMAIN Sources) THEN Fails("expected a source")
    ELSE Then(ParseName(ts, p + 1), LAMBDA name, q :
              Yields(<<Sources[Peek(ts, p)[2]], name>>, q))

\* parse_repair.
ParseRepair(ts, p) ==
    CASE IsWord(ts, p, {"FROM"}) ->
             Then(Eat(ts, p + 1, Word("AUTHORITATIVE")), LAMBDA w, q :
                  IF IsWord(ts, q, Modalities)
                  THEN Yields(<<"FromAuthoritative", <<Peek(ts, q)[2]>>>>, q + 1)
                  ELSE Fails("expected a modality"))
      [] IsWord(ts, p, {"MERGE"}) ->
             Then(Eat(ts, p + 1, Word("MODALITIES")), LAMBDA w, q : Yields(<<"MergeModalities">>, q))
      [] IsWord(ts, p, {"USER"}) ->
             Then(Eat(ts, p + 1, Word("RESOLVE")), LAMBDA w, q : Yields(<<"UserResolve">>, q))
      [] OTHER -> Fails("expected a justification")

\* infer_requested_level, without the clauses that no text can have.
InferLevel(where, having, limit) ==
    IF limit # <<>> THEN <<"CardinalitySafe">>
    ELSE IF where # <<>> \/ having # <<>> THEN <<"InjectionProof">>
    ELSE <<"SchemaBound">>

-----------------------------------------------------------------------------
(* Expressions: OR < AND < NOT < comparison < primary.                     *)

Logic(op, a, b) == <<"Logic", <<op>>, a, b>>

Comparators ==
    [t \in {Sym("="), Sym("!="), Sym("<"), Sym(">"), Sym("<="), Sym(">="),
            Word("LIKE"), Word("IN")} |->
        CASE t = Sym("=") -> "Eq"       [] t = Sym("!=") -> "NotEq"
          [] t = Sym("<") -> "Lt"       [] t = Sym(">") -> "Gt"
          [] t = Sym("<=") -> "LtEq"    [] t = Sym(">=") -> "GtEq"
          [] t = Word("LIKE") -> "Like" [] OTHER -> "In"]

Modal == {"KNOWS", "BELIEVES", "ANNOUNCE", "COMMON"}

RECURSIVE ParseExpr(_, _, _)
RECURSIVE ParseOr(_, _, _)
RECURSIVE OrTail(_, _, _, _)
RECURSIVE ParseAnd(_, _, _)
RECURSIVE AndTail(_, _, _, _)
RECURSIVE ParseNot(_, _, _)
RECURSIVE ParsePrimary(_, _, _)
RECURSIVE ParseStatement(_, _, _)
RECURSIVE ParseList(_, _, _, _, _)

\* parse_expr, with enter.
ParseExpr(ts, p, d) ==
    IF d >= MaxExprDepth THEN Fails("TooDeep") ELSE ParseOr(ts, p, d + 1)

\* The loops of parse_or and parse_and nest to the left, and enter nothing.
OrTail(lhs, ts, p, d) ==
    IF ~IsWord(ts, p, {"OR"}) THEN Yields(lhs, p)
    ELSE Then(ParseAnd(ts, p + 1, d), LAMBDA rhs, q :
              OrTail(Logic("Or", lhs, <<rhs>>), ts, q, d))

ParseOr(ts, p, d) == Then(ParseAnd(ts, p, d), LAMBDA lhs, q : OrTail(lhs, ts, q, d))

AndTail(lhs, ts, p, d) ==
    IF ~IsWord(ts, p, {"AND"}) THEN Yields(lhs, p)
    ELSE Then(ParseNot(ts, p + 1, d), LAMBDA rhs, q :
              AndTail(Logic("And", lhs, <<rhs>>), ts, q, d))

ParseAnd(ts, p, d) == Then(ParseNot(ts, p, d), LAMBDA lhs, q : AndTail(lhs, ts, q, d))

\* parse_comparison: one comparison, which nothing follows.
ParseComparison(ts, p, d) ==
    Then(ParsePrimary(ts, p, d), LAMBDA lhs, q :
        IF Peek(ts, q) \notin DOMAIN Comparators THEN Yields(lhs, q)
        ELSE Then(ParsePrimary(ts, q + 1, d), LAMBDA rhs, r :
                  Yields(<<"Compare", <<Comparators[Peek(ts, q)]>>, lhs, rhs>>, r)))

\* A mistake: a chain of NOT is not counted.
ParseNotUncounted(ts, p, d) ==
    IF ~IsWord(ts, p, {"NOT"}) THEN ParseComparison(ts, p, d)
    ELSE Then(ParseNot(ts, p + 1, d), LAMBDA e, q : Yields(Logic("Not", e, <<>>), q))

\* parse_not enters for itself.
ParseNot(ts, p, d) ==
    IF ~IsWord(ts, p, {"NOT"}) THEN ParseComparison(ts, p, d)
    ELSE IF d >= MaxExprDepth THEN Fails("TooDeep")
    ELSE Then(ParseNot(ts, p + 1, d + 1), LAMBDA e, q : Yields(Logic("Not", e, <<>>), q))

\* AGG ( * ) or AGG ( expr ).
ParseAggregate(ts, p, d) ==
    Then(Eat(ts, p + 1, Sym("(")), LAMBDA open, q :
    Then(IF Peek(ts, q) = Sym("*") THEN Yields(<<"Star">>, q + 1) ELSE ParseExpr(ts, q, d),
         LAMBDA e, r :
    Then(Eat(ts, r, Sym(")")), LAMBDA close, s :
         Yields(<<"Aggregate", <<Peek(ts, p)[2]>>, e>>, s))))

\* A parenthesis: a subquery if SELECT follows, else an expression.
ParseParenthesis(ts, p, d) ==
    Then(IF IsWord(ts, p + 1, {"Select"})
         THEN Then(ParseStatement(ts, p + 1, d), LAMBDA s, q : Yields(<<"Subquery", s>>, q))
         ELSE ParseExpr(ts, p + 1, d), LAMBDA e, q :
    Then(Eat(ts, q, Sym(")")), LAMBDA close, r : Yields(e, r)))

\* A word by itself: a literal, an aggregate, a field, or else a parameter.
ParseWord(ts, p, d) ==
    CASE IsWord(ts, p, {"TRUE"}) -> Yields(<<"Literal", <<"Bool", TRUE>>>>, p + 1)
      [] IsWord(ts, p, {"FALSE"}) -> Yields(<<"Literal", <<"Bool", FALSE>>>>, p + 1)
      [] IsWord(ts, p, {"NULL"}) -> Yields(<<"Literal", <<"Null">>>>, p + 1)
      [] IsWord(ts, p, Aggregates) -> ParseAggregate(ts, p, d)
      [] IsWord(ts, p, Modalities) ->
             Then(ParseFieldRef(ts, p), LAMBDA fr, q : Yields(<<"Field", fr>>, q))
      [] OTHER -> Yields(<<"Param", Text(Peek(ts, p)[2])>>, p + 1)

ParsePrimary(ts, p, d) ==
    LET k == Peek(ts, p)[1]
        payload == Peek(ts, p)[2]
    IN CASE IsWord(ts, p, Modal) -> Fails("unsupported")
         [] Peek(ts, p) = Sym("*") -> Yields(<<"Star">>, p + 1)
         [] Peek(ts, p) = Sym("(") -> ParseParenthesis(ts, p, d)
         [] k \in {"Str", "Int", "Float"} -> Yields(<<"Literal", <<k, payload>>>>, p + 1)
         [] k = "Param" -> Yields(<<"Param", payload>>, p + 1)
         [] k = "Word" /\ ~IsWord(ts, p, Modal) -> ParseWord(ts, p, d)
         [] OTHER -> Fails("expected an expression")

-----------------------------------------------------------------------------
(* Statements and transitions.                                             *)

\* parse_select_item.
ParseSelectItem(ts, p, d) ==
    CASE IsWord(ts, p, Modal) -> Fails("unsupported")
      [] Peek(ts, p) = Sym("*") -> Yields(<<"Star">>, p + 1)
      [] IsWord(ts, p, Aggregates) -> ParseAggregate(ts, p, d)
      [] IsWord(ts, p, Modalities) ->
             IF Peek(ts, p + 1) = Sym(".")
             THEN Then(ParseFieldRef(ts, p), LAMBDA fr, q : Yields(<<"Field", fr>>, q))
             ELSE Yields(<<"Modality", <<Peek(ts, p)[2]>>>>, p + 1)
      [] OTHER -> Fails("expected a SELECT item")

\* parse_select_items, parse_field_list and parse_order_list: at least one
\* entry, with commas between them.
ParseList(entry, ts, p, d, entries) ==
    Then(CASE entry = "item" -> ParseSelectItem(ts, p, d)
           [] entry = "field" -> ParseFieldRef(ts, p)
           [] entry = "order" -> ParseOrderItem(ts, p), LAMBDA e, q :
        IF Peek(ts, q) = Sym(",") THEN ParseList(entry, ts, q + 1, d, Append(entries, e))
        ELSE Yields(Append(entries, e), q))

\* A clause is absent, or its keyword is followed by one expression or number.
ParseClause(keyword, ts, p, d) ==
    IF ~IsWord(ts, p, {keyword}) THEN Yields(<<>>, p)
    ELSE Then(IF keyword \in {"LIMIT", "OFFSET"} THEN ParseU64(ts, p + 1)
              ELSE ParseExpr(ts, p + 1, d), LAMBDA v, q : Yields(<<v>>, q))

\* GROUP BY and ORDER BY.
ParseListClause(keyword, entry, ts, p, d) ==
    IF ~IsWord(ts, p, {keyword}) THEN Yields(<<>>, p)
    ELSE Then(Eat(ts, p + 1, Word("BY")), LAMBDA by, q : ParseList(entry, ts, q, d, <<>>))

Verbs == {"Inspect", "Verify", "Assert", "Declare", "Retract", "Select"}

Extensions == {"PROOF", "EFFECTS", "AT", "CONSUME", "USAGE", "EPISTEMIC"}

ParseStatement(ts, p, d) ==
    IF ~IsWord(ts, p, Verbs) THEN Fails("expected SELECT") ELSE
    Then(ParseList("item", ts, p + 1, d, <<>>), LAMBDA items, p1 :
    Then(Eat(ts, p1, Word("FROM")), LAMBDA from, p2 :
    Then(ParseSource(ts, p2), LAMBDA source, p3 :
    Then(ParseClause("WHERE", ts, p3, d), LAMBDA where, p4 :
    Then(ParseListClause("GROUP", "field", ts, p4, d), LAMBDA group, p5 :
    Then(ParseClause("HAVING", ts, p5, d), LAMBDA having, p6 :
    Then(ParseListClause("ORDER", "order", ts, p6, d), LAMBDA order, p7 :
    Then(ParseClause("LIMIT", ts, p7, d), LAMBDA limit, p8 :
    Then(ParseClause("OFFSET", ts, p8, d), LAMBDA offset, p9 :
        IF IsWord(ts, p9, Extensions) THEN Fails("unsupported")
        ELSE Yields(<<"Statement", items, source, where, group, having, order, limit, offset,
                      <<>>, <<>>, <<>>, <<>>, <<>>,
                      InferLevel(where, having, limit), <<Peek(ts, p)[2]>>>>, p9))))))))))

\* parse_transition; a transition asks for level 4.
Requested == <<"InjectionProof">>

ParseMerge(ts, p) ==
    Then(ParseName(ts, p), LAMBDA left, p1 :
    Then(ParseName(ts, p1), LAMBDA right, p2 :
    Then(Eat(ts, p2, Word("INTO")), LAMBDA w, p3 :
    Then(ParseName(ts, p3), LAMBDA into, p4 :
    Then(ParseClause("WHERE", ts, p4, 0), LAMBDA evidence, p5 :
        Yields(<<"Merge", left, right, into, evidence, Requested>>, p5))))))

ParseSplit(ts, p) ==
    Then(ParseName(ts, p), LAMBDA from, p1 :
    Then(Eat(ts, p1, Word("INTO")), LAMBDA w, p2 :
    Then(ParseName(ts, p2), LAMBDA left, p3 :
    Then(ParseName(ts, p3), LAMBDA right, p4 :
    Then(ParseClause("WHERE", ts, p4, 0), LAMBDA evidence, p5 :
        Yields(<<"Split", from, left, right, evidence, Requested>>, p5))))))

ParseNormalise(ts, p) ==
    Then(ParseName(ts, p), LAMBDA subject, p1 :
    Then(ParseRepair(ts, p1), LAMBDA justification, p2 :
        Yields(<<"Normalise", subject, justification, Requested>>, p2)))

ParseTransition(ts) ==
    CASE IsWord(ts, 1, {"MERGE"}) -> ParseMerge(ts, 2)
      [] IsWord(ts, 1, {"SPLIT"}) -> ParseSplit(ts, 2)
      [] OTHER -> ParseNormalise(ts, 2)

\* A mistake: what follows the operation is not looked at.
EndsAnywhere(ts, p) == TRUE

EndsAt(ts, p) == p > Len(ts)

\* An operation, a semicolon if there is one, and nothing else.
ParseOp(ts) ==
    Then(IF IsWord(ts, 1, {"MERGE", "SPLIT", "NORMALISE"})
         THEN Then(ParseTransition(ts), LAMBDA t, p : Yields(<<"Transit", t>>, p))
         ELSE Then(ParseStatement(ts, 1, 0), LAMBDA s, p : Yields(<<"Query", s>>, p)),
         LAMBDA op, q :
    LET end == IF Peek(ts, q) = Sym(";") THEN q + 1 ELSE q IN
        IF EndsAt(ts, end) THEN Yields(op, end) ELSE Fails("trailing tokens"))
=============================================================================
