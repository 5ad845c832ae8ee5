----------------------------- MODULE WireEncode -----------------------------
(***************************************************************************)
(* The encoder of src/interface/parse/src/wire.rs: to_wire, to_wire_op and *)
(* to_wire_schema.  Its tables are written from the enc_ functions, apart  *)
(* from those of the decoder: constructor, tag, arguments.  What an enc_   *)
(* function writes is its Header and then, in order, its Payload: parts    *)
(* which other enc_ functions write.                                       *)
(***************************************************************************)
EXTENDS Wire

EncModality ==
    [Graph |-> <<0>>, Vector |-> <<1>>, Tensor |-> <<2>>, Semantic |-> <<3>>,
     Document |-> <<4>>, Temporal |-> <<5>>, Provenance |-> <<6>>, Spatial |-> <<7>>]

EncAgent ==
    [Engine |-> <<0>>, Prover |-> <<1, "str">>, Validator |-> <<2>>, User |-> <<3, "str">>,
     Federation |-> <<4>>]

EncLiteral ==
    [Str |-> <<0, "str">>, Int |-> <<1, "word">>, Float |-> <<2, "word">>,
     Bool |-> <<3, "bool">>, Null |-> <<4>>, Vector |-> <<5, "word*">>]

CompTag ==
    [Eq |-> <<0>>, NotEq |-> <<1>>, Lt |-> <<2>>, Gt |-> <<3>>, LtEq |-> <<4>>,
     GtEq |-> <<5>>, Like |-> <<6>>, In |-> <<7>>]

LogicTag == [And |-> <<0>>, Or |-> <<1>>, Not |-> <<2>>]

AggTag == [Count |-> <<0>>, Sum |-> <<1>>, Avg |-> <<2>>, Min |-> <<3>>, Max |-> <<4>>]

EpiTag == [Knows |-> <<0>>, Believes |-> <<1>>, CommonKnowledge |-> <<2>>]

EncExpr ==
    [Field |-> <<0, "FieldRef">>, Literal |-> <<1, "Literal">>,
     Compare |-> <<2, "CompOp", "Expr", "Expr">>, Logic |-> <<3, "LogicOp", "Expr", "Expr?">>,
     Aggregate |-> <<4, "AggFunc", "Expr">>, Param |-> <<5, "str">>, Star |-> <<6>>,
     Subquery |-> <<7, "Statement">>, Epistemic |-> <<8, "EpistemicOp", "Agent", "Expr">>,
     Announce |-> <<9, "Agent", "Expr", "Expr">>]

EncSelectItem ==
    [Field |-> <<0, "FieldRef">>, Modality |-> <<1, "Modality">>,
     Aggregate |-> <<2, "AggFunc", "Expr">>, Star |-> <<3>>]

EncSource == [Octad |-> <<0, "str">>, Federation |-> <<1, "str">>, Store |-> <<2, "str">>]

EncProof == [Attached |-> <<0>>, Witness |-> <<1, "str">>, Assert |-> <<2, "Expr">>]

EncEffect == [Read |-> <<0>>, Write |-> <<1>>, ReadWrite |-> <<2>>, Consume |-> <<3>>]

EncVersion ==
    [Latest |-> <<0>>, AtLeast |-> <<1, "word">>, Exact |-> <<2, "word">>,
     Range |-> <<3, "word", "word">>]

EncLinear == [Unlimited |-> <<0>>, UseOnce |-> <<1>>, Bounded |-> <<2, "word">>]

EncEpiReq ==
    [Knows |-> <<0, "Agent", "Expr">>, Believes |-> <<1, "Agent", "Expr">>,
     Common |-> <<2, "Expr">>, Entails |-> <<3, "Agent", "Agent", "Expr">>]

\* safety_tag: the discriminant of the enumeration itself.
SafetyTag ==
    [ParseSafe |-> <<0>>, SchemaBound |-> <<1>>, TypeCompat |-> <<2>>, NullSafe |-> <<3>>,
     InjectionProof |-> <<4>>, ResultTyped |-> <<5>>, CardinalitySafe |-> <<6>>,
     EffectTracked |-> <<7>>, TemporalSafe |-> <<8>>, LinearSafe |-> <<9>>,
     EpistemicSafe |-> <<10>>]

EncRepair ==
    [FromAuthoritative |-> <<0, "Modality">>, MergeModalities |-> <<1>>, UserResolve |-> <<2>>]

EncTransition ==
    [Merge |-> <<0, "str", "str", "str", "Expr?", "SafetyLevel">>,
     Split |-> <<1, "str", "str", "str", "Expr?", "SafetyLevel">>,
     Normalise |-> <<2, "str", "Repair", "SafetyLevel">>]

EncOp == [Query |-> <<0, "Statement">>, Transit |-> <<1, "Transition">>]

EncVqlType ==
    [TString |-> <<0>>, TInt |-> <<1>>, TFloat |-> <<2>>, TBool |-> <<3>>, TBytes |-> <<4>>,
     TVector |-> <<5, "word">>, TTimestamp |-> <<6>>, THash |-> <<7>>,
     TList |-> <<8, "VqlType">>, TRecord |-> <<9, "RecordField*">>, TOctad |-> <<10>>,
     TNull |-> <<11, "VqlType">>, TAny |-> <<12>>, TKnows |-> <<13, "Agent", "VqlType">>,
     TBelieves |-> <<14, "Agent", "VqlType">>, TCommonKnowledge |-> <<15, "VqlType">>]

Tags ==
    [Modality |-> EncModality, Agent |-> EncAgent, Literal |-> EncLiteral,
     CompOp |-> CompTag, LogicOp |-> LogicTag, AggFunc |-> AggTag, EpistemicOp |-> EpiTag,
     Expr |-> EncExpr, SelectItem |-> EncSelectItem, Source |-> EncSource,
     Proof |-> EncProof, Effect |-> EncEffect, Version |-> EncVersion,
     Linear |-> EncLinear, EpiReq |-> EncEpiReq, SafetyLevel |-> SafetyTag,
     Repair |-> EncRepair, Transition |-> EncTransition, VclOp |-> EncOp,
     VqlType |-> EncVqlType]

\* enc_stmt writes every field of a statement but the verb: a part of which
\* nothing is written.
EncStatement ==
    <<"SelectItem*", "Source", "Expr?", "FieldRef*", "Expr?", "OrderItem*", "word?", "word?",
      "Proof?", "Effect?", "Version?", "Linear?", "EpiClause?", "SafetyLevel", "Verb">>

EncFieldDef == <<"str", "VqlType", "bool", "bool">>

EncModSchema == <<"Modality", "FieldDef*">>

EncSchema == [i \in 1..8 |-> "ModalitySchema"]

Fields ==
    [FieldRef |-> <<"Modality", "str">>, OrderItem |-> <<"FieldRef", "bool">>,
     EpiClause |-> <<"Agent*", "EpiReq*">>, Verb |-> <<>>, Statement |-> EncStatement,
     RecordField |-> <<"str", "VqlType">>, FieldDef |-> EncFieldDef,
     ModalitySchema |-> EncModSchema, OctadSchema |-> EncSchema]

\* What is left of n when its lowest i bytes are shifted out.
Shifted(n) ==
    LET left[i \in Nat] == IF i = 0 THEN n ELSE left[i - 1] \div 256
    IN left

\* to_le_bytes in w bytes.
LittleEndian(n, w) == [i \in 1..w |-> Shifted(n)[i - 1] % 256]

\* Byte strings one after the other, from the last to the first.
Joined(strings) ==
    LET n == Len(strings)
        last[k \in 0..n] == IF k = 0 THEN <<>> ELSE strings[n + 1 - k] \o last[k - 1]
    IN last[n]

\* put_opt, put_len, put_str, put_u64, put_bool; a tag.
Header(v, T) ==
    CASE T \in DOMAIN Optional -> <<Len(v)>>
      [] T \in DOMAIN Listed -> LittleEndian(Len(v), LenWidth)
      [] T = "str" -> LittleEndian(Len(v), LenWidth) \o v
      [] T = "word" -> LittleEndian(v, WordWidth)
      [] T = "bool" -> IF v THEN <<1>> ELSE <<0>>
      [] T \in DOMAIN Tags -> <<Tags[T][v[1]][1]>>
      [] OTHER -> <<>>

\* The types of the parts of a value.
PartTypes(v, T) ==
    CASE T \in DOMAIN Optional -> [i \in DOMAIN v |-> Optional[T]]
      [] T \in DOMAIN Listed -> [i \in DOMAIN v |-> Listed[T]]
      [] T \in DOMAIN Tags -> Tail(Tags[T][v[1]])
      [] T \in DOMAIN Fields -> Fields[T]
      [] OTHER -> <<>>

\* The part of a value at a place: an item, or an argument of the constructor.
PartAt(v, T, i) == IF T \in DOMAIN Optional \cup DOMAIN Listed THEN v[i] ELSE v[i + 1]

\* The parts that are written after the header, each a type and a value.
Payload(v, T) ==
    [i \in DOMAIN PartTypes(v, T) |-> <<PartTypes(v, T)[i], PartAt(v, T, i)>>]

-----------------------------------------------------------------------------
(* The values there are.                                                   *)

IsList(v) == Len(v) \in Nat /\ v = [i \in 1..Len(v) |-> v[i]]

\* A number that w bytes can hold; a length that a count can, and a usize.
FitsIn(n, w) == n \in Nat /\ Shifted(n)[w] = 0
IsLength(n) == FitsIn(n, LenWidth) /\ n <= UsizeMax

\* A value of type T, whatever its parts are.  put_len and put_str saturate for
\* lengths that no count can hold (wire.rs:112-115), which are left out.
IsValue(v, T) ==
    CASE T \in DOMAIN Optional -> IsList(v) /\ Len(v) <= 1
      [] T \in DOMAIN Listed -> IsList(v) /\ IsLength(Len(v))
      [] T = "str" -> v \in Seq(Byte) /\ IsUtf8(v) /\ IsLength(Len(v))
      [] T = "word" -> FitsIn(v, WordWidth)
      [] T = "bool" -> v \in BOOLEAN
      [] T \in DOMAIN Tags ->
             IsList(v) /\ v[1] \in DOMAIN Tags[T] /\ Len(v) = Len(Tags[T][v[1]])
      [] T \in DOMAIN Fields ->
             /\ IsList(v) /\ Len(v) = Len(Fields[T]) + 1
             /\ T = "Verb" \/ v[1] = Structures[T][1]
      [] OTHER -> FALSE
=============================================================================
