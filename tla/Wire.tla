-------------------------------- MODULE Wire --------------------------------
(***************************************************************************)
(* The decoder of src/interface/parse/src/wire.rs: from_wire, from_wire_op *)
(* and from_wire_schema over untrusted bytes.                              *)
(*                                                                         *)
(* The dec_ functions call one another and every one of them reads at the  *)
(* same cursor.  What is left to do of all calls under way is the sequence *)
(* todo, what they have built so far the sequence built, and one step does *)
(* one read, one allocation of a node, or one return.                      *)
(*                                                                         *)
(* A value of type T is a tuple of its constructor and arguments.  T? is   *)
(* an option and T* a list of T: sequences of at most one element, and of  *)
(* any number.  Widths are scaled (LenWidth, WordWidth); magic and version *)
(* are a byte each.                                                        *)
(***************************************************************************)
EXTENDS Integers, Sequences, FiniteSets

CONSTANTS
    MaxDepth,    \* MAX_DEPTH, 128 in the code
    LenWidth,    \* bytes of a count or length, 4 in the code
    WordWidth,   \* bytes of an integer or float, 8 in the code
    UsizeMax     \* the largest usize: 2^32-1 in the WASM build

Byte == 0..255
Kinds == {"VCLW", "VCLT", "VCLS"}

ASSUME WireAssumption ==
    /\ MaxDepth \in Nat /\ UsizeMax \in Nat \ {0}
    /\ LenWidth \in Nat \ {0} /\ WordWidth \in Nat \ {0}

\* MAGIC, SCHEMA_MAGIC and OP_MAGIC, and the one version there is.
Magic == [VCLW |-> 87, VCLS |-> 83, VCLT |-> 84]
Version == 1

-----------------------------------------------------------------------------
(* What each dec_ function accepts: for a sum type, the constructor and    *)
(* arguments of each tag from 0 on; for a structure, those it always has.  *)

Enumeration(names) == [i \in DOMAIN names |-> <<names[i]>>]

DecModality ==
    Enumeration(<<"Graph", "Vector", "Tensor", "Semantic",
                  "Document", "Temporal", "Provenance", "Spatial">>)

DecAgent ==
    << <<"Engine">>, <<"Prover", "str">>, <<"Validator">>, <<"User", "str">>,
       <<"Federation">> >>

DecLiteral ==
    << <<"Str", "str">>, <<"Int", "word">>, <<"Float", "word">>, <<"Bool", "bool">>,
       <<"Null">>, <<"Vector", "word*">> >>

DecComp == Enumeration(<<"Eq", "NotEq", "Lt", "Gt", "LtEq", "GtEq", "Like", "In">>)

\* A mistake: two discriminants are renumbered.
DecLogicRenumbered == Enumeration(<<"Or", "And", "Not">>)

DecLogic == Enumeration(<<"And", "Or", "Not">>)

DecAgg == Enumeration(<<"Count", "Sum", "Avg", "Min", "Max">>)

DecEpiOp == Enumeration(<<"Knows", "Believes", "CommonKnowledge">>)

DecExpr ==
    << <<"Field", "FieldRef">>,
       <<"Literal", "Literal">>,
       <<"Compare", "CompOp", "Expr", "Expr">>,
       <<"Logic", "LogicOp", "Expr", "Expr?">>,
       <<"Aggregate", "AggFunc", "Expr">>,
       <<"Param", "str">>,
       <<"Star">>,
       <<"Subquery", "Statement">>,
       <<"Epistemic", "EpistemicOp", "Agent", "Expr">>,
       <<"Announce", "Agent", "Expr", "Expr">> >>

DecSelectItem ==
    << <<"Field", "FieldRef">>, <<"Modality", "Modality">>,
       <<"Aggregate", "AggFunc", "Expr">>, <<"Star">> >>

DecSource == << <<"Octad", "str">>, <<"Federation", "str">>, <<"Store", "str">> >>

DecProof == << <<"Attached">>, <<"Witness", "str">>, <<"Assert", "Expr">> >>

DecEffect == Enumeration(<<"Read", "Write", "ReadWrite", "Consume">>)

DecVersion ==
    << <<"Latest">>, <<"AtLeast", "word">>, <<"Exact", "word">>, <<"Range", "word", "word">> >>

DecLinear == << <<"Unlimited">>, <<"UseOnce">>, <<"Bounded", "word">> >>

DecEpiReq ==
    << <<"Knows", "Agent", "Expr">>, <<"Believes", "Agent", "Expr">>,
       <<"Common", "Expr">>, <<"Entails", "Agent", "Agent", "Expr">> >>

DecSafety ==
    Enumeration(<<"ParseSafe", "SchemaBound", "TypeCompat", "NullSafe", "InjectionProof",
                  "ResultTyped", "CardinalitySafe", "EffectTracked", "TemporalSafe",
                  "LinearSafe", "EpistemicSafe">>)

\* The verb is no field of the stream: dec_stmt fills in SELECT.
DecVerb == <<"Select">>

DecStatement ==
    <<"Statement", "SelectItem*", "Source", "Expr?", "FieldRef*", "Expr?", "OrderItem*",
      "word?", "word?", "Proof?", "Effect?", "Version?", "Linear?", "EpiClause?",
      "SafetyLevel", "Verb">>

DecRepair ==
    << <<"FromAuthoritative", "Modality">>, <<"MergeModalities">>, <<"UserResolve">> >>

DecTransition ==
    << <<"Merge", "str", "str", "str", "Expr?", "SafetyLevel">>,
       <<"Split", "str", "str", "str", "Expr?", "SafetyLevel">>,
       <<"Normalise", "str", "Repair", "SafetyLevel">> >>

DecOp == << <<"Query", "Statement">>, <<"Transit", "Transition">> >>

DecVqlType ==
    << <<"TString">>, <<"TInt">>, <<"TFloat">>, <<"TBool">>, <<"TBytes">>,
       <<"TVector", "word">>, <<"TTimestamp">>, <<"THash">>, <<"TList", "VqlType">>,
       <<"TRecord", "RecordField*">>, <<"TOctad">>, <<"TNull", "VqlType">>, <<"TAny">>,
       <<"TKnows", "Agent", "VqlType">>, <<"TBelieves", "Agent", "VqlType">>,
       <<"TCommonKnowledge", "VqlType">> >>

DecFieldDef == <<"FieldDef", "str", "VqlType", "bool", "bool">>

DecModSchema == <<"ModalitySchema", "Modality", "FieldDef*">>

\* Exactly eight slots, and no count before them.
DecSchema == <<"OctadSchema">> \o [i \in 1..8 |-> "ModalitySchema"]

Sums ==
    [Modality |-> DecModality, Agent |-> DecAgent, Literal |-> DecLiteral,
     CompOp |-> DecComp, LogicOp |-> DecLogic, AggFunc |-> DecAgg, EpistemicOp |-> DecEpiOp,
     Expr |-> DecExpr, SelectItem |-> DecSelectItem, Source |-> DecSource,
     Proof |-> DecProof, Effect |-> DecEffect, Version |-> DecVersion,
     Linear |-> DecLinear, EpiReq |-> DecEpiReq, SafetyLevel |-> DecSafety,
     Repair |-> DecRepair, Transition |-> DecTransition, VclOp |-> DecOp,
     VqlType |-> DecVqlType]

Structures ==
    [FieldRef |-> <<"FieldRef", "Modality", "str">>, OrderItem |-> <<"OrderItem", "FieldRef", "bool">>,
     EpiClause |-> <<"EpiClause", "Agent*", "EpiReq*">>, Verb |-> DecVerb,
     Statement |-> DecStatement, RecordField |-> <<"RecordField", "str", "VqlType">>,
     FieldDef |-> DecFieldDef, ModalitySchema |-> DecModSchema, OctadSchema |-> DecSchema]

\* The type of which an option or a list is.
Optional ==
    [t \in {"Expr?", "word?", "Proof?", "Effect?", "Version?", "Linear?", "EpiClause?"} |->
        CASE t = "Expr?" -> "Expr"       [] t = "word?" -> "word"
          [] t = "Proof?" -> "Proof"     [] t = "Effect?" -> "Effect"
          [] t = "Version?" -> "Version" [] t = "Linear?" -> "Linear"
          [] OTHER -> "EpiClause"]

Listed ==
    [t \in {"SelectItem*", "FieldRef*", "OrderItem*", "Agent*", "EpiReq*", "word*",
            "RecordField*", "FieldDef*"} |->
        CASE t = "SelectItem*" -> "SelectItem"   [] t = "FieldRef*" -> "FieldRef"
          [] t = "OrderItem*" -> "OrderItem"     [] t = "Agent*" -> "Agent"
          [] t = "EpiReq*" -> "EpiReq"           [] t = "word*" -> "word"
          [] t = "RecordField*" -> "RecordField" [] OTHER -> "FieldDef"]

\* dec_expr and dec_vqltype hold a DepthGuard while they run.
Guarded == {"Expr", "VqlType"}

Root == [VCLW |-> "Statement", VCLT |-> "VclOp", VCLS |-> "OctadSchema"]

-----------------------------------------------------------------------------
VARIABLES
    kind,    \* which of the three decoders was called
    input,   \* D.b
    pos,     \* D.pos
    depth,   \* D.depth
    todo,    \* what is left of the calls under way
    built,   \* what they have finished, each a kind and a value
    out      \* "idle", "running", "Ok" or the WireError returned

wireVars == <<kind, input, pos, depth, todo, built, out>>

Errors ==
    {"BadMagic", "BadVersion", "Truncated", "BadTag", "BadBool", "BadUtf8",
     "LengthOverflow", "TrailingBytes", "TooDeep"}

Top == todo[1]
Rest == Tail(todo)

\* A call of the decoder of T.
Read(T) == IF T \in Guarded THEN <<"enter", T>> ELSE <<"read", T>>

\* The calls a production makes, and the node it returns.
Produce(p) ==
    [i \in 1..(Len(p) - 1) |-> Read(p[i + 1])] \o << <<"node", p[1], Len(p) - 1>> >>

\* How many bytes the next step takes.
Width ==
    CASE Top[1] \in {"magic", "version"} -> 1
      [] Top[1] = "text" -> Top[2]
      [] Top[1] = "read" ->
             CASE Top[2] = "word" -> WordWidth
               [] Top[2] \in DOMAIN Listed \cup {"str"} -> LenWidth
               [] Top[2] \in DOMAIN Structures -> 0
               [] OTHER -> 1
      [] OTHER -> 0

Taken == SubSeq(input, pos + 1, pos + Width)

\* from_le_bytes, from the last byte to the first.
FromLeBytes(bytes) ==
    LET worth[i \in 0..Len(bytes)] ==
            IF i = 0 THEN 0 ELSE bytes[Len(bytes) + 1 - i] + 256 * worth[i - 1]
    IN worth[Len(bytes)]

Number == FromLeBytes(Taken)

\* from_utf8, of which only that it accepts ASCII and nothing else is kept.
IsUtf8(bytes) == \A i \in DOMAIN bytes : bytes[i] < 128

\* take.
TakeError ==
    IF pos + Width > UsizeMax THEN "LengthOverflow"
    ELSE IF pos + Width > Len(input) THEN "Truncated"
    ELSE "none"

\* A mistake: the magic of any of the streams will do.
AnyMagic == Number \in {Magic[k] : k \in Kinds}

RightMagic == Number = Magic[kind]

\* A mistake: every byte but 0 is true, as in C.
BitOrMore == Number >= 0

IsBit == Number < 2

\* What is wrong with the bytes taken.
ContentError ==
    CASE Top[1] = "magic" -> IF RightMagic THEN "none" ELSE "BadMagic"
      [] Top[1] = "version" -> IF Number = Version THEN "none" ELSE "BadVersion"
      [] Top[1] = "text" -> IF IsUtf8(Taken) THEN "none" ELSE "BadUtf8"
      [] Top[1] = "end" -> IF pos = Len(input) THEN "none" ELSE "TrailingBytes"
      [] Top[1] = "read" /\ Top[2] = "bool" -> IF IsBit THEN "none" ELSE "BadBool"
      [] Top[1] = "read" /\ Top[2] \in DOMAIN Optional ->
             IF IsBit THEN "none" ELSE "BadTag"
      [] Top[1] = "read" /\ Top[2] \in DOMAIN Sums ->
             IF Number < Len(Sums[Top[2]]) THEN "none" ELSE "BadTag"
      [] Top[1] = "read" /\ Top[2] \in DOMAIN Listed \cup {"str"} ->
             IF Number <= UsizeMax THEN "none" ELSE "LengthOverflow"
      [] OTHER -> "none"

\* A mistake: the limit of nesting is forgotten.
RefusalAtAnyDepth == IF TakeError # "none" THEN TakeError ELSE ContentError

Refusal ==
    IF Top[1] = "enter" /\ depth = MaxDepth THEN "TooDeep"
    ELSE IF TakeError # "none" THEN TakeError
    ELSE ContentError

\* The types there is a decoder of, and the constructors of their values.
Types ==
    DOMAIN Sums \cup DOMAIN Structures \cup DOMAIN Optional \cup DOMAIN Listed \cup
    {"bool", "word", "str"}

Constructors ==
    (UNION {{Sums[T][i][1] : i \in DOMAIN Sums[T]} : T \in DOMAIN Sums}) \cup
    {Structures[T][1] : T \in DOMAIN Structures}

Items ==
    {<<item>> : item \in {"magic", "version", "end", "keep", "leave"}} \cup
    ({"read", "enter"} \X Types) \cup ({"text"} \X Nat) \cup
    ({"repeat"} \X Types \X Nat) \cup ({"node"} \X Constructors \X Nat)

-----------------------------------------------------------------------------
WireInit ==
    /\ kind \in Kinds
    /\ input = <<>>
    /\ pos = 0 /\ depth = 0
    /\ todo = <<>> /\ built = <<>>
    /\ out = "idle"

\* from_wire, from_wire_op or from_wire_schema is called.
Start(k, bytes) ==
    /\ out = "idle"
    /\ kind' = k /\ input' = bytes
    /\ todo' = << <<"magic">>, <<"version">>, Read(Root[k]), <<"end">> >>
    /\ out' = "running"
    /\ UNCHANGED <<pos, depth, built>>

\* The next step succeeds: it takes its bytes, leaves calls to make and
\* values built.
Goes(item) == out = "running" /\ todo # <<>> /\ Top[1] = item /\ Refusal = "none"

Step(calls, values) ==
    /\ pos' = pos + Width
    /\ todo' = calls \o Rest
    /\ built' = values
    /\ UNCHANGED <<kind, input, out>>

\* The magic, the version, and that nothing is left at the end.
Frame ==
    /\ \E item \in {"magic", "version", "end"} : Goes(item)
    /\ Step(<<>>, built)
    /\ UNCHANGED depth

\* DepthGuard::enter, and its drop (saturating_sub).
Drop(d) == IF d = 0 THEN 0 ELSE d - 1

Enter ==
    /\ Goes("enter")
    /\ depth' = depth + 1
    /\ Step(<< <<"read", Top[2]>>, <<"leave">> >>, built)

Leave ==
    /\ Goes("leave")
    /\ depth' = Drop(depth)
    /\ Step(<<>>, built)

\* A discriminant, and the payload it announces.
ReadSum ==
    /\ Goes("read") /\ Top[2] \in DOMAIN Sums
    /\ Step(Produce(Sums[Top[2]][Number + 1]), built)
    /\ UNCHANGED depth

ReadStructure ==
    /\ Goes("read") /\ Top[2] \in DOMAIN Structures
    /\ Step(Produce(Structures[Top[2]]), built)
    /\ UNCHANGED depth

\* D::opt.
ReadOption ==
    /\ Goes("read") /\ Top[2] \in DOMAIN Optional
    /\ Step(IF Number = 1 THEN << Read(Optional[Top[2]]), <<"keep">> >> ELSE <<>>,
            Append(built, <<"list", <<>>>>))
    /\ UNCHANGED depth

\* D::vec: the count, and an empty vector; then item by item.
ReadCount ==
    /\ Goes("read") /\ Top[2] \in DOMAIN Listed
    /\ Step(<< <<"repeat", Listed[Top[2]], Number>> >>, Append(built, <<"list", <<>>>>))
    /\ UNCHANGED depth

Repeat ==
    /\ Goes("repeat")
    /\ Step(IF Top[3] = 0 THEN <<>>
            ELSE << Read(Top[2]), <<"keep">>, <<"repeat", Top[2], Top[3] - 1>> >>, built)
    /\ UNCHANGED depth

\* The value just built goes into the option or vector before it.
Keep ==
    /\ Goes("keep")
    /\ LET n == Len(built) IN
           Step(<<>>, Append(SubSeq(built, 1, n - 2),
                             <<"list", Append(built[n - 1][2], built[n][2])>>))
    /\ UNCHANGED depth

ReadBool ==
    /\ Goes("read") /\ Top[2] = "bool"
    /\ Step(<<>>, Append(built, <<"bool", Number = 1>>))
    /\ UNCHANGED depth

ReadWord ==
    /\ Goes("read") /\ Top[2] = "word"
    /\ Step(<<>>, Append(built, <<"word", Number>>))
    /\ UNCHANGED depth

\* D::string: the length, then the text.
ReadLength ==
    /\ Goes("read") /\ Top[2] = "str"
    /\ Step(<< <<"text", Number>> >>, built)
    /\ UNCHANGED depth

ReadText ==
    /\ Goes("text")
    /\ Step(<<>>, Append(built, <<"text", Taken>>))
    /\ UNCHANGED depth

\* A dec_ function returns its node.
Node ==
    /\ Goes("node")
    /\ LET n == Len(built) - Top[3] IN
           Step(<<>>, Append(SubSeq(built, 1, n),
                             <<"node", <<Top[2]>> \o [i \in 1..Top[3] |-> built[n + i][2]]>>))
    /\ UNCHANGED depth

\* A mistake: one error has no case.
RefuseButBits ==
    /\ out = "running" /\ todo # <<>>
    /\ Refusal \notin {"none", "BadBool"}
    /\ out' = Refusal
    /\ built' = <<>>
    /\ UNCHANGED <<kind, input, pos, depth, todo>>

\* Err: what was built is dropped, and the calls under way end one by one.
Refuse ==
    /\ out = "running" /\ todo # <<>>
    /\ Refusal # "none"
    /\ out' = Refusal
    /\ built' = <<>>
    /\ UNCHANGED <<kind, input, pos, depth, todo>>

\* A mistake: a decoder left by an error does not restore the depth.
UnwindAtOnce ==
    /\ out \in Errors /\ todo # <<>>
    /\ todo' = Rest
    /\ UNCHANGED <<kind, input, pos, depth, built, out>>

Unwind ==
    /\ out \in Errors /\ todo # <<>>
    /\ depth' = IF Top[1] = "leave" THEN Drop(depth) ELSE depth
    /\ todo' = Rest
    /\ UNCHANGED <<kind, input, pos, built, out>>

Return ==
    /\ out = "running" /\ todo = <<>>
    /\ out' = "Ok"
    /\ UNCHANGED <<kind, input, pos, depth, todo, built>>

Decode ==
    \/ Frame \/ Enter \/ Leave
    \/ ReadSum \/ ReadStructure \/ ReadOption \/ ReadCount \/ Repeat \/ Keep
    \/ ReadBool \/ ReadWord \/ ReadLength \/ ReadText \/ Node
    \/ Refuse \/ Unwind \/ Return

\* A decoder may be called on any bytes.
WireNext == Decode \/ \E k \in Kinds, bytes \in Seq(Byte) : Start(k, bytes)

WireSpec == WireInit /\ [][WireNext]_wireVars

Done == out \in {"Ok"} \cup Errors /\ todo = <<>>

-----------------------------------------------------------------------------
(* Properties.                                                             *)

WireTypeOK ==
    /\ kind \in Kinds
    /\ input \in Seq(Byte)
    /\ pos \in 0..Len(input)
    /\ depth \in 0..MaxDepth
    /\ todo \in Seq(Items)
    /\ out \in {"idle", "running", "Ok"} \cup Errors

\* "Balanced by DepthGuard": on every path, errors included, the depth is the
\* number of guarded decoders that have not returned (wire.rs:520-523).
DepthBalanced ==
    depth = Cardinality({i \in DOMAIN todo : todo[i] = <<"leave">>})
=============================================================================
